---------------------------- MODULE ReleaseProofs ----------------------------
(***************************************************************************)
(* Releases made in one shell, one run after the other: any targets, any    *)
(* commits, any number of runs, failures and kills.  Two shells at once can *)
(* spoil a release; the theorems do not speak of them.                      *)
(***************************************************************************)
EXTENDS Release, TLAPS

OneShell == \E t : Tools = {t}

\* What a run for a commit makes of a target, and what it lists.
Whole(commit, x) == [commit |-> commit, platform |-> x, whole |-> TRUE]
LineFor(commit, x) == [path |-> [dir |-> ".", target |-> x], hash |-> Whole(commit, x)]
FirstLines(commit, n) == {LineFor(commit, Targets[i]) : i \in 1..n}

\* The archives of the first n targets are those of t's run.
Made(t, n) == \A i \in 1..n : archives[Targets[i]] = Whole(args[t].commit, Targets[i])

-----------------------------------------------------------------------------
(* The inductive invariant *)

\* What a run knows of its flags and of the bound.
FlagsInv(t) ==
  /\ pc[t] # "idle" \/ exit[t] = "0" => args[t] \in [commit : Commits, clean : BOOLEAN]
  /\ pc[t] = "remove" => args[t].clean
  /\ pc[t] # "idle" => runs < MaxRuns

\* A directory that is not there is empty, and a run starts with an empty one.
DirInv(t) ==
  /\ ~exists => manifest = Null /\ \A x \in Target : archives[x] = Null
  /\ pc[t] = "mkdir" => ~exists
  /\ pc[t] \in {"build", "create", "write", "manifest"} => manifest = Null

\* How far the loops have come.
LoopInv(t) ==
  /\ pc[t] \in {"inspect", "remove", "mkdir"} => built[t] = 0
  /\ pc[t] \in {"build", "create", "write", "sum"} => built[t] < Len(Targets)
  /\ pc[t] \in {"build", "create", "write"} => Made(t, built[t])
  /\ pc[t] = "write" => archives[BuildTarget(t)] # Null
  /\ pc[t] \in {"manifest", "sum", "close"} => Made(t, Len(Targets))
  /\ pc[t] = "sum" => manifest = FirstLines(args[t].commit, built[t])
  /\ pc[t] = "close" => manifest = FirstLines(args[t].commit, Len(Targets))

\* What a run that has reported success has left.
ExitInv(t) ==
  exit[t] = "0" => /\ pc[t] = "idle" /\ Made(t, Len(Targets))
                   /\ manifest # Null
                   /\ manifest \subseteq FirstLines(args[t].commit, Len(Targets))
                   /\ lost \/ manifest = FirstLines(args[t].commit, Len(Targets))

\* A release is there in full until a run with -clean removes it.
ReleasedInv(t) ==
  released # Null => /\ archives = released /\ pc[t] \in {"idle", "inspect", "remove"}
                     /\ \A x \in Target : archives[x] # Null

RunInv(t) == FlagsInv(t) /\ DirInv(t) /\ LoopInv(t) /\ ExitInv(t) /\ ReleasedInv(t)

ReleaseInv == TypeOK /\ ListedIsIntact /\ \A t \in Tools : RunInv(t)

-----------------------------------------------------------------------------
(* Targets, archives and lines *)

\* The targets are listed once each.
LEMMA TargetsAre ==
  /\ Len(Targets) \in Nat \ {0}
  /\ \A i \in 1..Len(Targets) : Targets[i] \in Target
  /\ \A x \in Target : \E i \in 1..Len(Targets) : x = Targets[i]
  /\ \A i, j \in 1..Len(Targets) : Targets[i] = Targets[j] => i = j
<1>1. Len(Targets) \in Nat /\ DOMAIN Targets = 1..Len(Targets)
  BY ReleaseAssumption
<1> QED
  BY <1>1, ReleaseAssumption DEF Target

\* A whole archive of a commit is an archive, and there.
LEMMA WholeIs ==
  ASSUME NEW c \in Commits, NEW x \in Target
  PROVE  Whole(c, x) \in Archive /\ Whole(c, x) # Null /\ Whole(c, x).whole
<1>1. Whole(c, x) \in Archive /\ Whole(c, x).whole
  BY DEF Whole, Archive
<1> QED
  BY <1>1, NullAssumption

\* What the tool packs and lists.
LEMMA ToolMakes ==
  ASSUME NEW t, NEW x
  PROVE  /\ Content(t, x) = Whole(args[t].commit, x)
         /\ Base(ArchivePath(x)) = [dir |-> ".", target |-> x]
BY DEF Content, targetEnvironment, Whole, Base, ArchivePath

\* The lines of the first targets are a manifest, and so is what is left of them.
LEMMA LinesAre ==
  ASSUME NEW c \in Commits, NEW n \in 0..Len(Targets)
  PROVE  /\ FirstLines(c, n) \subseteq Line /\ FirstLines(c, n) # Null
         /\ \A lines \in SUBSET FirstLines(c, n) : lines # Null
<1>1. \A i \in 1..n : Targets[i] \in Target
  BY TargetsAre
<1>2. \A x \in Target : LineFor(c, x) \in Line /\ LineFor(c, x) \in LineOf(c)
  BY DEF LineFor, Whole, Line, Path, Archive, LineOf
<1>3. FirstLines(c, n) \subseteq Line /\ FirstLines(c, n) \in SUBSET LineOf(c)
  BY <1>1, <1>2 DEF FirstLines
<1>4. \A lines \in SUBSET FirstLines(c, n) : lines \in SUBSET LineOf(c)
  BY <1>3
<1> QED
  BY <1>3, <1>4, NullAssumption

\* One more line, one more target.
LEMMA NextLine ==
  ASSUME NEW c, NEW n \in 0..Len(Targets)
  PROVE  FirstLines(c, n) \cup {LineFor(c, Targets[n + 1])} = FirstLines(c, n + 1)
<1>1. \A i : i \in 1..(n + 1) <=> i \in 1..n \/ i = n + 1
  BY TargetsAre
<1> HIDE DEF LineFor
<1> QED
  BY <1>1 DEF FirstLines

\* Lines of the archives that are there vouch for them.
LEMMA LinesIntact ==
  ASSUME NEW c \in Commits, NEW n \in 0..Len(Targets), NEW files,
         \A i \in 1..n : files[Targets[i]] = Whole(c, Targets[i])
  PROVE  \A l \in FirstLines(c, n) :
           files[l.path.target] = l.hash /\ l.hash.whole /\ l.path.dir = "."
<1> SUFFICES ASSUME NEW i \in 1..n
             PROVE  LET l == LineFor(c, Targets[i])
                    IN  files[l.path.target] = l.hash /\ l.hash.whole /\ l.path.dir = "."
  BY DEF FirstLines
<1>1. Targets[i] \in Target
  BY TargetsAre
<1>2. /\ LineFor(c, Targets[i]).path.target = Targets[i] /\ LineFor(c, Targets[i]).path.dir = "."
      /\ LineFor(c, Targets[i]).hash = Whole(c, Targets[i])
  BY DEF LineFor
<1> QED
  BY <1>1, <1>2, WholeIs

\* Every archive has been made.
LEMMA AllMade ==
  ASSUME NEW t, Made(t, Len(Targets))
  PROVE  \A x \in Target : archives[x] = Whole(args[t].commit, x)
BY TargetsAre DEF Made

-----------------------------------------------------------------------------
(* Steps *)

\* In one shell there is nobody else.
LEMMA Alone ==
  ASSUME OneShell, NEW t \in Tools, TypeOK', ListedIsIntact', RunInv(t)'
  PROVE  ReleaseInv'
BY DEF OneShell, ReleaseInv

\* What is known when a step of t begins.
LEMMA Before ==
  ASSUME ReleaseInv, NEW t \in Tools
  PROVE  /\ TypeOK /\ ListedIsIntact
         /\ FlagsInv(t) /\ DirInv(t) /\ LoopInv(t) /\ ExitInv(t) /\ ReleasedInv(t)
BY DEF ReleaseInv, RunInv

\* Lines are judged by manifest and archives alone.
LEMMA IntactKept ==
  ASSUME ListedIsIntact, UNCHANGED <<manifest, archives>>
  PROVE  ListedIsIntact'
BY DEF ListedIsIntact, Lines

\* A run begins; what is there stays.
LEMMA InvokeStep ==
  ASSUME OneShell, ReleaseInv, NEW t \in Tools, NEW clean \in BOOLEAN, Invoke(t, clean)
  PROVE  ReleaseInv'
<1>1. TypeOK /\ ListedIsIntact /\ DirInv(t) /\ ReleasedInv(t)
  BY Before
<1>2. PICK c \in Commits : args' = [args EXCEPT ![t] = [commit |-> c, clean |-> clean]]
  BY DEF Invoke
<1>3. /\ pc[t] = "idle" /\ runs < MaxRuns
      /\ built' = [built EXCEPT ![t] = 0] /\ exit' = [exit EXCEPT ![t] = "none"]
      /\ pc' = [pc EXCEPT ![t] = "inspect"]
      /\ UNCHANGED <<exists, archives, manifest, runs, faults, released, lost>>
  BY DEF Invoke, disk
<1>4. /\ args'[t] \in [commit : Commits, clean : BOOLEAN] /\ built'[t] = 0
      /\ exit'[t] = "none" /\ pc'[t] = "inspect"
  BY <1>1, <1>2, <1>3 DEF TypeOK
<1>5. TypeOK'
  BY <1>1, <1>2, <1>3, TargetsAre DEF TypeOK, PC
<1>6. RunInv(t)'
  BY <1>1, <1>3, <1>4 DEF RunInv, FlagsInv, DirInv, LoopInv, ExitInv, ReleasedInv
<1> QED
  BY <1>1, <1>3, <1>5, <1>6, IntactKept, Alone

\* A run ends without success, wherever it is.
LEMMA EndStep ==
  ASSUME OneShell, ReleaseInv, NEW t \in Tools, NEW code \in {"1", "killed"}, Exit(t, code),
         UNCHANGED <<disk, args, built, runs, released, lost>>, faults' \in 0..MaxFaults,
         pc[t] # "idle"
  PROVE  ReleaseInv'
<1>1. TypeOK /\ ListedIsIntact /\ DirInv(t) /\ ReleasedInv(t)
  BY Before
<1>2. UNCHANGED <<exists, archives, manifest>>
  BY DEF disk
<1>3. pc'[t] = "idle" /\ exit'[t] = code
  BY <1>1 DEF Exit, TypeOK
<1>4. TypeOK'
  BY <1>1, <1>2 DEF TypeOK, Exit, PC
<1>5. RunInv(t)'
  BY <1>1, <1>2, <1>3 DEF RunInv, FlagsInv, DirInv, LoopInv, ExitInv, ReleasedInv
<1> QED
  BY <1>1, <1>2, <1>4, <1>5, IntactKept, Alone

\* A step to another statement.
LEMMA WentTo ==
  ASSUME TypeOK, NEW t \in Tools, NEW label \in PC, GoTo(t, label)
  PROVE  /\ pc'[t] = label /\ pc' \in [Tools -> PC] /\ UNCHANGED <<exit, runs, faults>>
BY DEF TypeOK, GoTo

\* -clean or an empty place: a release that is there is not written over.
LEMMA InspectStep ==
  ASSUME OneShell, ReleaseInv, NEW t \in Tools, Inspect(t)
  PROVE  ReleaseInv'
<1>1. /\ TypeOK /\ ListedIsIntact /\ FlagsInv(t) /\ DirInv(t) /\ LoopInv(t) /\ ExitInv(t)
      /\ ReleasedInv(t) /\ pc[t] = "inspect"
  BY Before DEF Inspect
<1>2. /\ UNCHANGED <<disk, args, built, released, lost>> /\ UNCHANGED <<exists, archives, manifest>>
  BY DEF Inspect, disk
<1>3. CASE exists /\ ~args[t].clean /\ Exit(t, "1") /\ UNCHANGED <<runs, faults>>
  BY <1>1, <1>2, <1>3, EndStep DEF TypeOK
<1>4. ASSUME NEW label \in {"mkdir", "remove"}, GoTo(t, label),
             label = "mkdir" => ~exists, label = "remove" => args[t].clean
      PROVE  ReleaseInv'
  <2>1. /\ pc'[t] = label /\ pc' \in [Tools -> PC] /\ UNCHANGED <<exit, runs, faults>>
    BY <1>1, <1>4, WentTo DEF PC
  <2>2. TypeOK'
    BY <1>1, <1>2, <2>1 DEF TypeOK
  <2>3. ~exists => released = Null
    <3>1. Targets[1] \in Target
      BY TargetsAre
    <3> QED
      BY <1>1, <3>1 DEF DirInv, ReleasedInv
  <2>4. RunInv(t)'
    BY <1>1, <1>2, <1>4, <2>1, <2>3
       DEF RunInv, FlagsInv, DirInv, LoopInv, ExitInv, ReleasedInv
  <2> QED
    BY <1>1, <1>2, <2>2, <2>4, IntactKept, Alone
<1> QED
  BY <1>3, <1>4 DEF Inspect

\* An archive is removed before or after its line: no line vouches for another.
LEMMA RemoveEntryStep ==
  ASSUME OneShell, ReleaseInv, NEW t \in Tools, RemoveEntry(t)
  PROVE  ReleaseInv'
<1>1. /\ TypeOK /\ ListedIsIntact /\ FlagsInv(t) /\ DirInv(t) /\ LoopInv(t) /\ ExitInv(t)
      /\ pc[t] = "remove"
  BY Before DEF RemoveEntry
<1>2. UNCHANGED <<exists, pc, args, built, exit, runs, faults, lost>> /\ released' = Null
  BY <1>1 DEF RemoveEntry, FlagsInv
<1>3. /\ manifest' \in {Null, manifest}
      /\ archives' \in [Target -> Archive \cup {Null}]
      /\ \A x \in Target : archives'[x] \in {Null, archives[x]}
  BY <1>1 DEF RemoveEntry, TypeOK
<1>4. TypeOK'
  BY <1>1, <1>2, <1>3 DEF TypeOK
<1>5. ListedIsIntact'
  <2> SUFFICES ASSUME NEW l \in Lines'
               PROVE  archives'[l.path.target] \in {Null, l.hash} /\ l.hash.whole
    BY DEF ListedIsIntact
  <2>1. l \in Lines /\ l \in Line
    BY <1>1, <1>3 DEF Lines, TypeOK
  <2>2. l.path.target \in Target
    BY <2>1 DEF Line, Path
  <2> QED
    BY <1>1, <1>3, <2>1, <2>2 DEF ListedIsIntact
<1>6. RunInv(t)'
  <2>1. FlagsInv(t)' /\ DirInv(t)' /\ ReleasedInv(t)'
    BY <1>1, <1>2, <1>3 DEF FlagsInv, DirInv, ReleasedInv
  <2>2. LoopInv(t)' /\ ExitInv(t)'
    BY <1>1, <1>2 DEF LoopInv, ExitInv
  <2> QED
    BY <2>1, <2>2 DEF RunInv
<1> QED
  BY <1>4, <1>5, <1>6, Alone

\* The directory is gone when nothing is in it.
LEMMA RemoveDirStep ==
  ASSUME OneShell, ReleaseInv, NEW t \in Tools, RemoveDir(t)
  PROVE  ReleaseInv'
<1>1. /\ TypeOK /\ ListedIsIntact /\ FlagsInv(t) /\ LoopInv(t) /\ ExitInv(t) /\ ReleasedInv(t)
      /\ pc[t] = "remove" /\ manifest = Null /\ \A x \in Target : archives[x] = Null
  BY Before DEF RemoveDir
<1>2. /\ exists' = FALSE /\ GoTo(t, "mkdir")
      /\ UNCHANGED <<archives, manifest, args, built, released, lost>>
  BY DEF RemoveDir
<1>3. pc'[t] = "mkdir" /\ pc' \in [Tools -> PC] /\ UNCHANGED <<exit, runs, faults>>
  BY <1>1, <1>2, WentTo DEF PC
<1>4. TypeOK'
  BY <1>1, <1>2, <1>3 DEF TypeOK
<1>5. released = Null
  <2>1. Targets[1] \in Target
    BY TargetsAre
  <2> QED
    BY <1>1, <2>1 DEF ReleasedInv
<1>6. RunInv(t)'
  <2>1. FlagsInv(t)' /\ DirInv(t)' /\ ReleasedInv(t)'
    BY <1>1, <1>2, <1>3, <1>5 DEF FlagsInv, DirInv, ReleasedInv
  <2>2. LoopInv(t)' /\ ExitInv(t)'
    BY <1>1, <1>2, <1>3 DEF LoopInv, ExitInv
  <2> QED
    BY <2>1, <2>2 DEF RunInv
<1> QED
  BY <1>1, <1>2, <1>4, <1>6, IntactKept, Alone

\* The loop starts in an empty directory.
LEMMA MkdirStep ==
  ASSUME OneShell, ReleaseInv, NEW t \in Tools, Mkdir(t)
  PROVE  ReleaseInv'
<1>1. /\ TypeOK /\ ListedIsIntact /\ FlagsInv(t) /\ DirInv(t) /\ LoopInv(t) /\ ExitInv(t)
      /\ ReleasedInv(t) /\ pc[t] = "mkdir"
  BY Before DEF Mkdir
<1>2. /\ exists' = TRUE /\ GoTo(t, "build")
      /\ UNCHANGED <<archives, manifest, args, built, released, lost>>
  BY DEF Mkdir
<1>3. pc'[t] = "build" /\ pc' \in [Tools -> PC] /\ UNCHANGED <<exit, runs, faults>>
  BY <1>1, <1>2, WentTo DEF PC
<1>4. TypeOK'
  BY <1>1, <1>2, <1>3 DEF TypeOK
<1>5. RunInv(t)'
  <2>1. FlagsInv(t)' /\ DirInv(t)' /\ ReleasedInv(t)' /\ ExitInv(t)'
    BY <1>1, <1>2, <1>3 DEF FlagsInv, DirInv, ReleasedInv, ExitInv
  <2>2. LoopInv(t)'
    BY <1>1, <1>2, <1>3, TargetsAre DEF LoopInv, Made
  <2> QED
    BY <2>1, <2>2 DEF RunInv
<1> QED
  BY <1>1, <1>2, <1>4, <1>5, IntactKept, Alone

\* Staging touches no release.
LEMMA StageStep ==
  ASSUME OneShell, ReleaseInv, NEW t \in Tools, Stage(t)
  PROVE  ReleaseInv'
<1>1. /\ TypeOK /\ ListedIsIntact /\ FlagsInv(t) /\ DirInv(t) /\ LoopInv(t) /\ ExitInv(t)
      /\ ReleasedInv(t) /\ pc[t] = "build"
  BY Before DEF Stage
<1>2. GoTo(t, "create") /\ UNCHANGED <<exists, archives, manifest, args, built, released, lost>>
  BY DEF Stage, disk
<1>3. pc'[t] = "create" /\ pc' \in [Tools -> PC] /\ UNCHANGED <<exit, runs, faults>>
  BY <1>1, <1>2, WentTo DEF PC
<1>4. TypeOK'
  BY <1>1, <1>2, <1>3 DEF TypeOK
<1>5. RunInv(t)'
  <2>1. FlagsInv(t)' /\ DirInv(t)' /\ ReleasedInv(t)' /\ ExitInv(t)'
    BY <1>1, <1>2, <1>3 DEF FlagsInv, DirInv, ReleasedInv, ExitInv
  <2>2. LoopInv(t)'
    BY <1>1, <1>2, <1>3 DEF LoopInv, Made
  <2> QED
    BY <2>1, <2>2 DEF RunInv
<1> QED
  BY <1>1, <1>2, <1>4, <1>5, IntactKept, Alone

\* The target the loop is at, and the ones before it.
LEMMA LoopTarget ==
  ASSUME TypeOK, NEW t \in Tools, built[t] < Len(Targets)
  PROVE  /\ built[t] \in Nat /\ built[t] + 1 \in 1..Len(Targets) /\ BuildTarget(t) \in Target
         /\ \A i \in 1..built[t] : Targets[i] \in Target /\ Targets[i] # BuildTarget(t)
<1>1. built[t] \in 0..Len(Targets) /\ Len(Targets) \in Nat
  BY TargetsAre DEF TypeOK
<1>2. /\ built[t] \in Nat /\ built[t] + 1 \in 1..Len(Targets)
      /\ \A i \in 1..built[t] : i \in 1..Len(Targets) /\ i # built[t] + 1
  BY <1>1
<1> QED
  BY <1>2, TargetsAre DEF BuildTarget

\* The archive of a target is begun; those before it are left alone.
LEMMA CreateArchiveStep ==
  ASSUME OneShell, ReleaseInv, NEW t \in Tools, CreateArchive(t)
  PROVE  ReleaseInv'
<1> DEFINE x == BuildTarget(t)
           partial == [Content(t, x) EXCEPT !.whole = FALSE]
<1>1. /\ TypeOK /\ ListedIsIntact /\ FlagsInv(t) /\ DirInv(t) /\ LoopInv(t) /\ ExitInv(t)
      /\ ReleasedInv(t) /\ pc[t] = "create" /\ exists
  BY Before DEF CreateArchive
<1>2. /\ archives' = [archives EXCEPT ![x] = partial] /\ GoTo(t, "write")
      /\ UNCHANGED <<exists, manifest, args, built, released, lost>>
  BY DEF CreateArchive
<1>3. pc'[t] = "write" /\ pc' \in [Tools -> PC] /\ UNCHANGED <<exit, runs, faults>>
  BY <1>1, <1>2, WentTo DEF PC
<1>4. /\ built[t] < Len(Targets) /\ x \in Target
      /\ \A i \in 1..built[t] : Targets[i] \in Target /\ Targets[i] # x
  BY <1>1, LoopTarget DEF LoopInv
<1>5. partial \in Archive /\ partial # Null
  <2>1. args[t].commit \in Commits
    BY <1>1 DEF FlagsInv
  <2>2. Content(t, x) \in Archive
    BY <1>4, <2>1, WholeIs, ToolMakes
  <2>3. partial \in Archive
    BY <2>2 DEF Archive
  <2> QED
    BY <2>3, NullAssumption
<1>6. BuildTarget(t)' = x
  BY <1>2 DEF BuildTarget
<1> HIDE DEF x, partial
<1>7. /\ archives' \in [Target -> Archive \cup {Null}] /\ archives'[x] # Null
      /\ \A i \in 1..built[t] : archives'[Targets[i]] = archives[Targets[i]]
  BY <1>1, <1>2, <1>4, <1>5 DEF TypeOK
<1>8. TypeOK'
  BY <1>1, <1>2, <1>3, <1>7 DEF TypeOK
<1>9. ListedIsIntact' /\ manifest = Null
  BY <1>1, <1>2 DEF DirInv, ListedIsIntact, Lines
<1>10. RunInv(t)'
  <2>1. FlagsInv(t)' /\ DirInv(t)' /\ ReleasedInv(t)' /\ ExitInv(t)'
    BY <1>1, <1>2, <1>3, <1>9 DEF FlagsInv, DirInv, ReleasedInv, ExitInv
  <2>2. LoopInv(t)'
    BY <1>1, <1>2, <1>3, <1>6, <1>7 DEF LoopInv, Made
  <2> QED
    BY <2>1, <2>2 DEF RunInv
<1> QED
  BY <1>8, <1>9, <1>10, Alone

\* The archive is whole; the loop goes on or ends.
LEMMA FinishArchiveStep ==
  ASSUME OneShell, ReleaseInv, NEW t \in Tools, FinishArchive(t)
  PROVE  ReleaseInv'
<1> DEFINE x == BuildTarget(t)
           c == args[t].commit
           label == IF built[t] + 1 = Len(Targets) THEN "manifest" ELSE "build"
<1>1. /\ TypeOK /\ ListedIsIntact /\ FlagsInv(t) /\ DirInv(t) /\ LoopInv(t) /\ ExitInv(t)
      /\ ReleasedInv(t) /\ pc[t] = "write"
  BY Before DEF FinishArchive
<1>2. /\ built[t] \in Nat /\ built[t] + 1 \in 1..Len(Targets) /\ x \in Target
      /\ \A i \in 1..built[t] : Targets[i] \in Target /\ Targets[i] # x
  BY <1>1, LoopTarget DEF LoopInv
<1>3. /\ archives' = [archives EXCEPT ![x] = IF @ = Null THEN Null ELSE Content(t, x)]
      /\ built' = [built EXCEPT ![t] = @ + 1]
      /\ GoTo(t, IF built'[t] = Len(Targets) THEN "manifest" ELSE "build")
      /\ UNCHANGED <<exists, manifest, args, released, lost>>
  BY DEF FinishArchive
<1>4. built'[t] = built[t] + 1
  BY <1>1, <1>3 DEF TypeOK
<1>5. pc'[t] = label /\ pc' \in [Tools -> PC] /\ UNCHANGED <<exit, runs, faults>>
  BY <1>1, <1>3, <1>4, WentTo DEF PC
<1>6. c \in Commits /\ Whole(c, x) \in Archive /\ Content(t, x) = Whole(c, x)
  BY <1>1, <1>2, WholeIs, ToolMakes DEF FlagsInv
<1>7. archives[x] # Null
  BY <1>1 DEF LoopInv
<1>8. /\ archives' \in [Target -> Archive \cup {Null}] /\ archives'[x] = Whole(c, x)
      /\ \A i \in 1..built[t] : archives'[Targets[i]] = archives[Targets[i]]
  BY <1>1, <1>2, <1>3, <1>6, <1>7 DEF TypeOK
<1>9. TypeOK'
  <2>1. built' \in [Tools -> 0..Len(Targets)]
    BY <1>1, <1>2, <1>3, TargetsAre DEF TypeOK
  <2> QED
    BY <1>1, <1>3, <1>5, <1>8, <2>1 DEF TypeOK
<1>10. ListedIsIntact' /\ manifest = Null
  BY <1>1, <1>3 DEF DirInv, ListedIsIntact, Lines
<1>11. Made(t, built[t])'
  <2> SUFFICES ASSUME NEW i \in 1..(built[t] + 1)
               PROVE  archives'[Targets[i]] = Whole(c, Targets[i])
    BY <1>3, <1>4 DEF Made
  <2>1. CASE i = built[t] + 1
    BY <1>8, <2>1 DEF BuildTarget
  <2>2. CASE i # built[t] + 1
    <3>1. i \in 1..built[t]
      BY <1>2, <2>2
    <3> QED
      BY <1>1, <1>8, <3>1 DEF LoopInv, Made
  <2> QED
    BY <2>1, <2>2
<1>12. RunInv(t)'
  <2>1. FlagsInv(t)' /\ DirInv(t)' /\ ReleasedInv(t)' /\ ExitInv(t)'
    BY <1>1, <1>3, <1>5, <1>10 DEF FlagsInv, DirInv, ReleasedInv, ExitInv
  <2>2. CASE built[t] + 1 = Len(Targets)
    <3>1. LoopInv(t)'
      BY <1>4, <1>5, <1>11, <2>2 DEF LoopInv, Made
    <3> QED
      BY <2>1, <3>1 DEF RunInv
  <2>3. CASE built[t] + 1 # Len(Targets)
    <3>1. built'[t] < Len(Targets)
      BY <1>2, <1>4, <2>3, TargetsAre
    <3>2. LoopInv(t)'
      BY <1>4, <1>5, <1>11, <2>3, <3>1 DEF LoopInv, Made
    <3> QED
      BY <2>1, <3>2 DEF RunInv
  <2> QED
    BY <2>2, <2>3
<1> QED
  BY <1>9, <1>10, <1>12, Alone

\* The manifest is begun when all archives are made.
LEMMA CreateManifestStep ==
  ASSUME OneShell, ReleaseInv, NEW t \in Tools, CreateManifest(t)
  PROVE  ReleaseInv'
<1>1. /\ TypeOK /\ ListedIsIntact /\ FlagsInv(t) /\ DirInv(t) /\ LoopInv(t) /\ ExitInv(t)
      /\ ReleasedInv(t) /\ pc[t] = "manifest" /\ exists
  BY Before DEF CreateManifest
<1>2. /\ manifest' = {} /\ built' = [built EXCEPT ![t] = 0] /\ GoTo(t, "sum")
      /\ UNCHANGED <<exists, archives, args, released, lost>>
  BY DEF CreateManifest
<1>3. pc'[t] = "sum" /\ pc' \in [Tools -> PC] /\ UNCHANGED <<exit, runs, faults>>
  BY <1>1, <1>2, WentTo DEF PC
<1>4. TypeOK' /\ built'[t] = 0 /\ Len(Targets) \in Nat \ {0}
  <2>1. Len(Targets) \in Nat \ {0} /\ 0 \in 0..Len(Targets)
    BY TargetsAre
  <2>2. built' \in [Tools -> 0..Len(Targets)] /\ built'[t] = 0
    BY <1>1, <1>2, <2>1 DEF TypeOK
  <2> QED
    BY <1>1, <1>2, <1>3, <2>1, <2>2 DEF TypeOK
<1>5. ListedIsIntact'
  BY <1>2 DEF ListedIsIntact, Lines
<1>6. manifest' = FirstLines(args[t].commit, 0)
  BY <1>2 DEF FirstLines
<1>7. RunInv(t)'
  <2>1. FlagsInv(t)' /\ DirInv(t)' /\ ReleasedInv(t)' /\ ExitInv(t)'
    BY <1>1, <1>2, <1>3 DEF FlagsInv, DirInv, ReleasedInv, ExitInv
  <2>2. LoopInv(t)'
    BY <1>1, <1>2, <1>3, <1>4, <1>6 DEF LoopInv, Made
  <2> QED
    BY <2>1, <2>2 DEF RunInv
<1> QED
  BY <1>4, <1>5, <1>7, Alone

\* A line is added for the archive that is there, which is the run's own.
LEMMA WriteLineStep ==
  ASSUME OneShell, ReleaseInv, NEW t \in Tools, WriteLine(t)
  PROVE  ReleaseInv'
<1> DEFINE x == BuildTarget(t)
           c == args[t].commit
           n == built[t]
<1>1. /\ TypeOK /\ ListedIsIntact /\ FlagsInv(t) /\ DirInv(t) /\ LoopInv(t) /\ ExitInv(t)
      /\ ReleasedInv(t) /\ pc[t] = "sum"
  BY Before DEF WriteLine
<1>2. n \in Nat /\ n + 1 \in 1..Len(Targets) /\ x \in Target /\ n \in 0..Len(Targets)
  BY <1>1, LoopTarget, TargetsAre DEF LoopInv, TypeOK
<1>3. /\ manifest' = manifest \cup {[path |-> Base(ArchivePath(x)), hash |-> archives[x]]}
      /\ built' = [built EXCEPT ![t] = @ + 1]
      /\ GoTo(t, IF built'[t] = Len(Targets) THEN "close" ELSE "sum")
      /\ UNCHANGED <<exists, archives, args, released, lost>>
  BY DEF WriteLine
<1>4. built'[t] = n + 1 /\ built' \in [Tools -> 0..Len(Targets)]
  BY <1>1, <1>2, <1>3, TargetsAre DEF TypeOK
<1>5. /\ pc'[t] = IF n + 1 = Len(Targets) THEN "close" ELSE "sum"
      /\ pc' \in [Tools -> PC] /\ UNCHANGED <<exit, runs, faults>>
  BY <1>1, <1>3, <1>4, WentTo DEF PC
<1>6. c \in Commits /\ archives[x] = Whole(c, x) /\ manifest = FirstLines(c, n)
  BY <1>1, <1>2, AllMade DEF FlagsInv, LoopInv
<1>7. manifest' = FirstLines(c, n + 1)
  <2>1. [path |-> Base(ArchivePath(x)), hash |-> archives[x]] = LineFor(c, Targets[n + 1])
    BY <1>6, ToolMakes DEF LineFor, BuildTarget
  <2> QED
    BY <1>2, <1>3, <1>6, <2>1, NextLine
<1>8. manifest' \subseteq Line /\ manifest' # Null /\ n + 1 \in 0..Len(Targets)
  BY <1>2, <1>6, <1>7, LinesAre, TargetsAre
<1>9. TypeOK'
  BY <1>1, <1>3, <1>4, <1>5, <1>8 DEF TypeOK
<1>10. ListedIsIntact'
  <2>1. \A i \in 1..(n + 1) : archives[Targets[i]] = Whole(c, Targets[i])
    BY <1>1, <1>2, TargetsAre DEF LoopInv, Made
  <2>2. \A l \in FirstLines(c, n + 1) : archives[l.path.target] = l.hash /\ l.hash.whole
    BY <1>6, <1>8, <2>1, LinesIntact
  <2> QED
    BY <1>3, <1>7, <1>8, <2>2 DEF ListedIsIntact, Lines
<1>11. RunInv(t)'
  <2>1. FlagsInv(t)' /\ ReleasedInv(t)' /\ ExitInv(t)'
    BY <1>1, <1>3, <1>5 DEF FlagsInv, ReleasedInv, ExitInv
  <2>2. DirInv(t)'
    <3>1. exists
      <4>1. manifest # Null
        BY <1>1, <1>2, <1>6, LinesAre
      <4> QED
        BY <1>1, <4>1 DEF DirInv
    <3> QED
      BY <1>1, <1>3, <1>5, <3>1 DEF DirInv
  <2>3. LoopInv(t)'
    <3>1. CASE n + 1 = Len(Targets)
      BY <1>1, <1>3, <1>4, <1>5, <1>7, <3>1 DEF LoopInv, Made
    <3>2. CASE n + 1 # Len(Targets)
      <4>1. built'[t] < Len(Targets)
        BY <1>2, <1>4, <3>2, TargetsAre
      <4> QED
        BY <1>1, <1>3, <1>4, <1>5, <1>7, <3>2, <4>1 DEF LoopInv, Made
    <3> QED
      BY <3>1, <3>2
  <2> QED
    BY <2>1, <2>2, <2>3 DEF RunInv
<1> QED
  BY <1>9, <1>10, <1>11, Alone

\* Success is reported with everything made and listed, or the lines lost.
LEMMA CloseManifestStep ==
  ASSUME OneShell, ReleaseInv, NEW t \in Tools, CloseManifest(t)
  PROVE  ReleaseInv'
<1>1. /\ TypeOK /\ ListedIsIntact /\ FlagsInv(t) /\ DirInv(t) /\ LoopInv(t)
      /\ pc[t] = "close"
  BY Before DEF CloseManifest
<1>2. /\ manifest' = manifest \/ (manifest # Null /\ manifest' \in SUBSET manifest)
      /\ lost' = (manifest' # manifest)
      /\ Exit(t, "0") /\ runs' = runs + 1 /\ released' = archives
      /\ UNCHANGED <<exists, archives, args, built, faults>>
  BY DEF CloseManifest
<1>3. pc'[t] = "idle" /\ exit'[t] = "0" /\ pc' \in [Tools -> PC]
      /\ exit' \in [Tools -> {"none", "0", "1", "killed"}]
  BY <1>1, <1>2 DEF Exit, TypeOK, PC
<1>4. runs < MaxRuns /\ args[t] \in [commit : Commits, clean : BOOLEAN]
  BY <1>1 DEF FlagsInv
<1>5. TypeOK'
  <2>1. runs' \in 0..MaxRuns
    BY <1>1, <1>2, <1>4, ReleaseAssumption DEF TypeOK
  <2> QED
    BY <1>1, <1>2, <1>3, <2>1 DEF TypeOK
<1>6. /\ Made(t, Len(Targets)) /\ manifest = FirstLines(args[t].commit, Len(Targets))
      /\ manifest # Null
  <2>1. Made(t, Len(Targets)) /\ manifest = FirstLines(args[t].commit, Len(Targets))
    BY <1>1 DEF LoopInv
  <2>2. args[t].commit \in Commits /\ Len(Targets) \in 0..Len(Targets)
    BY <1>4, TargetsAre
  <2> QED
    BY <2>1, <2>2, LinesAre
<1>7. ListedIsIntact' /\ manifest' \subseteq manifest /\ manifest' # Null
  <2>1. manifest' \subseteq manifest
    BY <1>2
  <2>2. manifest' # Null
    BY <1>4, <1>6, <2>1, TargetsAre, LinesAre
  <2> QED
    BY <1>1, <1>2, <1>6, <2>1, <2>2 DEF ListedIsIntact, Lines
<1>8. \A x \in Target : archives[x] # Null
  BY <1>4, <1>6, AllMade, WholeIs
<1>9. RunInv(t)'
  <2>1. exists
    BY <1>1, <1>6 DEF DirInv
  <2>2. FlagsInv(t)' /\ DirInv(t)'
    BY <1>1, <1>2, <1>3, <1>4, <2>1 DEF FlagsInv, DirInv
  <2>3. LoopInv(t)' /\ ExitInv(t)' /\ ReleasedInv(t)'
    BY <1>2, <1>3, <1>6, <1>7, <1>8 DEF LoopInv, ExitInv, ReleasedInv, Made
  <2> QED
    BY <2>2, <2>3 DEF RunInv
<1> QED
  BY <1>5, <1>7, <1>9, Alone

-----------------------------------------------------------------------------
(* The theorems *)

\* Nothing has been released.
LEMMA ReleaseInit == Init => ReleaseInv
<1> SUFFICES ASSUME Init PROVE ReleaseInv
  OBVIOUS
<1>1. TypeOK
  <2>1. 0 \in 0..Len(Targets) /\ 0 \in 0..MaxRuns /\ 0 \in 0..MaxFaults
    BY TargetsAre, ReleaseAssumption
  <2> QED
    BY <2>1 DEF Init, TypeOK, PC
<1>2. ListedIsIntact
  BY DEF Init, ListedIsIntact, Lines
<1>3. \A t \in Tools : RunInv(t)
  BY DEF Init, RunInv, FlagsInv, DirInv, LoopInv, ExitInv, ReleasedInv
<1> QED
  BY <1>1, <1>2, <1>3 DEF ReleaseInv

\* Every step of the only shell keeps the invariant.
LEMMA ReleaseStep ==
  ASSUME OneShell
  PROVE  ReleaseInv /\ [Next]_vars => ReleaseInv'
<1> SUFFICES ASSUME ReleaseInv, [Next]_vars PROVE ReleaseInv'
  OBVIOUS
<1>1. ASSUME NEW t \in Tools, \E clean \in BOOLEAN : Invoke(t, clean) PROVE ReleaseInv'
  BY <1>1, InvokeStep
<1>2. ASSUME NEW t \in Tools, Step(t) PROVE ReleaseInv'
  BY <1>2, InspectStep, RemoveEntryStep, RemoveDirStep, MkdirStep, StageStep, CreateArchiveStep,
     FinishArchiveStep, CreateManifestStep, WriteLineStep, CloseManifestStep DEF Step
<1>3. ASSUME NEW t \in Tools, Fail(t) \/ Kill(t) PROVE ReleaseInv'
  <2>1. PICK code \in {"1", "killed"} :
          /\ pc[t] # "idle" /\ faults < MaxFaults /\ faults' = faults + 1
          /\ Exit(t, code) /\ UNCHANGED <<disk, args, built, runs, released, lost>>
    BY <1>3 DEF Fail, Kill
  <2>2. faults' \in 0..MaxFaults
    BY <2>1, ReleaseAssumption DEF ReleaseInv, TypeOK
  <2> QED
    BY <2>1, <2>2, EndStep
<1>4. ASSUME UNCHANGED vars PROVE ReleaseInv'
  <2>1. UNCHANGED <<exists, archives, manifest, pc, args, built, exit, runs, faults, released, lost>>
    BY <1>4 DEF vars
  <2>2. TypeOK' /\ ListedIsIntact'
    BY <2>1, IntactKept DEF ReleaseInv, TypeOK
  <2>3. ASSUME NEW t \in Tools PROVE RunInv(t)'
    <3>1. FlagsInv(t) /\ DirInv(t) /\ LoopInv(t) /\ ExitInv(t) /\ ReleasedInv(t)
      BY Before
    <3> QED
      BY <2>1, <3>1
         DEF RunInv, FlagsInv, DirInv, LoopInv, ExitInv, ReleasedInv, Made, BuildTarget
  <2> QED
    BY <2>2, <2>3 DEF ReleaseInv
<1> QED
  BY <1>1, <1>2, <1>3, <1>4 DEF Next, Done

\* The inductive invariant holds of runs in one shell.
THEOREM ReleaseInvariant ==
  ASSUME OneShell
  PROVE  Spec => []ReleaseInv
<1>1. ReleaseInv /\ [Next]_vars => ReleaseInv'
  BY ReleaseStep
<1> QED
  BY <1>1, ReleaseInit, PTL DEF Spec

\* The variables keep their types.
THEOREM ReleaseTypes ==
  ASSUME OneShell
  PROVE  Spec => []TypeOK
<1>1. ReleaseInv => TypeOK
  BY DEF ReleaseInv
<1>2. Spec => []ReleaseInv
  BY ReleaseInvariant
<1> QED
  BY <1>1, <1>2, PTL

\* Wherever runs fail or are killed, SHA256SUMS vouches for no archive but the
\* one it was computed from.
THEOREM ListedStaysIntact ==
  ASSUME OneShell
  PROVE  Spec => []ListedIsIntact
<1>1. ReleaseInv => ListedIsIntact
  BY DEF ReleaseInv
<1>2. Spec => []ReleaseInv
  BY ReleaseInvariant
<1> QED
  BY <1>1, <1>2, PTL

\* Success means an archive of every target, of the run's own commit.
THEOREM SuccessIsComplete ==
  ASSUME OneShell
  PROVE  Spec => []SuccessComplete
<1>1. ReleaseInv => SuccessComplete
  <2> SUFFICES ASSUME ReleaseInv, NEW t \in Tools, exit[t] = "0", NEW x \in Target
               PROVE  archives[x] = [commit |-> args[t].commit, platform |-> x, whole |-> TRUE]
    BY DEF SuccessComplete
  <2>1. archives[x] = Whole(args[t].commit, x)
    BY AllMade DEF ReleaseInv, RunInv, ExitInv
  <2> QED
    BY <2>1 DEF Whole
<1>2. Spec => []ReleaseInv
  BY ReleaseInvariant
<1> QED
  BY <1>1, <1>2, PTL

\* Success means a manifest that verifies where it lies, line by line, and that
\* lists every archive if closing it lost no line.
THEOREM SuccessIsVerifiable ==
  ASSUME OneShell
  PROVE  Spec => []SuccessVerifies
<1>1. ReleaseInv => SuccessVerifies
  <2> SUFFICES ASSUME ReleaseInv, NEW t \in Tools, exit[t] = "0"
               PROVE  /\ manifest # Null
                      /\ \A l \in Lines : ShasumCheck(l, "release")
                      /\ lost \/ {l.path.target : l \in Lines} = Target
    BY DEF SuccessVerifies
  <2> DEFINE c == args[t].commit
             n == Len(Targets)
  <2>1. /\ Made(t, n) /\ manifest # Null /\ manifest \subseteq FirstLines(c, n)
        /\ lost \/ manifest = FirstLines(c, n)
        /\ c \in Commits /\ n \in 0..n
    BY TargetsAre DEF ReleaseInv, RunInv, ExitInv, FlagsInv
  <2>2. Lines = manifest
    BY <2>1 DEF Lines
  <2>3. \A l \in FirstLines(c, n) : archives[l.path.target] = l.hash /\ l.path.dir = "."
    BY <2>1, LinesIntact DEF Made
  <2>4. \A l \in Lines : ShasumCheck(l, "release")
    BY <2>1, <2>2, <2>3 DEF ShasumCheck
  <2>5. {l.path.target : l \in FirstLines(c, n)} = {Targets[i] : i \in 1..n}
    <3>1. \A i \in 1..n : LineFor(c, Targets[i]).path.target = Targets[i]
      BY DEF LineFor
    <3> QED
      BY <3>1 DEF FirstLines
  <2>6. {Targets[i] : i \in 1..n} = Target
    BY TargetsAre
  <2> QED
    BY <2>1, <2>2, <2>4, <2>5, <2>6
<1>2. Spec => []ReleaseInv
  BY ReleaseInvariant
<1> QED
  BY <1>1, <1>2, PTL

\* A release stays as it is until -clean removes it.
THEOREM ReleasesStay ==
  ASSUME OneShell
  PROVE  Spec => []ReplacedOnlyWithClean
<1>1. ReleaseInv => ReplacedOnlyWithClean
  BY DEF ReleaseInv, RunInv, ReleasedInv, ReplacedOnlyWithClean, OneShell
<1>2. Spec => []ReleaseInv
  BY ReleaseInvariant
<1> QED
  BY <1>1, <1>2, PTL
=============================================================================
