------------------------------- MODULE Release -------------------------------
(***************************************************************************)
(* The packaging tool, tools/package: one archive per target and a manifest *)
(* SHA256SUMS in the directory of a version.  The tool is run again and     *)
(* again, from different commits, with and without -clean, by one developer *)
(* or CI job or by several; any step may fail and any run may be killed.    *)
(*                                                                          *)
(* An archive's content is what went into it; its hash is the content.      *)
(* Staging happens in a private temporary directory.                        *)
(***************************************************************************)
EXTENDS Naturals, Sequences

CONSTANTS
  Tools,          \* shells the tool is run in
  Targets,        \* the sequence of targets
  Inherited,      \* the target of GOOS and GOARCH in the environment, or Null
  Commits,
  MaxRuns,        \* bound on runs that end well
  MaxFaults,      \* bound on failures and kills
  Null

Target == {Targets[n] : n \in DOMAIN Targets}

ASSUME ReleaseAssumption ==
  /\ Targets \in Seq(Target) /\ Len(Targets) > 0
  /\ \A m, n \in DOMAIN Targets : Targets[m] = Targets[n] => m = n
  /\ MaxRuns \in Nat /\ MaxFaults \in Nat
  /\ Null \notin Commits \cup Target

Archive == [commit : Commits, platform : Target, whole : BOOLEAN]
Path == [dir : {"release", "."}, target : Target]
Line == [path : Path, hash : Archive]

\* The lines of the whole archives of a commit.  A file that is not there is
\* neither an archive nor a manifest.
LineOf(commit) == [path : [dir : {"."}, target : Target],
                   hash : [commit : {commit}, platform : Target, whole : {TRUE}]]
ASSUME NullAssumption ==
  /\ \A archive \in Archive : archive # Null
  /\ \A c \in Commits : \A lines \in SUBSET LineOf(c) : lines # Null

VARIABLES
  exists,     \* releaseDir exists
  archives,   \* archives[x]: the archive of target x in releaseDir, or Null
  manifest,   \* the lines of SHA256SUMS, or Null
  pc,         \* pc[t]: where the run in t is
  args,       \* args[t]: its flags
  built,      \* built[t]: how many targets the loop has finished
  exit,       \* exit[t]: the exit code of the last run in t
  runs, faults,
  released,   \* for the properties: the archives of the last run that ended
              \* well, until -clean begins to remove them
  lost        \* for the properties: the last close of a manifest lost lines

disk == <<exists, archives, manifest>>
vars == <<exists, archives, manifest, pc, args, built, exit, runs, faults, released,
          lost>>

PC == {"idle", "inspect", "remove", "mkdir", "build", "create", "write",
       "manifest", "sum", "close"}

Init ==
  /\ exists = FALSE /\ archives = [x \in Target |-> Null] /\ manifest = Null
  /\ pc = [t \in Tools |-> "idle"]
  /\ args = [t \in Tools |-> Null]
  /\ built = [t \in Tools |-> 0]
  /\ exit = [t \in Tools |-> "none"]
  /\ runs = 0 /\ faults = 0 /\ released = Null /\ lost = FALSE

GoTo(t, label) == pc' = [pc EXCEPT ![t] = label] /\ UNCHANGED <<exit, runs, faults>>

Exit(t, code) ==
  /\ pc' = [pc EXCEPT ![t] = "idle"]
  /\ exit' = [exit EXCEPT ![t] = code]

-----------------------------------------------------------------------------
\* The flags are parsed and valid, and the repository root is found.
Invoke(t, clean) ==
  /\ pc[t] = "idle" /\ runs < MaxRuns
  /\ \E c \in Commits : args' = [args EXCEPT ![t] = [commit |-> c, clean |-> clean]]
  /\ built' = [built EXCEPT ![t] = 0]
  /\ exit' = [exit EXCEPT ![t] = "none"]
  /\ pc' = [pc EXCEPT ![t] = "inspect"]
  /\ UNCHANGED <<disk, runs, faults, released, lost>>

\* Mutant: -clean is not looked at and a run starts in any directory.
InspectNothing(t) ==
  /\ pc[t] = "inspect"
  /\ GoTo(t, "mkdir")
  /\ UNCHANGED <<disk, args, built, released, lost>>

\* Mutant: an existing directory is replaced in any case.
InspectAlways(t) ==
  /\ pc[t] = "inspect"
  /\ GoTo(t, IF exists THEN "remove" ELSE "mkdir")
  /\ UNCHANGED <<disk, args, built, released, lost>>

\* Mutant: an existing directory is refused in any case.
InspectStrict(t) ==
  /\ pc[t] = "inspect"
  /\ IF exists THEN Exit(t, "1") /\ UNCHANGED <<runs, faults>> ELSE GoTo(t, "mkdir")
  /\ UNCHANGED <<disk, args, built, released, lost>>

\* os.Stat: an existing directory is replaced with -clean and refused without.
Inspect(t) ==
  /\ pc[t] = "inspect"
  /\ \/ ~exists /\ GoTo(t, "mkdir")
     \/ exists /\ args[t].clean /\ GoTo(t, "remove")
     \/ exists /\ ~args[t].clean /\ Exit(t, "1") /\ UNCHANGED <<runs, faults>>
  /\ UNCHANGED <<disk, args, built, released, lost>>

\* os.RemoveAll takes one entry after the other, in no particular order ...
RemoveEntry(t) ==
  /\ pc[t] = "remove"
  /\ \/ /\ \E x \in Target : archives[x] # Null /\ archives' = [archives EXCEPT ![x] = Null]
        /\ UNCHANGED manifest
     \/ manifest # Null /\ manifest' = Null /\ UNCHANGED archives
  /\ released' = IF args[t].clean THEN Null ELSE released
  /\ UNCHANGED <<exists, pc, args, built, exit, runs, faults, lost>>

\* ... and then the directory.
RemoveDir(t) ==
  /\ pc[t] = "remove" /\ manifest = Null /\ \A x \in Target : archives[x] = Null
  /\ exists' = FALSE
  /\ GoTo(t, "mkdir")
  /\ UNCHANGED <<archives, manifest, args, built, released, lost>>

\* os.MkdirAll, which accepts a directory that exists, and os.MkdirTemp.
Mkdir(t) ==
  /\ pc[t] = "mkdir"
  /\ exists' = TRUE
  /\ GoTo(t, "build")
  /\ UNCHANGED <<archives, manifest, args, built, released, lost>>

-----------------------------------------------------------------------------
(* buildTargetArchive *)

\* Mutant: the environment's own GOOS and GOARCH win.
targetEnvironmentInherited(x) == IF Inherited = Null THEN x ELSE Inherited

\* GOOS, GOARCH of the environment are replaced by the target's.
targetEnvironment(x) == x

\* What writeZip or writeTarGzip packs: the binaries and the copied files.
Content(t, x) ==
  [commit |-> args[t].commit, platform |-> targetEnvironment(x), whole |-> TRUE]

BuildTarget(t) == Targets[built[t] + 1]

\* The three binaries are built and the three files copied to the staging area.
Stage(t) ==
  /\ pc[t] = "build"
  /\ GoTo(t, "create")
  /\ UNCHANGED <<disk, args, built, released, lost>>

\* os.Create truncates an archive that exists; the walk writes it.  Without the
\* directory it fails, which is Fail.
CreateArchive(t) ==
  /\ pc[t] = "create" /\ exists
  /\ archives' = [archives EXCEPT ![BuildTarget(t)] = [Content(t, BuildTarget(t)) EXCEPT !.whole = FALSE]]
  /\ GoTo(t, "write")
  /\ UNCHANGED <<exists, manifest, args, built, released, lost>>

\* The writers and the file are closed without an error.  A file that another
\* run has unlinked meanwhile is written all the same, but is not there.
FinishArchive(t) ==
  /\ pc[t] = "write"
  /\ archives' = [archives EXCEPT ![BuildTarget(t)] =
                    IF @ = Null THEN Null ELSE Content(t, BuildTarget(t))]
  /\ built' = [built EXCEPT ![t] = @ + 1]
  /\ GoTo(t, IF built'[t] = Len(Targets) THEN "manifest" ELSE "build")
  /\ UNCHANGED <<exists, manifest, args, released, lost>>

-----------------------------------------------------------------------------
(* writeChecksums *)

CreateManifest(t) ==
  /\ pc[t] = "manifest" /\ exists
  /\ manifest' = {}
  /\ built' = [built EXCEPT ![t] = 0]
  /\ GoTo(t, "sum")
  /\ UNCHANGED <<exists, archives, args, released, lost>>

ArchivePath(x) == [dir |-> "release", target |-> x]
\* Mutant: the path within the repository.
BaseRelative(path) == [path EXCEPT !.dir = "dist/packages"]

Base(path) == [path EXCEPT !.dir = "."]

\* One line; the archives are opened again for it.
WriteLine(t) ==
  /\ pc[t] = "sum" /\ manifest # Null
  /\ LET x == BuildTarget(t)
     IN  /\ archives[x] # Null
         /\ manifest' = manifest \cup {[path |-> Base(ArchivePath(x)), hash |-> archives[x]]}
  /\ built' = [built EXCEPT ![t] = @ + 1]
  /\ GoTo(t, IF built'[t] = Len(Targets) THEN "close" ELSE "sum")
  /\ UNCHANGED <<exists, archives, args, released, lost>>

\* Mutant: the run returns before the last line is written.
CloseManifestEarly(t) ==
  /\ pc[t] \in {"sum", "close"}
  /\ Exit(t, "0") /\ runs' = runs + 1 /\ released' = archives /\ lost' = FALSE
  /\ UNCHANGED <<disk, args, built, faults>>

\* The deferred output.Close, whose error is dropped also when it reports that
\* lines that were written are lost, any of them, and main returns.  A line that
\* is cut short is not told from a lost one.
CloseManifest(t) ==
  /\ pc[t] = "close"
  /\ \/ UNCHANGED manifest
     \/ manifest # Null /\ manifest' \in SUBSET manifest
  /\ lost' = (manifest' # manifest)
  /\ Exit(t, "0") /\ runs' = runs + 1 /\ released' = archives
  /\ UNCHANGED <<exists, archives, args, built, faults>>

-----------------------------------------------------------------------------
\* A flag is refused or any step fails: run returns the error, nothing is
\* undone.
Fail(t) ==
  /\ pc[t] \notin {"idle", "close"} /\ faults < MaxFaults
  /\ Exit(t, "1") /\ faults' = faults + 1
  /\ UNCHANGED <<disk, args, built, runs, released, lost>>

Kill(t) ==
  /\ pc[t] # "idle" /\ faults < MaxFaults
  /\ Exit(t, "killed") /\ faults' = faults + 1
  /\ UNCHANGED <<disk, args, built, runs, released, lost>>

Step(t) == Inspect(t) \/ RemoveEntry(t) \/ RemoveDir(t) \/ Mkdir(t) \/ Stage(t)
           \/ CreateArchive(t) \/ FinishArchive(t) \/ CreateManifest(t) \/ WriteLine(t)
           \/ CloseManifest(t)

\* Enough releases have been made.
Done == runs = MaxRuns /\ (\A t \in Tools : pc[t] = "idle") /\ UNCHANGED vars

Next == (\E t \in Tools : (\E clean \in BOOLEAN : Invoke(t, clean)) \/ Step(t) \/ Fail(t) \/ Kill(t)) \/ Done

Spec == Init /\ [][Next]_vars

\* A run goes on, and whoever wants the release tries -clean in the end.
Fairness == \A t \in Tools : WF_vars(Step(t)) /\ SF_vars(Invoke(t, TRUE))
FairSpec == Spec /\ Fairness

-----------------------------------------------------------------------------
(* Properties *)

\* Every variable holds a value of its kind.
TypeOK ==
  /\ exists \in BOOLEAN
  /\ archives \in [Target -> Archive \cup {Null}]
  /\ manifest = Null \/ manifest \subseteq Line
  /\ pc \in [Tools -> PC]
  /\ args \in [Tools -> [commit : Commits, clean : BOOLEAN] \cup {Null}]
  /\ built \in [Tools -> 0..Len(Targets)]
  /\ exit \in [Tools -> {"none", "0", "1", "killed"}]
  /\ runs \in 0..MaxRuns /\ faults \in 0..MaxFaults /\ lost \in BOOLEAN

Lines == IF manifest = Null THEN {} ELSE manifest

\* Wherever a run failed or was killed and whatever was run before: an archive
\* that SHA256SUMS lists, if it is there, is the one that was hashed, whole.
\* A manifest never vouches for an archive of another run.
ListedIsIntact ==
  \A l \in Lines : archives[l.path.target] \in {Null, l.hash} /\ l.hash.whole

\* A run that reports success leaves the archive of every target, whole, from
\* its own commit and built for that target, whatever leftovers it found.
SuccessComplete ==
  \A t \in Tools : exit[t] = "0" =>
    \A x \in Target :
      archives[x] = [commit |-> args[t].commit, platform |-> x, whole |-> TRUE]

\* shasum -a 256 -c: the listed file is found from the working directory and
\* has the listed hash.
ShasumCheck(l, cwd) ==
  /\ (IF l.path.dir = "." THEN cwd ELSE l.path.dir) = "release"
  /\ archives[l.path.target] = l.hash

\* A run that reports success leaves a manifest of which every line verifies in
\* the directory of the release, whatever leftovers it found, and which lists
\* every archive unless closing it lost lines, which writeChecksums does not
\* report.
SuccessVerifies ==
  \A t \in Tools : exit[t] = "0" =>
    /\ manifest # Null
    /\ \A l \in Lines : ShasumCheck(l, "release")
    /\ lost \/ {l.path.target : l \in Lines} = Target

\* "already exists; pass -clean to replace it" (tools/package/main.go): the
\* archives of a successful run stay as they are until -clean removes them.
ReplacedOnlyWithClean == released # Null => archives = released

\* However runs failed or were killed, running the tool with -clean again
\* succeeds in the end.
CleanSucceeds == <>(\E t \in Tools : exit[t] = "0")
=============================================================================
