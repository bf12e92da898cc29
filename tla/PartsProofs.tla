------------------------------ MODULE PartsProofs ------------------------------
(***************************************************************************)
(* Proofs about the packaging manifests, the package launchers and the     *)
(* smaller views, and about the eleven parts side by side.                 *)
(***************************************************************************)
EXTENDS SafePartsMC, AccessProofs, LogStreamProofs, PagesProofs

(***************************************************************************)
(* The packaging manifests, for any number of releases and of interrupted  *)
(* runs: a run that ends well has healed what earlier ones left behind.    *)
(*                                                                         *)
(* Layout is what the lists of files come to: nineteen files with a path   *)
(* each are generated, from the two inputs, which are not among them.      *)
(*                                                                         *)
(* What is inductive is that a file is never ahead of the input it was     *)
(* made from, nor an input ahead of the source; that a generated file is   *)
(* never behind one that is written after it, torn or not; and that the    *)
(* files a run has passed are whole and made from what the run has read.   *)
(***************************************************************************)
Size == 19

\* A file this run has written.
Fresh(f) == f.path \notin torn /\ \A k \in f.from : tree[f.path][k] = make.read[k]

\* Neither order nor bounds depend on which files are torn.
Bounded ==
  /\ \A p \in Paths : \A k \in From(p) : tree[p][k] <= tree[k][k]
  /\ \A k \in Both : tree[k][k] <= source
InOrder ==
  \A i, j \in 1 .. Size : i < j =>
    \A k \in Generated[i].from \cap Generated[j].from :
      tree[Generated[i].path][k] >= tree[Generated[j].path][k]

OneRelease == make.goal = "sync-manifests" => make.read[Identity] = make.read[Blueprint]

ProjectRuns ==
  /\ make.goal = "sync-manifests" /\ OneRelease
  /\ make.step \in 1 .. 4 /\ make.part # "chmod"
  /\ \A k \in Both : tree[k][k] <= make.read[k] /\ make.read[k] <= source
  /\ \A i \in 1 .. 3 : i < make.step => Fresh(ProjectFiles[i])

InputsWait ==
  /\ make.part # "chmod"
  /\ make.goal = "sync-manifests" =>
       torn \cap Both = {} /\ tree[Identity][Identity] = tree[Blueprint][Blueprint]

DistributionRuns ==
  /\ OneRelease
  /\ torn \cap Both = {} /\ \A k \in Both : make.read[k] = tree[k][k]
  /\ \A i \in 1 .. Size : i < make.step =>
       Fresh(Generated[i]) /\ (Generated[i].executable => Generated[i].path \in modes)
  /\ make.part = "chmod" => make.step <= Size /\ Fresh(Generated[make.step])

SyncInv ==
  /\ SyncTypeOK /\ Bounded /\ InOrder
  /\ make.at = "project" => ProjectRuns
  /\ make.at = "distribution" /\ make.step = 0 => InputsWait
  /\ make.at = "distribution" /\ make.step > 0 => DistributionRuns
  /\ make.at # "idle" => make.outcome = "running"
  /\ SyncHeals

LEMMA Three == \A i \in 1 .. 3 : i = 1 \/ i = 2 \/ i = 3
OBVIOUS

LEMMA Nineteen ==
  \A i \in 1 .. Size : \/ i = 1 \/ i = 2 \/ i = 3 \/ i = 4 \/ i = 5 \/ i = 6 \/ i = 7
                       \/ i = 8 \/ i = 9 \/ i = 10 \/ i = 11 \/ i = 12 \/ i = 13
                       \/ i = 14 \/ i = 15 \/ i = 16 \/ i = 17 \/ i = 18 \/ i = 19
BY DEF Size

\* The files of the second script, one by one.
LEMMA GeneratedAre ==
  /\ Len(Generated) = Size /\ DOMAIN Generated = 1 .. Size
  /\ \A i \in 1 .. Size :
       /\ Generated[i].path \notin Both
       /\ \/ Generated[i].from = {} \/ Generated[i].from = Both
          \/ Generated[i].from = {Identity} \/ Generated[i].from = {Blueprint}
  /\ \A i, j \in 1 .. Size : i # j => Generated[i].path # Generated[j].path
<1>1. Len(Generated) = Size /\ DOMAIN Generated = 1 .. Size
  BY DEF Size, Generated, NpmPackage, NpmPrograms, CargoPackage, CargoProgram, PythonPackage,
     PythonProgram, DebianPackage, Reference, Output, Program
<1>2. \A i \in 1 .. Size : Generated[i].path \notin Both
  BY Nineteen DEF Generated, NpmPackage, NpmPrograms, CargoPackage, CargoProgram, PythonPackage,
     PythonProgram, DebianPackage, Reference, Output, Program, Both, Identity, Blueprint
<1>3. \A i \in 1 .. Size : \/ Generated[i].from = {} \/ Generated[i].from = Both
                           \/ Generated[i].from = {Identity} \/ Generated[i].from = {Blueprint}
  <2>1. /\ Generated[1].from = {Blueprint} /\ Generated[2].from = Both
        /\ Generated[3].from = Both /\ Generated[4].from = Both
        /\ Generated[5].from = {} /\ Generated[6].from = {}
        /\ Generated[7].from = {Identity} /\ Generated[8].from = Both
        /\ Generated[9].from = {Identity} /\ Generated[10].from = {Identity}
        /\ Generated[11].from = Both /\ Generated[12].from = Both
        /\ Generated[13].from = {Identity} /\ Generated[14].from = Both
        /\ Generated[15].from = {} /\ Generated[16].from = Both
        /\ Generated[17].from = {Identity} /\ Generated[18].from = Both
        /\ Generated[19].from = Both
    BY DEF Generated, NpmPackage, NpmPrograms, CargoPackage, CargoProgram, PythonPackage,
       PythonProgram, DebianPackage, Reference, Output, Program
  <2> QED BY <2>1, Nineteen
<1>4. \A i, j \in 1 .. Size : i # j => Generated[i].path # Generated[j].path
  BY Nineteen DEF Generated, NpmPackage, NpmPrograms, CargoPackage, CargoProgram, PythonPackage,
     PythonProgram, DebianPackage, Reference, Output, Program
<1> QED BY <1>1, <1>2, <1>3, <1>4

LEMMA ProjectFilesAre ==
  /\ Len(ProjectFiles) = 3 /\ DOMAIN ProjectFiles = 1 .. 3
  /\ ProjectFiles[1].path = Blueprint /\ ProjectFiles[1].from = {Blueprint}
  /\ ProjectFiles[2] = Generated[1]
  /\ ProjectFiles[3].path = Identity /\ ProjectFiles[3].from = {Identity}
  /\ \A i \in 1 .. 3 : ~ProjectFiles[i].executable
  /\ Identity \in Both /\ Blueprint \in Both /\ Identity # Blueprint
  /\ \A k \in Both : k = Identity \/ k = Blueprint
<1>1. ProjectFiles[2] = Generated[1]
  BY DEF ProjectFiles, Generated, NpmPackage, NpmPrograms, CargoPackage, CargoProgram,
     PythonPackage, PythonProgram, DebianPackage, Reference
<1>2. \A i \in 1 .. 3 : ~ProjectFiles[i].executable
  BY Three DEF ProjectFiles, Output
<1> QED BY <1>1, <1>2 DEF ProjectFiles, Output, Both, Identity, Blueprint

\* A path is one file, whichever script writes it.
LEMMA OnePath ==
  /\ \A f \in Written : \/ f = ProjectFiles[1] \/ f = ProjectFiles[3]
                        \/ \E i \in 1 .. Size : f = Generated[i]
  /\ \A i \in 1 .. Size : Generated[i] \in Written
  /\ ProjectFiles[1] \in Written /\ ProjectFiles[3] \in Written
  /\ \A f, g \in Written : f.path = g.path => f = g
<1>1. /\ ToSet(ProjectFiles) = {ProjectFiles[i] : i \in 1 .. 3}
      /\ ToSet(Generated) = {Generated[i] : i \in 1 .. Size}
  BY GeneratedAre, ProjectFilesAre DEF ToSet
<1>2. \A f : f \in Written <=> \/ f = ProjectFiles[1] \/ f = ProjectFiles[3]
                               \/ \E i \in 1 .. Size : f = Generated[i]
  <2>1. 1 \in 1 .. Size
    BY DEF Size
  <2>2. \A f : f \in Written <=> \/ \E i \in 1 .. 3 : f = ProjectFiles[i]
                                 \/ \E i \in 1 .. Size : f = Generated[i]
    BY <1>1 DEF Written
  <2>3. 1 \in 1 .. 3 /\ 3 \in 1 .. 3
    OBVIOUS
  <2> QED BY <2>1, <2>2, <2>3, Three, ProjectFilesAre
<1>3. ASSUME NEW f \in Written, NEW g \in Written, f.path = g.path
      PROVE  f = g
  BY <1>2, <1>3, GeneratedAre, ProjectFilesAre
<1> QED BY <1>2, <1>3

LEMMA Layout ==
  /\ \A f \in Written : f.path \in Paths /\ From(f.path) = f.from /\ f.from \subseteq Both
  /\ \A p \in Paths : \E f \in Written : f.path = p /\ From(p) = f.from
  /\ \A p \in Paths : From(p) \subseteq Both
  /\ \A p \in Paths : p \in Both \/ \E i \in 1 .. Size : p = Generated[i].path
  /\ \A p \in Executables : \E i \in 1 .. Size : p = Generated[i].path /\ Generated[i].executable
  /\ Executables \subseteq Paths
  /\ Both \subseteq Paths /\ \A k \in Both : From(k) = {k}
<1>1. ASSUME NEW f \in Written
      PROVE  f.path \in Paths /\ From(f.path) = f.from /\ f.from \subseteq Both
  <2>1. (CHOOSE g \in Written : g.path = f.path) = f
    BY OnePath
  <2>2. f.from \subseteq Both
    BY OnePath, GeneratedAre, ProjectFilesAre
  <2> QED BY <2>1, <2>2 DEF From, Paths
<1>2. \A p \in Paths : \E f \in Written : f.path = p /\ From(p) = f.from
  BY <1>1 DEF Paths
<1>3. \A p \in Paths : p \in Both \/ \E i \in 1 .. Size : p = Generated[i].path
  BY <1>2, OnePath, ProjectFilesAre
<1>4. \A p \in Executables : \E i \in 1 .. Size : p = Generated[i].path /\ Generated[i].executable
  <2>1. ~ProjectFiles[1].executable /\ ~ProjectFiles[3].executable
    BY ProjectFilesAre
  <2> QED BY <2>1, OnePath DEF Executables
<1>5. Executables \subseteq Paths
  BY DEF Executables, Paths
<1>6. Both \subseteq Paths /\ \A k \in Both : From(k) = {k}
  BY <1>1, OnePath, ProjectFilesAre
<1> QED BY <1>1, <1>2, <1>3, <1>4, <1>5, <1>6

Makes ==
  [goal : Goals, at : Phases, step : 0 .. Size + 1, part : {"truncate", "write", "chmod"},
   read : [Both -> Releases], outcome : Outcomes]

LEMMA Marks ==
  /\ 0 \in 0 .. Size + 1 /\ 1 \in 0 .. Size + 1
  /\ "sync-manifests" \in Goals /\ "sync-distribution-manifests" \in Goals
  /\ "idle" \in Phases /\ "project" \in Phases /\ "distribution" \in Phases
  /\ "running" \in Outcomes /\ "synced" \in Outcomes
  /\ "failed" \in Outcomes /\ "crashed" \in Outcomes
BY DEF Size, Goals, Phases, Outcomes

\* The inductive invariant without what it says of the run.
TreeOK == SyncTypeOK /\ Bounded /\ InOrder

LEMMA SyncTypes ==
  ASSUME SyncTypeOK
  PROVE  /\ make \in Makes /\ source \in Nat /\ DOMAIN tree = Paths
         /\ \A p \in Paths, k \in Both : k \in From(p) => tree[p][k] \in Releases /\ tree[p][k] \in Nat
         /\ \A k \in Both : /\ tree[k][k] \in Releases /\ tree[k][k] \in Nat
                            /\ make.read[k] \in Releases /\ make.read[k] \in Nat
<1>1. make \in Makes /\ source \in Nat /\ DOMAIN tree = Paths
  BY GeneratedAre DEF SyncTypeOK, Makes, Releases
<1>2. \A p \in Paths : tree[p] \in [From(p) -> Releases]
  BY DEF SyncTypeOK
<1>3. \A r \in Releases : r \in Nat
  BY DEF Releases
<1>4. \A k \in Both : k \in Paths /\ k \in From(k)
  BY Layout
<1>5. make.read \in [Both -> Releases]
  BY <1>1 DEF Makes
<1> QED BY <1>1, <1>2, <1>3, <1>4, <1>5

LEMMA TypesFrom ==
  ASSUME make' \in Makes, source' \in Releases, DOMAIN tree' = Paths,
         \A p \in Paths : tree'[p] \in [From(p) -> Releases],
         torn' \subseteq Paths, modes' \subseteq Paths, crashes' \in 0 .. MaxCrashes
  PROVE  SyncTypeOK'
BY GeneratedAre DEF SyncTypeOK, Makes

\* The files themselves stay: so do their bounds and their order.
LEMMA TreeStays ==
  ASSUME SyncInv, tree' = tree, source' \in Releases, source' >= source,
         make' \in Makes, torn' \subseteq Paths, modes' \subseteq Paths, crashes' \in 0 .. MaxCrashes
  PROVE  TreeOK'
<1>1. SyncTypeOK'
  BY TypesFrom DEF SyncInv, SyncTypeOK
<1>2. Bounded'
  <2>1. \A k \in Both : tree[k][k] \in Nat /\ tree[k][k] <= source /\ source \in Nat
    BY SyncTypes DEF SyncInv, Bounded
  <2>2. source' \in Nat
    BY DEF Releases
  <2> QED BY <2>1, <2>2 DEF SyncInv, Bounded
<1>3. InOrder'
  BY DEF SyncInv, InOrder
<1> QED BY <1>1, <1>2, <1>3 DEF TreeOK

LEMMA RaiseKeeps ==
  ASSUME SyncInv, Raise
  PROVE  SyncInv'
<1>1. /\ UNCHANGED <<tree, torn, modes, make, crashes>> /\ source' \in Releases /\ source' >= source
  <2>1. source \in Releases /\ source < MaxRelease /\ source' = source + 1
    BY DEF SyncInv, SyncTypeOK, Raise
  <2> QED BY <2>1, SyncAssumption DEF Raise, Releases
<1>2. make \in Makes /\ source \in Nat /\ source' \in Nat
  BY <1>1, SyncTypes DEF SyncInv, Releases
<1>3. TreeOK'
  BY <1>1, <1>2, TreeStays DEF SyncInv, SyncTypeOK
<1>4. (make.at = "project" => ProjectRuns)'
  <2> SUFFICES ASSUME make.at = "project" PROVE ProjectRuns'
    BY <1>1
  <2>1. ProjectRuns /\ \A k \in Both : make.read[k] \in Nat
    BY SyncTypes DEF SyncInv
  <2>2. \A k \in Both : tree'[k][k] <= make'.read[k] /\ make'.read[k] <= source'
    BY <1>1, <1>2, <2>1 DEF ProjectRuns
  <2>3. \A i \in 1 .. 3 : i < make'.step => Fresh(ProjectFiles[i])'
    BY <1>1, <2>1 DEF ProjectRuns, Fresh
  <2> QED BY <1>1, <2>1, <2>2, <2>3 DEF ProjectRuns, OneRelease
<1>5. (make.at = "distribution" /\ make.step = 0 => InputsWait)'
  BY <1>1 DEF SyncInv, InputsWait
<1>6. (make.at = "distribution" /\ make.step > 0 => DistributionRuns)'
  BY <1>1 DEF SyncInv, DistributionRuns, OneRelease, Fresh
<1>7. SyncHeals'
  BY <1>1 DEF SyncInv, SyncHeals
<1> QED BY <1>1, <1>3, <1>4, <1>5, <1>6, <1>7 DEF SyncInv, TreeOK

LEMMA StartsKeep ==
  ASSUME SyncInv, SyncManifests \/ SyncDistribution
  PROVE  SyncInv'
<1>1. make \in Makes /\ source \in Releases /\ source \in Nat
      /\ torn \subseteq Paths /\ modes \subseteq Paths /\ crashes \in 0 .. MaxCrashes
  BY SyncTypes DEF SyncInv, SyncTypeOK
<1>2. UNCHANGED <<source, tree, torn, modes, crashes>>
  BY DEF SyncManifests, SyncDistribution
<1>3. CASE SyncManifests
  <2>1. make' = [goal |-> "sync-manifests", at |-> "project", step |-> 1, part |-> "truncate",
                 read |-> [k \in Both |-> source], outcome |-> "running"]
    BY <1>3 DEF SyncManifests
  <2>2. make' \in Makes
    BY <1>1, <2>1, Marks DEF Makes
  <2>3. /\ make'.goal = "sync-manifests" /\ make'.at = "project" /\ make'.step = 1
        /\ make'.part = "truncate" /\ make'.outcome = "running"
        /\ \A k \in Both : make'.read[k] = source
    BY <2>1
  <2>4. TreeOK'
    BY <1>1, <1>2, <2>2, TreeStays
  <2>5. ProjectRuns'
    <3>1. OneRelease'
      BY <2>3, ProjectFilesAre DEF OneRelease
    <3>2. \A k \in Both : tree'[k][k] <= make'.read[k] /\ make'.read[k] <= source'
      BY <1>1, <1>2, <2>3 DEF SyncInv, Bounded
    <3> QED BY <2>3, <3>1, <3>2 DEF ProjectRuns
  <2> QED BY <2>3, <2>4, <2>5 DEF SyncInv, TreeOK, SyncHeals
<1>4. CASE SyncDistribution
  <2>1. make' = [make EXCEPT !.goal = "sync-distribution-manifests", !.at = "distribution",
                             !.step = 0, !.part = "truncate", !.outcome = "running"]
    BY <1>4 DEF SyncDistribution
  <2>2. make' \in Makes
    BY <1>1, <2>1, Marks DEF Makes
  <2>3. /\ make'.goal = "sync-distribution-manifests" /\ make'.at = "distribution"
        /\ make'.step = 0 /\ make'.part = "truncate" /\ make'.outcome = "running"
    BY <1>1, <2>1 DEF Makes
  <2>4. TreeOK'
    BY <1>1, <1>2, <2>2, TreeStays
  <2>5. InputsWait'
    BY <2>3 DEF InputsWait
  <2> QED BY <2>3, <2>4, <2>5 DEF SyncInv, TreeOK, SyncHeals
<1> QED BY <1>3, <1>4

LEMMA ReadsKeep ==
  ASSUME SyncInv, ReadInputs
  PROVE  SyncInv'
<1>1. make \in Makes /\ source \in Releases /\ source \in Nat
      /\ torn \subseteq Paths /\ modes \subseteq Paths /\ crashes \in 0 .. MaxCrashes
  BY SyncTypes DEF SyncInv, SyncTypeOK
<1>2. /\ UNCHANGED <<source, tree, torn, modes, crashes>>
      /\ make.at = "distribution" /\ make.step = 0 /\ InputsWait /\ make.outcome = "running"
  BY DEF ReadInputs, SyncInv
<1> DEFINE inputs == [k \in Both |-> tree[k][k]]
<1>3. inputs \in [Both -> Releases] /\ \A k \in Both : inputs[k] = tree[k][k]
  BY SyncTypes DEF SyncInv
<1> HIDE DEF inputs
<1>4. CASE torn \cap Both = {}
  <2>1. make' = [make EXCEPT !.read = inputs, !.step = 1]
    BY <1>4 DEF ReadInputs, inputs
  <2>2. make' \in Makes
    BY <1>1, <1>3, <2>1, Marks DEF Makes
  <2>3. /\ make'.at = "distribution" /\ make'.step = 1 /\ make'.read = inputs
        /\ make'.goal = make.goal /\ make'.part = make.part /\ make'.outcome = "running"
    BY <1>1, <1>2, <2>1 DEF Makes
  <2>4. TreeOK'
    BY <1>1, <1>2, <2>2, TreeStays
  <2>5. DistributionRuns'
    <3>1. OneRelease'
      BY <1>2, <1>3, <2>3, ProjectFilesAre DEF OneRelease, InputsWait
    <3>2. torn' \cap Both = {} /\ \A k \in Both : make'.read[k] = tree'[k][k]
      BY <1>2, <1>3, <1>4, <2>3
    <3>3. \A i \in 1 .. Size : ~(i < make'.step)
      BY <2>3 DEF Size
    <3> QED BY <1>2, <2>3, <3>1, <3>2, <3>3 DEF DistributionRuns, InputsWait
  <2> QED BY <2>3, <2>4, <2>5 DEF SyncInv, TreeOK, SyncHeals
<1>5. CASE torn \cap Both # {}
  <2>1. make' = [make EXCEPT !.at = "idle", !.outcome = "failed"]
    BY <1>5 DEF ReadInputs
  <2>2. make' \in Makes /\ make'.at = "idle" /\ make'.outcome = "failed"
    BY <1>1, <2>1, Marks DEF Makes
  <2>3. TreeOK'
    BY <1>1, <1>2, <2>2, TreeStays
  <2> QED BY <2>2, <2>3 DEF SyncInv, TreeOK, SyncHeals
<1> QED BY <1>4, <1>5

LEMMA InterruptKeeps ==
  ASSUME SyncInv, Interrupt
  PROVE  SyncInv'
<1>1. make \in Makes /\ source \in Releases /\ source \in Nat
      /\ torn \subseteq Paths /\ modes \subseteq Paths /\ crashes \in 0 .. MaxCrashes
  BY SyncTypes DEF SyncInv, SyncTypeOK
<1>2. make' = [make EXCEPT !.at = "idle", !.outcome = "crashed"]
      /\ UNCHANGED <<source, tree, torn, modes>> /\ crashes' \in 0 .. MaxCrashes
  BY <1>1, SyncAssumption DEF Interrupt
<1>3. make' \in Makes /\ make'.at = "idle" /\ make'.outcome = "crashed"
  BY <1>1, <1>2, Marks DEF Makes
<1>4. TreeOK'
  BY <1>1, <1>2, <1>3, TreeStays
<1> QED BY <1>3, <1>4 DEF SyncInv, TreeOK, SyncHeals

\* The two ends of a run's phases: every file of it has been passed.
LEMMA DonesKeep ==
  ASSUME SyncInv, ProjectDone \/ DistributionDone
  PROVE  SyncInv'
<1>1. make \in Makes /\ source \in Releases /\ source \in Nat
      /\ torn \subseteq Paths /\ modes \subseteq Paths /\ crashes \in 0 .. MaxCrashes
  BY SyncTypes DEF SyncInv, SyncTypeOK
<1>2. UNCHANGED <<source, tree, torn, modes, crashes>>
  BY DEF ProjectDone, DistributionDone
<1>3. CASE ProjectDone
  <2>1. make' = [make EXCEPT !.at = "distribution", !.step = 0] /\ make.at = "project"
        /\ ProjectRuns /\ make.outcome = "running" /\ make.step > 3
    BY <1>3, ProjectFilesAre DEF ProjectDone, SyncInv
  <2>2. make' \in Makes
    BY <1>1, <2>1, Marks DEF Makes
  <2>3. /\ make'.at = "distribution" /\ make'.step = 0 /\ make'.goal = make.goal
        /\ make'.part = make.part /\ make'.outcome = "running"
    BY <1>1, <2>1 DEF Makes
  <2>4. TreeOK'
    BY <1>1, <1>2, <2>2, TreeStays
  <2>5. Fresh(ProjectFiles[1]) /\ Fresh(ProjectFiles[3])
    <3>1. 1 < make.step /\ 3 < make.step /\ 1 \in 1 .. 3 /\ 3 \in 1 .. 3
      BY <2>1 DEF ProjectRuns
    <3> QED BY <2>1, <3>1 DEF ProjectRuns
  <2>6. InputsWait'
    BY <1>2, <2>1, <2>3, <2>5, ProjectFilesAre DEF InputsWait, ProjectRuns, OneRelease, Fresh
  <2> QED BY <2>3, <2>4, <2>6 DEF SyncInv, TreeOK, SyncHeals
<1>4. CASE DistributionDone
  <2>1. make' = [make EXCEPT !.at = "idle", !.outcome = "synced"] /\ make.at = "distribution"
        /\ make.step > Size
    BY <1>4, GeneratedAre DEF DistributionDone
  <2>2. make' \in Makes
    BY <1>1, <2>1, Marks DEF Makes
  <2>3. make'.at = "idle" /\ make'.goal = make.goal /\ make'.read = make.read
    BY <1>1, <2>1 DEF Makes
  <2>4. TreeOK'
    BY <1>1, <1>2, <2>2, TreeStays
  <2>5. DistributionRuns
    <3>1. make.step > 0
      BY <1>1, <2>1 DEF Makes, Size
    <3> QED BY <2>1, <3>1 DEF SyncInv
  <2>6. \A i \in 1 .. Size :
          Fresh(Generated[i]) /\ (Generated[i].executable => Generated[i].path \in modes)
    <3>1. make.step \in Nat
      BY <1>1 DEF Makes, Size
    <3>2. \A i \in 1 .. Size : i < make.step
      BY <2>1, <3>1 DEF Size
    <3> QED BY <2>5, <3>2 DEF DistributionRuns
  <2>7. \A p \in Paths : p \notin torn
    BY <2>5, <2>6, Layout DEF DistributionRuns, Fresh
  <2>8. ASSUME NEW p \in Paths, NEW k \in From(p)
        PROVE  tree[p][k] = make.read[k]
    <3>1. CASE p \in Both
      BY <2>5, <2>8, <3>1, Layout DEF DistributionRuns
    <3>2. CASE p \notin Both
      <4>1. PICK i \in 1 .. Size : p = Generated[i].path
        BY <3>2, Layout
      <4>2. k \in Generated[i].from
        BY <2>8, <4>1, OnePath, Layout
      <4> QED BY <2>6, <4>1, <4>2 DEF Fresh
    <3> QED BY <3>1, <3>2
  <2>9. Executables \subseteq modes
    BY <2>6, Layout
  <2>10. SyncHeals'
    BY <1>1, <1>2, <2>3, <2>5, <2>7, <2>8, <2>9 DEF SyncHeals, DistributionRuns, OneRelease
  <2> QED BY <2>3, <2>4, <2>10 DEF SyncInv, TreeOK
<1> QED BY <1>3, <1>4

LEMMA FileIs ==
  ASSUME SyncInv, Writing
  PROVE  /\ \/ /\ make.at = "project" /\ ProjectRuns
               /\ make.step \in 1 .. 3 /\ File = ProjectFiles[make.step]
            \/ /\ make.at = "distribution" /\ DistributionRuns
               /\ make.step \in 1 .. Size /\ File = Generated[make.step]
         /\ File \in Written /\ make.step + 1 \in 1 .. Size + 1
         /\ make \in Makes /\ make.outcome = "running"
<1>1. make \in Makes /\ make.at # "idle" /\ make.step \in 1 .. Len(Files) /\ make.outcome = "running"
  BY SyncTypes DEF Writing, SyncInv
<1>2. CASE make.at = "project"
  <2>1. ProjectRuns /\ make.step \in 1 .. 3 /\ File = ProjectFiles[make.step]
    BY <1>1, <1>2, ProjectFilesAre DEF SyncInv, Files, File
  <2>2. 1 \in 1 .. Size
    BY DEF Size
  <2>3. File \in Written
    BY <2>1, <2>2, Three, OnePath, ProjectFilesAre
  <2>4. make.step + 1 \in 1 .. Size + 1
    BY <2>1 DEF Size
  <2> QED BY <1>1, <1>2, <2>1, <2>3, <2>4
<1>3. CASE make.at = "distribution"
  <2>1. make.step \in 1 .. Size /\ File = Generated[make.step]
    BY <1>1, <1>3, GeneratedAre DEF Files, File
  <2>2. DistributionRuns
    BY <1>3, <2>1 DEF SyncInv, Size
  <2>3. File \in Written
    BY <2>1, OnePath
  <2>4. make.step + 1 \in 1 .. Size + 1
    BY <2>1 DEF Size
  <2> QED BY <1>1, <1>3, <2>1, <2>2, <2>3, <2>4
<1> QED BY <1>1, <1>2, <1>3 DEF Makes, Phases

\* A file ahead of the one at hand has another path.
LEMMA Others ==
  /\ \A i, s \in 1 .. 3 : i < s => ProjectFiles[i].path # ProjectFiles[s].path
  /\ \A i, s \in 1 .. Size : i < s => Generated[i].path # Generated[s].path
<1>1. 1 \in 1 .. Size
  BY DEF Size
<1>2. \A i, s \in 1 .. 3 : i < s => ProjectFiles[i].path # ProjectFiles[s].path
  BY <1>1, Three, ProjectFilesAre, GeneratedAre
<1>3. \A i, s \in 1 .. Size : i < s => Generated[i].path # Generated[s].path
  <2>1. ASSUME NEW i \in 1 .. Size, NEW s \in 1 .. Size, i < s PROVE i # s
    BY <2>1
  <2> QED BY <2>1, GeneratedAre
<1> QED BY <1>2, <1>3

LEMMA TruncateKeeps ==
  ASSUME SyncInv, Truncate
  PROVE  SyncInv'
<1>1. /\ make \in Makes /\ source \in Releases /\ source \in Nat
      /\ torn \subseteq Paths /\ modes \subseteq Paths /\ crashes \in 0 .. MaxCrashes
  BY SyncTypes DEF SyncInv, SyncTypeOK
<1>2. /\ make' = [make EXCEPT !.part = "write"] /\ torn' = torn \cup {File.path}
      /\ UNCHANGED <<source, tree, modes, crashes>> /\ Writing
  BY DEF Truncate
<1>3. File \in Written /\ make.outcome = "running" /\ make.step > 0 /\ make.at # "idle"
  <2>1. File \in Written /\ make.outcome = "running" /\ make.at # "idle"
    BY <1>2, FileIs DEF Writing
  <2>2. make.step \in 1 .. Size \/ make.step \in 1 .. 3
    BY <1>2, FileIs
  <2> QED BY <2>1, <2>2 DEF Size
<1>4. make' \in Makes
  BY <1>1, <1>2 DEF Makes
<1>5. /\ make'.at = make.at /\ make'.step = make.step /\ make'.goal = make.goal
      /\ make'.read = make.read /\ make'.outcome = "running" /\ make'.part = "write"
  BY <1>1, <1>2, <1>3 DEF Makes
<1>6. TreeOK'
  BY <1>1, <1>2, <1>3, <1>4, Layout, TreeStays
<1>7. OneRelease => OneRelease'
  BY <1>5 DEF OneRelease
<1>8. CASE make.at = "project"
  <2>1. ProjectRuns /\ make.step \in 1 .. 3 /\ File = ProjectFiles[make.step]
    BY <1>2, <1>8, FileIs
  <2>2. \A i \in 1 .. 3 : i < make'.step => Fresh(ProjectFiles[i])'
    BY <1>2, <1>5, <2>1, Others DEF ProjectRuns, Fresh
  <2>3. ProjectRuns'
    BY <1>2, <1>5, <1>7, <2>1, <2>2 DEF ProjectRuns
  <2> QED BY <1>5, <1>6, <1>8, <2>3 DEF SyncInv, TreeOK, SyncHeals
<1>9. CASE make.at = "distribution"
  <2>1. DistributionRuns /\ make.step \in 1 .. Size /\ File = Generated[make.step]
    BY <1>2, <1>9, FileIs
  <2>2. \A i \in 1 .. Size : i < make'.step =>
          Fresh(Generated[i])' /\ (Generated[i].executable => Generated[i].path \in modes')
    <3> SUFFICES ASSUME NEW i \in 1 .. Size, i < make.step
                 PROVE  Fresh(Generated[i])' /\ (Generated[i].executable => Generated[i].path \in modes')
      BY <1>5
    <3>1. Generated[i].path # File.path
      BY <2>1, Others
    <3>2. Fresh(Generated[i]) /\ (Generated[i].executable => Generated[i].path \in modes)
      BY <2>1 DEF DistributionRuns
    <3> QED BY <1>2, <1>5, <3>1, <3>2 DEF Fresh
  <2>3. torn' \cap Both = {} /\ \A k \in Both : make'.read[k] = tree'[k][k]
    BY <1>2, <1>5, <2>1, GeneratedAre DEF DistributionRuns
  <2>4. DistributionRuns'
    BY <1>5, <1>7, <2>1, <2>2, <2>3 DEF DistributionRuns
  <2> QED BY <1>3, <1>5, <1>6, <1>9, <2>4 DEF SyncInv, TreeOK, SyncHeals
<1> QED BY <1>3, <1>1, <1>8, <1>9 DEF Makes, Phases

\* What the file at hand becomes.
LEMMA WriteTree ==
  ASSUME SyncInv, writeFile
  PROVE  /\ DOMAIN tree' = Paths /\ \A p \in Paths : tree'[p] \in [From(p) -> Releases]
         /\ \A k \in File.from : tree'[File.path][k] = make.read[k]
         /\ \A p \in Paths : p # File.path => tree'[p] = tree[p]
         /\ File.path \in Paths /\ File.from \subseteq Both /\ From(File.path) = File.from
<1>1. File \in Written
  BY FileIs DEF writeFile
<1>2. File.path \in Paths /\ File.from \subseteq Both /\ From(File.path) = File.from
  BY <1>1, Layout
<1> DEFINE new == [k \in File.from |-> make.read[k]]
<1>3. new \in [File.from -> Releases] /\ \A k \in File.from : new[k] = make.read[k]
  BY <1>2, SyncTypes DEF SyncInv
<1>4. /\ tree' = [tree EXCEPT ![File.path] = new] /\ DOMAIN tree = Paths
      /\ \A p \in Paths : tree[p] \in [From(p) -> Releases]
  BY DEF writeFile, SyncInv, SyncTypeOK
<1> HIDE DEF new
<1>5. DOMAIN tree' = Paths /\ tree'[File.path] = new
      /\ \A p \in Paths : p # File.path => tree'[p] = tree[p]
  BY <1>2, <1>4
<1> QED BY <1>2, <1>3, <1>4, <1>5

\* An input does not fall behind, and what is written is at one with it.
LEMMA InputsLead ==
  ASSUME SyncInv, writeFile
  PROVE  /\ \A k \in Both : tree'[k][k] \in Nat /\ tree[k][k] <= tree'[k][k] /\ tree'[k][k] <= source
         /\ \A k \in File.from : make.read[k] = tree'[k][k]
<1>1. Writing /\ \A k \in Both : tree[k][k] \in Nat /\ make.read[k] \in Nat
  BY SyncTypes DEF SyncInv, writeFile
<1>2. /\ \A k \in File.from : tree'[File.path][k] = make.read[k]
      /\ \A p \in Paths : p # File.path => tree'[p] = tree[p]
      /\ Both \subseteq Paths /\ File.from \subseteq Both
      /\ \A k \in Both : tree[k][k] <= source /\ source \in Nat
  BY WriteTree, Layout, SyncTypes DEF SyncInv, Bounded
<1>3. CASE make.at = "project"
  <2>1. ProjectRuns /\ make.step \in 1 .. 3 /\ File = ProjectFiles[make.step]
    BY <1>1, <1>3, FileIs
  <2>2. \A k \in Both : tree[k][k] <= make.read[k] /\ make.read[k] <= source
    BY <2>1 DEF ProjectRuns
  <2>3. CASE make.step = 1
    <3>1. File.path = Blueprint /\ File.from = {Blueprint}
      BY <2>1, <2>3, ProjectFilesAre
    <3>2. tree'[Blueprint][Blueprint] = make.read[Blueprint] /\ tree'[Identity] = tree[Identity]
      BY <1>2, <3>1, ProjectFilesAre
    <3> QED BY <1>1, <1>2, <2>2, <3>1, <3>2, ProjectFilesAre
  <2>4. CASE make.step = 2
    <3>1. File = Generated[1] /\ 1 \in 1 .. Size /\ Fresh(ProjectFiles[1])
      <4>1. 1 \in 1 .. 3 /\ 1 < make.step
        BY <2>4
      <4> QED BY <2>1, <2>4, <4>1, ProjectFilesAre DEF ProjectRuns, Size
    <3>2. File.path \notin Both /\ File.from = {Blueprint}
      <4>1. Generated[1].from = {Blueprint}
        BY DEF Generated, NpmPackage, NpmPrograms, CargoPackage, CargoProgram, PythonPackage,
           PythonProgram, DebianPackage, Reference, Output, Program
      <4> QED BY <3>1, <4>1, GeneratedAre
    <3>3. tree[Blueprint][Blueprint] = make.read[Blueprint]
      BY <3>1, ProjectFilesAre DEF Fresh
    <3>4. \A k \in Both : tree'[k] = tree[k]
      BY <1>2, <3>2
    <3> QED BY <1>1, <1>2, <3>2, <3>3, <3>4
  <2>5. CASE make.step = 3
    <3>1. File.path = Identity /\ File.from = {Identity}
      BY <2>1, <2>5, ProjectFilesAre
    <3>2. tree'[Identity][Identity] = make.read[Identity] /\ tree'[Blueprint] = tree[Blueprint]
      BY <1>2, <3>1, ProjectFilesAre
    <3> QED BY <1>1, <1>2, <2>2, <3>1, <3>2, ProjectFilesAre
  <2> QED BY <2>1, <2>3, <2>4, <2>5, Three
<1>4. CASE make.at = "distribution"
  <2>1. DistributionRuns /\ make.step \in 1 .. Size /\ File = Generated[make.step]
    BY <1>1, <1>4, FileIs
  <2>2. File.path \notin Both
    BY <2>1, GeneratedAre
  <2>3. \A k \in Both : tree'[k] = tree[k]
    BY <1>2, <2>2
  <2> QED BY <1>1, <1>2, <2>1, <2>3 DEF DistributionRuns
<1> QED BY <1>1, <1>3, <1>4, FileIs

LEMMA WriteBounded ==
  ASSUME SyncInv, writeFile
  PROVE  Bounded'
<1>1. ASSUME NEW p \in Paths, NEW k \in From(p)
      PROVE  tree'[p][k] <= tree'[k][k]
  <2>1. k \in Both /\ tree'[k][k] \in Nat
    BY <1>1, Layout, InputsLead
  <2>2. CASE p = File.path
    BY <1>1, <2>1, <2>2, WriteTree, InputsLead
  <2>3. CASE p # File.path
    <3>1. tree'[p] = tree[p] /\ tree[p][k] <= tree[k][k] /\ tree[p][k] \in Nat /\ tree[k][k] \in Nat
      BY <1>1, <2>1, <2>3, WriteTree, SyncTypes DEF SyncInv, Bounded
    <3> QED BY <2>1, <3>1, InputsLead
  <2> QED BY <2>2, <2>3
<1>2. source' = source
  BY DEF writeFile
<1> QED BY <1>1, <1>2, InputsLead DEF Bounded

LEMMA WriteInOrder ==
  ASSUME SyncInv, writeFile
  PROVE  InOrder'
<1> SUFFICES ASSUME NEW i \in 1 .. Size, NEW j \in 1 .. Size, i < j,
                    NEW k \in Generated[i].from \cap Generated[j].from
             PROVE  tree'[Generated[i].path][k] >= tree'[Generated[j].path][k]
  BY DEF InOrder
<1>1. /\ Generated[i].path \in Paths /\ Generated[j].path \in Paths /\ k \in Both
      /\ From(Generated[i].path) = Generated[i].from /\ From(Generated[j].path) = Generated[j].from
      /\ Generated[i].path # Generated[j].path
  BY OnePath, Layout, Others
<1>2. /\ tree[Generated[i].path][k] >= tree[Generated[j].path][k]
      /\ tree[Generated[j].path][k] <= tree[k][k]
      /\ tree[Generated[i].path][k] \in Nat /\ tree[Generated[j].path][k] \in Nat
      /\ tree[k][k] \in Nat /\ make.read[k] \in Nat
  BY <1>1, SyncTypes DEF SyncInv, InOrder, Bounded
<1>3. CASE File.path = Generated[i].path
  <2>1. k \in File.from /\ tree'[Generated[j].path] = tree[Generated[j].path]
    BY <1>1, <1>3, WriteTree
  <2>2. tree'[Generated[i].path][k] = make.read[k] /\ make.read[k] = tree'[k][k]
        /\ tree[k][k] <= tree'[k][k]
    BY <1>1, <1>3, <2>1, WriteTree, InputsLead
  <2> QED BY <1>2, <2>1, <2>2
<1>4. CASE File.path = Generated[j].path
  <2>1. make.at # "project"
    <3> SUFFICES ASSUME make.at = "project" PROVE FALSE
      OBVIOUS
    <3>1. make.step \in 1 .. 3 /\ File = ProjectFiles[make.step]
      BY FileIs DEF writeFile
    <3>2. Generated[j].path \notin Both
      BY GeneratedAre
    <3>3. 1 \in 1 .. Size /\ j # 1
      BY DEF Size
    <3>4. Generated[1].path # Generated[j].path
      BY <3>3, GeneratedAre
    <3> QED BY <1>4, <3>1, <3>2, <3>4, Three, ProjectFilesAre
  <2>2. DistributionRuns /\ make.step \in 1 .. Size /\ File = Generated[make.step]
    BY <2>1, FileIs DEF writeFile
  <2>3. make.step = j
    BY <1>4, <2>2, GeneratedAre
  <2>4. tree[Generated[i].path][k] = make.read[k]
    BY <2>2, <2>3 DEF DistributionRuns, Fresh
  <2>5. tree'[Generated[i].path] = tree[Generated[i].path]
    BY <1>1, <1>4, WriteTree
  <2>6. tree'[Generated[j].path][k] = make.read[k]
    BY <1>1, <1>4, WriteTree
  <2> QED BY <1>2, <2>4, <2>5, <2>6
<1>5. CASE File.path # Generated[i].path /\ File.path # Generated[j].path
  BY <1>1, <1>2, <1>5, WriteTree
<1> QED BY <1>3, <1>4, <1>5

LEMMA NextFileIs ==
  ASSUME make \in Makes, make.step + 1 \in 1 .. Size + 1
  PROVE  /\ NextFile \in Makes /\ NextFile.step = make.step + 1 /\ NextFile.part = "truncate"
         /\ NextFile.at = make.at /\ NextFile.goal = make.goal /\ NextFile.read = make.read
         /\ NextFile.outcome = make.outcome
<1>1. make.step + 1 \in 0 .. Size + 1
  BY DEF Size
<1>2. NextFile \in Makes
  BY <1>1 DEF NextFile, Makes
<1> QED BY <1>2 DEF NextFile, Makes

LEMMA WriteKeeps ==
  ASSUME SyncInv, writeFile
  PROVE  SyncInv'
<1>1. /\ make \in Makes /\ source \in Releases
      /\ torn \subseteq Paths /\ modes \subseteq Paths /\ crashes \in 0 .. MaxCrashes
  BY SyncTypes DEF SyncInv, SyncTypeOK
<1>2. /\ Writing /\ torn' = torn \ {File.path} /\ UNCHANGED <<source, modes, crashes>>
      /\ make' = IF File.executable THEN [make EXCEPT !.part = "chmod"] ELSE NextFile
  BY DEF writeFile
<1>3. /\ make.outcome = "running" /\ make.step + 1 \in 1 .. Size + 1 /\ make.at # "idle"
  BY <1>2, FileIs DEF Writing
<1>4. /\ make' \in Makes /\ make'.at = make.at /\ make'.goal = make.goal
      /\ make'.read = make.read /\ make'.outcome = "running"
  <2>1. CASE File.executable
    <3>1. make' = [make EXCEPT !.part = "chmod"]
      BY <1>2, <2>1
    <3> QED BY <1>1, <1>3, <3>1 DEF Makes
  <2>2. CASE ~File.executable
    BY <1>1, <1>2, <1>3, <2>2, NextFileIs
  <2> QED BY <2>1, <2>2
<1>5. TreeOK'
  <2>1. SyncTypeOK'
    BY <1>1, <1>2, <1>4, WriteTree, TypesFrom
  <2> QED BY <2>1, WriteBounded, WriteInOrder DEF TreeOK
<1>6. OneRelease => OneRelease'
  BY <1>4 DEF OneRelease
\* Files with another path stay as they were, the file at hand is made now.
<1>7. ASSUME NEW f \in Written, f.path # File.path, Fresh(f)
      PROVE  Fresh(f)'
  <2>1. tree'[f.path] = tree[f.path] /\ f.path \notin torn'
    BY <1>2, <1>7, Layout, WriteTree DEF Fresh
  <2> QED BY <1>4, <1>7, <2>1 DEF Fresh
<1>8. ASSUME NEW f, f = File
      PROVE  Fresh(f)'
  BY <1>2, <1>4, <1>8, WriteTree DEF Fresh
<1>9. CASE make.at = "project"
  <2>1. ProjectRuns /\ make.step \in 1 .. 3 /\ File = ProjectFiles[make.step]
    BY <1>2, <1>9, FileIs
  <2>2. make'.step = make.step + 1 /\ make'.part = "truncate" /\ make'.step \in 1 .. 4
    <3>1. ~File.executable
      BY <2>1, ProjectFilesAre
    <3>2. make' = NextFile /\ make.step + 1 \in 1 .. 4
      BY <1>2, <2>1, <3>1
    <3> QED BY <1>1, <1>3, <3>2, NextFileIs
  <2>3. \A i \in 1 .. 3 : i < make'.step => Fresh(ProjectFiles[i])'
    <3> SUFFICES ASSUME NEW i \in 1 .. 3, i < make.step + 1 PROVE Fresh(ProjectFiles[i])'
      BY <2>2
    <3>1. CASE i = make.step
      BY <1>8, <2>1, <3>1
    <3>2. CASE i < make.step
      <4>1. 1 \in 1 .. Size
        BY DEF Size
      <4>2. ProjectFiles[i] \in Written
        BY <4>1, Three, OnePath, ProjectFilesAre
      <4>3. Fresh(ProjectFiles[i]) /\ ProjectFiles[i].path # File.path
        BY <2>1, <3>2, Others DEF ProjectRuns
      <4> QED BY <1>7, <4>2, <4>3
    <3> QED BY <2>1, <3>1, <3>2
  <2>4. \A k \in Both : tree'[k][k] <= make'.read[k] /\ make'.read[k] <= source'
    <3> SUFFICES ASSUME NEW k \in Both
                 PROVE  tree'[k][k] <= make.read[k] /\ make.read[k] <= source
      BY <1>2, <1>4
    <3>1. tree[k][k] <= make.read[k] /\ make.read[k] <= source /\ make.read[k] \in Nat
      BY <2>1, SyncTypes DEF ProjectRuns, SyncInv
    <3>2. CASE k = File.path
      <4>1. k \in File.from
        BY <3>2, Layout, WriteTree
      <4>2. tree'[k][k] = make.read[k]
        BY <3>2, <4>1, WriteTree
      <4> QED BY <3>1, <4>2
    <3>3. CASE k # File.path
      <4>1. tree'[k] = tree[k]
        BY <3>3, Layout, WriteTree
      <4> QED BY <3>1, <4>1
    <3> QED BY <3>2, <3>3
  <2>5. ProjectRuns'
    BY <1>4, <1>6, <2>1, <2>2, <2>3, <2>4 DEF ProjectRuns
  <2> QED BY <1>4, <1>5, <1>9, <2>5 DEF SyncInv, TreeOK, SyncHeals
<1>10. CASE make.at = "distribution"
  <2>1. DistributionRuns /\ make.step \in 1 .. Size /\ File = Generated[make.step]
    BY <1>2, <1>10, FileIs
  <2>2. \A i \in 1 .. Size : i < make.step =>
          Fresh(Generated[i])' /\ (Generated[i].executable => Generated[i].path \in modes')
    <3> SUFFICES ASSUME NEW i \in 1 .. Size, i < make.step
                 PROVE  Fresh(Generated[i])' /\ (Generated[i].executable => Generated[i].path \in modes')
      OBVIOUS
    <3>1. Generated[i].path # File.path /\ Generated[i] \in Written
      BY <2>1, Others, OnePath
    <3>2. Fresh(Generated[i]) /\ (Generated[i].executable => Generated[i].path \in modes)
      BY <2>1 DEF DistributionRuns
    <3> QED BY <1>2, <1>7, <3>1, <3>2
  <2>3. torn' \cap Both = {} /\ \A k \in Both : make'.read[k] = tree'[k][k]
    <3>1. File.path \notin Both
      BY <2>1, GeneratedAre
    <3> QED BY <1>2, <1>4, <2>1, <3>1, Layout, WriteTree DEF DistributionRuns
  <2>4. \A i \in 1 .. Size : i = make.step => Fresh(Generated[i])'
    BY <1>8, <2>1
  <2>5. CASE File.executable
    <3>1. make' = [make EXCEPT !.part = "chmod"]
      BY <1>2, <2>5
    <3>2. make'.part = "chmod" /\ make'.step = make.step
      BY <1>1, <3>1 DEF Makes
    <3>3. make'.step <= Size /\ make'.step > 0
      BY <2>1, <3>2 DEF Size
    <3>4. Fresh(Generated[make.step])'
      BY <2>1, <2>4, <3>2 DEF Fresh
    <3>5. DistributionRuns'
      BY <1>4, <1>6, <2>1, <2>2, <2>3, <3>2, <3>3, <3>4 DEF DistributionRuns
    <3> QED BY <1>4, <1>5, <1>10, <3>3, <3>5 DEF SyncInv, TreeOK, SyncHeals
  <2>6. CASE ~File.executable
    <3>1. make'.step = make.step + 1 /\ make'.part = "truncate"
      BY <1>1, <1>2, <1>3, <2>6, NextFileIs
    <3>2. \A i \in 1 .. Size : i < make'.step =>
            Fresh(Generated[i])' /\ (Generated[i].executable => Generated[i].path \in modes')
      <4> SUFFICES ASSUME NEW i \in 1 .. Size, i < make.step + 1
                   PROVE  Fresh(Generated[i])' /\ (Generated[i].executable => Generated[i].path \in modes')
        BY <3>1
      <4>1. CASE i = make.step
        BY <2>1, <2>4, <2>6, <4>1
      <4>2. CASE i < make.step
        BY <2>2, <4>2
      <4> QED BY <2>1, <4>1, <4>2
    <3>3. make'.step > 0 /\ make'.step # 0
      BY <2>1, <3>1 DEF Size
    <3>4. DistributionRuns'
      BY <1>4, <1>6, <2>1, <2>3, <3>1, <3>2 DEF DistributionRuns
    <3> QED BY <1>4, <1>5, <1>10, <3>3, <3>4 DEF SyncInv, TreeOK, SyncHeals
  <2> QED BY <2>5, <2>6
<1> QED BY <1>3, <1>1, <1>9, <1>10 DEF Makes, Phases

\* Only files of the second script are programs.
LEMMA ChmodKeeps ==
  ASSUME SyncInv, writeExecutableFile
  PROVE  SyncInv'
<1>1. /\ make \in Makes /\ source \in Releases /\ source \in Nat
      /\ torn \subseteq Paths /\ modes \subseteq Paths /\ crashes \in 0 .. MaxCrashes
  BY SyncTypes DEF SyncInv, SyncTypeOK
<1>2. /\ Writing /\ make.part = "chmod" /\ modes' = modes \cup {File.path} /\ make' = NextFile
      /\ UNCHANGED <<source, tree, torn, crashes>>
  BY DEF writeExecutableFile
<1>3. /\ make.at = "distribution" /\ DistributionRuns /\ make.outcome = "running"
      /\ make.step \in 1 .. Size /\ File = Generated[make.step] /\ File \in Written
      /\ make.step + 1 \in 1 .. Size + 1
  BY <1>2, FileIs DEF ProjectRuns
<1>4. /\ make' \in Makes /\ make'.step = make.step + 1 /\ make'.part = "truncate"
      /\ make'.at = "distribution" /\ make'.goal = make.goal /\ make'.read = make.read
      /\ make'.outcome = "running"
  BY <1>1, <1>2, <1>3, NextFileIs
<1>5. TreeOK'
  BY <1>1, <1>2, <1>3, <1>4, Layout, TreeStays
<1>6. \A i \in 1 .. Size : i < make'.step =>
        Fresh(Generated[i])' /\ (Generated[i].executable => Generated[i].path \in modes')
  <2> SUFFICES ASSUME NEW i \in 1 .. Size, i < make.step + 1
               PROVE  Fresh(Generated[i])' /\ (Generated[i].executable => Generated[i].path \in modes')
    BY <1>4
  <2>1. Fresh(Generated[i]) => Fresh(Generated[i])'
    BY <1>2, <1>4 DEF Fresh
  <2>2. CASE i = make.step
    BY <1>2, <1>3, <2>1, <2>2 DEF DistributionRuns
  <2>3. CASE i < make.step
    BY <1>2, <1>3, <2>1, <2>3 DEF DistributionRuns
  <2> QED BY <1>3, <2>2, <2>3
<1>7. make'.step > 0 /\ make'.step # 0
  BY <1>3, <1>4 DEF Size
<1>8. DistributionRuns'
  BY <1>2, <1>3, <1>4, <1>6 DEF DistributionRuns, OneRelease
<1> QED BY <1>4, <1>5, <1>7, <1>8 DEF SyncInv, TreeOK, SyncHeals

LEMMA SyncStarts ==
  ASSUME SyncInit
  PROVE  SyncInv
<1>1. /\ source = 1 /\ tree = [p \in Paths |-> [k \in From(p) |-> 1]] /\ torn = {}
      /\ modes \in {{}, Executables} /\ crashes = 0
      /\ make = [goal |-> "sync-manifests", at |-> "idle", step |-> 0, part |-> "truncate",
                 read |-> [k \in Both |-> 1], outcome |-> "none"]
  BY DEF SyncInit
<1>2. 1 \in Releases /\ 0 \in 0 .. MaxCrashes /\ 0 \in 0 .. Size + 1 /\ "none" \in Outcomes
  BY SyncAssumption DEF Releases, Size, Outcomes
<1>3. make \in Makes
  BY <1>1, <1>2, Marks DEF Makes
<1>4. DOMAIN tree = Paths /\ \A p \in Paths : tree[p] \in [From(p) -> Releases]
  BY <1>1, <1>2
<1>5. SyncTypeOK
  <2>1. modes \subseteq Paths
    BY <1>1, Layout
  <2> QED BY <1>1, <1>2, <1>3, <1>4, <2>1, GeneratedAre DEF SyncTypeOK, Makes
<1>6. \A p \in Paths : \A k \in From(p) : tree[p][k] = 1
  BY <1>1
<1>7. Bounded
  BY <1>1, <1>6, Layout DEF Bounded
<1>8. InOrder
  <2> SUFFICES ASSUME NEW i \in 1 .. Size, NEW j \in 1 .. Size,
                      NEW k \in Generated[i].from \cap Generated[j].from
               PROVE  tree[Generated[i].path][k] >= tree[Generated[j].path][k]
    BY DEF InOrder
  <2>1. /\ Generated[i].path \in Paths /\ From(Generated[i].path) = Generated[i].from
        /\ Generated[j].path \in Paths /\ From(Generated[j].path) = Generated[j].from
    BY OnePath, Layout
  <2>2. tree[Generated[i].path][k] = 1 /\ tree[Generated[j].path][k] = 1
    BY <1>6, <2>1
  <2> QED BY <2>2
<1> QED BY <1>1, <1>5, <1>7, <1>8 DEF SyncInv, SyncHeals

LEMMA SyncStep ==
  ASSUME SyncInv, [SyncNext]_syncVars
  PROVE  SyncInv'
<1>1. CASE Raise
  BY <1>1, RaiseKeeps
<1>2. CASE SyncManifests \/ SyncDistribution
  BY <1>2, StartsKeep
<1>3. CASE ReadInputs
  BY <1>3, ReadsKeep
<1>4. CASE Truncate
  BY <1>4, TruncateKeeps
<1>5. CASE writeFile
  BY <1>5, WriteKeeps
<1>6. CASE writeExecutableFile
  BY <1>6, ChmodKeeps
<1>7. CASE ProjectDone \/ DistributionDone
  BY <1>7, DonesKeep
<1>8. CASE Interrupt
  BY <1>8, InterruptKeeps
<1>9. CASE UNCHANGED syncVars
  BY <1>9 DEF syncVars, SyncInv, SyncTypeOK, Bounded, InOrder, ProjectRuns, InputsWait,
     DistributionRuns, OneRelease, Fresh, SyncHeals
<1> QED BY <1>1, <1>2, <1>3, <1>4, <1>5, <1>6, <1>7, <1>8, <1>9 DEF SyncNext

LEMMA SyncInvariant == SyncSpec => []SyncInv
BY SyncStarts, SyncStep, PTL DEF SyncSpec

\* The type invariant of the packaging files, for every bound on releases and
\* interrupted runs (SyncTypeOK of DistributionSync).
THEOREM SyncTypeCorrect == SyncSpec => []SyncTypeOK
<1>1. SyncInv => SyncTypeOK
  BY DEF SyncInv
<1> QED BY <1>1, SyncInvariant, PTL

\* A run of make that ends without an error leaves every packaging file whole,
\* executable where it has to be and made from what it read, after any number
\* of runs that were cut off anywhere (SyncHeals of DistributionSync).
THEOREM RunsHeal == SyncSpec => []SyncHeals
<1>1. SyncInv => SyncHeals
  BY DEF SyncInv
<1> QED BY <1>1, SyncInvariant, PTL

\* However often runs are cut off, no packaging file in the tree is of an older
\* release than one written after it (ReleasesInOrder of DistributionSync).
THEOREM ReleasesStayInOrder == SyncSpec => []ReleasesInOrder
<1>1. SyncInv => ReleasesInOrder
  BY GeneratedAre DEF SyncInv, InOrder, ReleasesInOrder
<1> QED BY <1>1, SyncInvariant, PTL

(***************************************************************************)
(* The launchers of the three packages.                                    *)
(***************************************************************************)

LEMMA ResultIs ==
  ASSUME NEW r, NEW l \in B!Launchers, NEW said \in {"version", "configured", "ready", "error", "native", "nothing"},
         NEW child \in {"none", "succeeds", "fails", "killed"}, NEW zero \in BOOLEAN,
         r = [by |-> l, said |-> said, child |-> child, zero |-> zero]
  PROVE  /\ r \in B!Results
         /\ r.by = l /\ r.said = said /\ r.child = child /\ r.zero = zero
BY DEF B!Results

LEMMA LauncherStarts == B!LauncherInit => B!LauncherTypeOK
<1> SUFFICES ASSUME B!LauncherInit PROVE B!LauncherTypeOK
  OBVIOUS
<1>1. 0 \in 0 .. MaxRelease
  BY SyncAssumption
<1>2. installed \in [B!Launchers -> 0 .. MaxRelease] /\ defaults \in 0 .. MaxRelease
  BY <1>1 DEF B!LauncherInit
<1> QED BY <1>2 DEF B!LauncherInit, B!LauncherTypeOK, B!Results

\* How a command ends, and what it leaves of the defaults.
CommandEnds(l) ==
  /\ defaults' \in 0 .. MaxRelease /\ result' \in B!Results
  /\ result'.child = "fails" => ~result'.zero
  /\ result'.said = "configured" => result'.zero /\ defaults' > 0

LEMMA Configuring ==
  ASSUME NEW r \in 1 .. MaxRelease, NEW l \in B!Launchers, defaults \in 0 .. MaxRelease,
         machine \in B!Machines, B!persist_defaults(r), B!Configured(l)
  PROVE  CommandEnds(l)
<1>1. r \in 0 .. MaxRelease /\ r > 0 /\ machine.writable \in BOOLEAN
  BY DEF B!Machines
<1>2. CASE machine.writable
  <2>1. defaults' = r
    BY <1>2 DEF B!persist_defaults
  <2>2. result' = [by |-> l, said |-> "configured", child |-> "none", zero |-> TRUE]
    BY <1>2 DEF B!Configured, B!Ends
  <2>3. /\ result' \in B!Results /\ result'.child = "none" /\ result'.zero = TRUE
    BY <2>2, ResultIs
  <2> QED BY <1>1, <2>1, <2>3 DEF CommandEnds
<1>3. CASE ~machine.writable
  <2>1. defaults' = defaults
    BY <1>3 DEF B!persist_defaults
  <2>2. result' = [by |-> l, said |-> "error", child |-> "none", zero |-> FALSE]
    BY <1>3 DEF B!Configured, B!Ends
  <2>3. /\ result' \in B!Results /\ result'.child = "none" /\ result'.said = "error"
    BY <2>2, ResultIs
  <2> QED BY <2>1, <2>3 DEF CommandEnds
<1> QED BY <1>2, <1>3

\* The ends that are neither a failed child nor a configuration.
LEMMA PlainEnds ==
  ASSUME NEW l \in B!Launchers, NEW said \in {"version", "ready", "error", "nothing"},
         NEW zero \in BOOLEAN, B!Ends(l, said, "none", zero),
         defaults' \in 0 .. MaxRelease
  PROVE  CommandEnds(l)
<1>1. result' = [by |-> l, said |-> said, child |-> "none", zero |-> zero]
  BY DEF B!Ends
<1>2. result' \in B!Results /\ result'.child = "none" /\ result'.said = said
  BY <1>1, ResultIs
<1> QED BY <1>2 DEF CommandEnds

LEMMA NativeEnds ==
  ASSUME NEW l \in B!Launchers, NEW child \in {"succeeds", "fails", "killed"},
         B!nativeRun(l, child), defaults \in 0 .. MaxRelease
  PROVE  CommandEnds(l)
<1> DEFINE zero == B!Handed(l, child)
<1>1. zero \in BOOLEAN /\ (child = "fails" => ~zero)
  BY DEF B!Handed
<1>2. result' = [by |-> l, said |-> "native", child |-> child, zero |-> zero] /\ defaults' = defaults
  BY DEF B!nativeRun, B!Ends
<1> HIDE DEF zero
<1>3. result' \in B!Results /\ result'.child = child /\ result'.said = "native" /\ result'.zero = zero
  BY <1>1, <1>2, ResultIs
<1> QED BY <1>1, <1>2, <1>3 DEF CommandEnds

LEMMA MainEnds ==
  ASSUME B!LauncherTypeOK, NEW l \in B!Launchers, NEW command \in B!Commands, B!main(l, command)
  PROVE  CommandEnds(l)
<1>1. /\ installed[l] \in 1 .. MaxRelease /\ defaults \in 0 .. MaxRelease /\ machine \in B!Machines
  BY DEF B!LauncherTypeOK, B!main
<1>2. CASE command = "version"
  <2>1. B!Ends(l, "version", "none", TRUE) /\ defaults' = defaults
    BY <1>2 DEF B!main, B!version, B!Configures
  <2> QED BY <1>1, <2>1, PlainEnds
<1>3. CASE command # "version" /\ B!Configures(l, command)
  BY <1>1, <1>3, Configuring DEF B!main, B!verifyInstall
<1>4. CASE command # "version" /\ ~B!Configures(l, command)
  <2>1. \/ l = "npm" /\ B!npmMain
        \/ l = "cargo" /\ B!cargoMain
        \/ l = "python" /\ B!pythonMain
    BY <1>4 DEF B!main, B!Launchers
  <2>2. \A r \in 1 .. MaxRelease : B!persist_defaults(r) => defaults' \in 0 .. MaxRelease
    BY <1>1 DEF B!persist_defaults
  <2>3. CASE l = "npm" /\ B!npmMain
    <3>1. CASE machine.native = "binary"
      BY <1>1, <2>3, <3>1, NativeEnds DEF B!npmMain
    <3>2. CASE machine.native = "broken"
      BY <1>1, <2>3, <3>2, PlainEnds DEF B!npmMain
    <3>3. CASE machine.native \notin {"binary", "broken"}
      BY <1>1, <2>3, <3>3, PlainEnds DEF B!npmMain
    <3> QED BY <3>1, <3>2, <3>3
  <2>4. CASE l = "cargo" /\ B!cargoMain
    <3>1. CASE machine.native = "binary"
      BY <1>1, <2>4, <3>1, NativeEnds DEF B!cargoMain
    <3>2. CASE machine.native # "binary"
      BY <1>1, <2>2, <2>4, <3>2, PlainEnds DEF B!cargoMain
    <3> QED BY <3>1, <3>2
  <2>5. CASE l = "python" /\ B!pythonMain
    <3>1. CASE machine.native = "binary"
      BY <1>1, <2>5, <3>1, NativeEnds DEF B!pythonMain
    <3>2. CASE machine.native = "unset"
      <4>1. machine.writable \in BOOLEAN /\ defaults' \in 0 .. MaxRelease
        BY <1>1, <2>2, <2>5, <3>2 DEF B!pythonMain, B!Machines
      <4> QED BY <2>5, <3>2, <4>1, PlainEnds DEF B!pythonMain
    <3>3. CASE machine.native \notin {"binary", "unset"}
      BY <1>1, <2>5, <3>3, PlainEnds DEF B!pythonMain
    <3> QED BY <3>1, <3>2, <3>3
  <2> QED BY <2>1, <2>3, <2>4, <2>5
<1> QED BY <1>2, <1>3, <1>4

LEMMA LauncherStep ==
  ASSUME B!LauncherTypeOK, [B!LauncherNext]_launcherVars
  PROVE  B!LauncherTypeOK'
<1>1. /\ installed \in [B!Launchers -> 0 .. MaxRelease] /\ defaults \in 0 .. MaxRelease
      /\ machine \in B!Machines
  BY DEF B!LauncherTypeOK
<1>2. "npm" \in B!Launchers /\ "cargo" \in B!Launchers /\ "python" \in B!Launchers
  BY DEF B!Launchers
<1>3. \A r \in 1 .. MaxRelease, l \in B!Launchers :
        [installed EXCEPT ![l] = r] \in [B!Launchers -> 0 .. MaxRelease]
  BY <1>1
<1>4. ASSUME NEW r \in 1 .. MaxRelease, B!npmInstall(r) PROVE B!LauncherTypeOK'
  <2>1. CommandEnds("npm")
    BY <1>1, <1>2, <1>4, Configuring DEF B!npmInstall
  <2>2. installed' \in [B!Launchers -> 0 .. MaxRelease] /\ machine' = machine
    BY <1>1, <1>2, <1>3, <1>4 DEF B!npmInstall
  <2> QED BY <1>1, <2>1, <2>2 DEF CommandEnds, B!LauncherTypeOK
<1>5. ASSUME NEW r \in 1 .. MaxRelease, B!VerifiedInstall(r) PROVE B!LauncherTypeOK'
  <2>1. CommandEnds("python")
    BY <1>1, <1>2, <1>5, Configuring DEF B!VerifiedInstall
  <2>2. installed' \in [B!Launchers -> 0 .. MaxRelease] /\ machine' = machine
    BY <1>1, <1>2, <1>3, <1>5 DEF B!VerifiedInstall
  <2> QED BY <1>1, <2>1, <2>2 DEF CommandEnds, B!LauncherTypeOK
<1>6. ASSUME NEW r \in 1 .. MaxRelease, B!cargoInstall(r) \/ B!wheelInstall(r) PROVE B!LauncherTypeOK'
  <2>1. installed' \in [B!Launchers -> 0 .. MaxRelease]
    BY <1>2, <1>3, <1>6 DEF B!cargoInstall, B!wheelInstall
  <2> QED BY <1>6, <2>1 DEF B!cargoInstall, B!wheelInstall, B!LauncherTypeOK
<1>7. ASSUME NEW l \in B!Launchers, NEW command \in B!Commands, B!main(l, command)
      PROVE  B!LauncherTypeOK'
  <2>1. CommandEnds(l)
    BY <1>7, MainEnds
  <2>2. UNCHANGED <<installed, machine>>
    BY <1>7 DEF B!main
  <2> QED BY <1>1, <2>1, <2>2 DEF CommandEnds, B!LauncherTypeOK
<1>8. CASE B!MachineChanges
  BY <1>8 DEF B!MachineChanges, B!LauncherTypeOK
<1>9. CASE UNCHANGED launcherVars
  BY <1>9 DEF launcherVars, B!LauncherTypeOK
<1> QED BY <1>4, <1>5, <1>6, <1>7, <1>8, <1>9 DEF B!LauncherNext

(***************************************************************************)
(* The elements of an answer.                                              *)
(*                                                                         *)
(* What the loop has made is inductive: the elements end above the line it *)
(* is at, as do their keys, and show every line above that has no          *)
(* backticks.                                                              *)
(***************************************************************************)

AnswerInv ==
  /\ A!AnswerTypeOK
  /\ \A n \in DOMAIN elements :
       elements[n].first >= 1 /\ elements[n].last < cursor /\ elements[n].key < cursor
  /\ \A m, n \in DOMAIN elements :
       m < n => elements[m].last < elements[n].first /\ elements[m].key < elements[n].key
  /\ \A i \in DOMAIN text : i < cursor /\ text[i] \notin A!Backticks =>
       \E n \in DOMAIN elements : i \in elements[n].first .. elements[n].last
  /\ \A n \in A!CodeBlocks :
       /\ elements[n].first > 1 /\ text[elements[n].first - 1] = "fence"
       /\ \A i \in elements[n].first .. elements[n].last : text[i] \notin A!Backticks

ElementTags == {"code", "heading", "bullet", "break", "paragraph"}
Elements == [tag : ElementTags, first : Nat, last : Nat, key : Nat]

LEMMA TextIs ==
  ASSUME text \in A!Texts
  PROVE  Len(text) \in Nat /\ DOMAIN text = 1 .. Len(text) /\ Len(text) >= 1
         /\ text \in Seq(A!LineKinds)
<1>1. PICK m \in 0 .. MaxAnswerLines : text \in [1 .. m -> A!LineKinds]
  BY DEF A!Texts, A!BoundedSeq, A!SeqOf
<1>2. text # <<>>
  BY DEF A!Texts
<1>3. text \in Seq(A!LineKinds)
  BY <1>1
<1> QED BY <1>2, <1>3

\* Where a block ends: above its end nothing has backticks.
LEMMA ClosingIs ==
  ASSUME text \in A!Texts, cursor \in 1 .. Len(text)
  PROVE  /\ A!Closing \in cursor + 1 .. Len(text) + 1
         /\ \A i \in cursor + 1 .. A!Closing - 1 : text[i] \notin A!Backticks
         /\ A!Closing <= Len(text) => text[A!Closing] \in A!Backticks
<1> DEFINE later == {j \in cursor + 1 .. Len(text) : text[j] \in A!Backticks}
<1>1. Len(text) \in Nat
  BY TextIs
<1>2. CASE later = {}
  <2>1. A!Closing = Len(text) + 1
    BY <1>2 DEF A!Closing
  <2> QED BY <1>1, <1>2, <2>1
<1>3. CASE later # {}
  <2>1. \E j \in later : \A k \in later : j <= k
    <3>1. later \in SUBSET Nat
      BY <1>1
    <3> HIDE DEF later
    <3> QED BY <1>3, <3>1, LeastNumber
  <2>2. A!Closing = CHOOSE j \in later : \A k \in later : j <= k
    BY <1>3 DEF A!Closing, A!Min
  <2>3. A!Closing \in later /\ \A k \in later : A!Closing <= k
    BY <2>1, <2>2
  <2> QED BY <1>1, <2>3
<1> QED BY <1>2, <1>3

\* One element more, for the lines from the cursor on.
LEMMA ElementAdded ==
  ASSUME AnswerInv, NEW e \in Elements, NEW next \in 1 .. Len(text) + 2,
         cursor <= Len(text), cursor < next, cursor <= e.first, e.first <= cursor + 1,
         cursor <= e.last + 1, e.last < next, cursor <= e.key, e.key < next,
         \A i \in cursor .. next - 1 : i \in DOMAIN text /\ text[i] \notin A!Backticks =>
           i \in e.first .. e.last,
         e.tag = "code" => /\ e.first = cursor + 1 /\ text[cursor] = "fence"
                           /\ \A i \in e.first .. e.last : text[i] \notin A!Backticks,
         elements' = Append(elements, e), cursor' = next, UNCHANGED <<text, marked, timers>>
  PROVE  AnswerInv'
<1>1. /\ text \in A!Texts /\ cursor \in 1 .. Len(text) + 2 /\ elements \in Seq(Elements)
      /\ marked \subseteq timers /\ timers \subseteq A!CodeBlocks
  BY DEF AnswerInv, A!AnswerTypeOK, Elements, ElementTags
<1>2. Len(text) \in Nat /\ cursor \in Nat /\ next \in Nat
  BY <1>1, TextIs
<1> DEFINE last == Len(elements) + 1
<1>3. /\ elements' \in Seq(Elements) /\ DOMAIN elements' = DOMAIN elements \cup {last}
      /\ elements'[last] = e /\ \A n \in DOMAIN elements : elements'[n] = elements[n] /\ n < last
      /\ last \notin DOMAIN elements /\ last \in Nat /\ DOMAIN elements \subseteq Nat
  BY <1>1
<1>4. e.first \in Nat /\ e.last \in Nat /\ e.key \in Nat
  BY DEF Elements
<1>5. \A n \in DOMAIN elements :
        elements[n].first \in Nat /\ elements[n].last \in Nat /\ elements[n].key \in Nat
  <2>1. \A n \in DOMAIN elements : elements[n] \in Elements
    BY <1>1
  <2> QED BY <2>1 DEF Elements
<1> HIDE DEF last
<1>6. \A n \in DOMAIN elements' : n \in DOMAIN elements \/ n = last
  BY <1>3
<1>7. ASSUME NEW n \in DOMAIN elements'
      PROVE  elements'[n].first >= 1 /\ elements'[n].last < next /\ elements'[n].key < next
  <2>1. CASE n = last
    BY <1>1, <1>2, <1>3, <1>4, <2>1
  <2>2. CASE n \in DOMAIN elements
    <3>1. elements[n].first >= 1 /\ elements[n].last < cursor /\ elements[n].key < cursor
      BY <2>2 DEF AnswerInv
    <3> QED BY <1>2, <1>3, <1>5, <2>2, <3>1
  <2> QED BY <1>6, <2>1, <2>2
<1>8. ASSUME NEW m \in DOMAIN elements', NEW n \in DOMAIN elements', m < n
      PROVE  elements'[m].last < elements'[n].first /\ elements'[m].key < elements'[n].key
  <2>1. m \in DOMAIN elements
    BY <1>3, <1>6, <1>8
  <2>2. CASE n = last
    <3>1. elements[m].last < cursor /\ elements[m].key < cursor
      BY <2>1 DEF AnswerInv
    <3>2. elements'[m] = elements[m] /\ elements'[n] = e
      BY <1>3, <2>1, <2>2
    <3>3. elements[m].last \in Nat /\ elements[m].key \in Nat
      BY <1>5, <2>1
    <3>4. \A x, y, z \in Nat : x < y /\ y <= z => x < z
      OBVIOUS
    <3>5. elements[m].last < e.first /\ elements[m].key < e.key
      BY <1>2, <1>4, <3>1, <3>3, <3>4
    <3> QED BY <3>2, <3>5
  <2>3. CASE n \in DOMAIN elements
    BY <1>3, <1>8, <2>1, <2>3 DEF AnswerInv
  <2> QED BY <1>6, <2>2, <2>3
<1>9. ASSUME NEW i \in DOMAIN text, i < next, text[i] \notin A!Backticks
      PROVE  \E n \in DOMAIN elements' : i \in elements'[n].first .. elements'[n].last
  <2>1. i \in Nat
    BY <1>1, TextIs
  <2>2. CASE i < cursor
    <3>1. PICK n \in DOMAIN elements : i \in elements[n].first .. elements[n].last
      BY <1>9, <2>2 DEF AnswerInv
    <3> QED BY <1>3, <3>1
  <2>3. CASE i >= cursor
    <3>1. i \in e.first .. e.last
      BY <1>2, <1>9, <2>1, <2>3
    <3> QED BY <1>3, <3>1
  <2> QED BY <1>2, <2>1, <2>2, <2>3
<1>10. \A n \in A!CodeBlocks' : \/ n \in A!CodeBlocks /\ elements'[n] = elements[n]
                                \/ n = last /\ e.tag = "code"
  BY <1>3, <1>6 DEF A!CodeBlocks
<1>11. ASSUME NEW n \in A!CodeBlocks'
       PROVE  /\ elements'[n].first > 1 /\ text[elements'[n].first - 1] = "fence"
              /\ \A i \in elements'[n].first .. elements'[n].last : text[i] \notin A!Backticks
  <2>1. CASE n \in A!CodeBlocks /\ elements'[n] = elements[n]
    BY <2>1 DEF AnswerInv
  <2>2. CASE n = last /\ e.tag = "code"
    <3>1. e.first - 1 = cursor /\ e.first > 1
      BY <1>1, <1>2, <2>2
    <3> QED BY <1>3, <2>2, <3>1
  <2> QED BY <1>10, <2>1, <2>2
<1>12. A!CodeBlocks \subseteq A!CodeBlocks'
  BY <1>3 DEF A!CodeBlocks
<1>13. A!AnswerTypeOK'
  BY <1>1, <1>3, <1>12 DEF A!AnswerTypeOK, Elements, ElementTags
<1> QED BY <1>7, <1>8, <1>9, <1>11, <1>13 DEF AnswerInv, A!Backticks

LEMMA AnswerStep ==
  ASSUME AnswerInv, [A!AnswerNext]_answerVars
  PROVE  AnswerInv'
<1>1. /\ text \in A!Texts /\ cursor \in 1 .. Len(text) + 2
      /\ Len(text) \in Nat /\ DOMAIN text = 1 .. Len(text) /\ text \in Seq(A!LineKinds)
  BY TextIs DEF AnswerInv, A!AnswerTypeOK
<1>2. CASE A!Block
  <2>1. cursor \in 1 .. Len(text) /\ text[cursor] = "fence"
    BY <1>1, <1>2 DEF A!Block
  <2>2. /\ A!Closing \in cursor + 1 .. Len(text) + 1
        /\ \A i \in cursor + 1 .. A!Closing - 1 : text[i] \notin A!Backticks
        /\ A!Closing <= Len(text) => text[A!Closing] \in A!Backticks
    BY <1>1, <2>1, ClosingIs
  <2> DEFINE close == A!Closing
             e == A!Element("code", cursor + 1, close - 1, close)
  <2>3. elements' = Append(elements, e) /\ cursor' = close + 1 /\ UNCHANGED <<text, marked, timers>>
    BY <1>2 DEF A!Block
  <2>4. close \in cursor + 1 .. Len(text) + 1 /\ cursor \in Nat /\ close \in Nat /\ close - 1 \in Nat
    BY <1>1, <2>2
  <2> HIDE DEF close
  <2>5. e \in Elements /\ e.tag = "code" /\ e.first = cursor + 1 /\ e.last = close - 1 /\ e.key = close
    BY <2>4 DEF A!Element, Elements, ElementTags
  <2>6. "fence" \in A!Backticks
    BY DEF A!Backticks
  <2>7. ASSUME NEW i \in cursor .. close, i \in DOMAIN text, text[i] \notin A!Backticks
        PROVE  i \in e.first .. e.last
    BY <1>1, <2>1, <2>2, <2>4, <2>5, <2>6, <2>7 DEF close
  <2> HIDE DEF e
  <2>8. close + 1 \in 1 .. Len(text) + 2 /\ close + 1 - 1 = close
    BY <1>1, <2>4
  <2>9. \A i \in e.first .. e.last : text[i] \notin A!Backticks
    BY <2>2, <2>5 DEF close
  <2> QED BY <1>1, <2>1, <2>3, <2>4, <2>5, <2>7, <2>8, <2>9, ElementAdded
<1>3. CASE A!Line
  <2>1. cursor \in 1 .. Len(text) /\ text[cursor] # "fence"
    BY <1>1, <1>3 DEF A!Line
  <2> DEFINE tag == A!Tag(text[cursor])
             e == A!Element(tag, cursor, cursor, cursor)
  <2>2. elements' = Append(elements, e) /\ cursor' = cursor + 1 /\ UNCHANGED <<text, marked, timers>>
    BY <1>3 DEF A!Line
  <2>3. tag \in ElementTags /\ tag # "code"
    BY DEF A!Tag, ElementTags
  <2> HIDE DEF tag
  <2>4. e \in Elements /\ e.tag # "code" /\ e.first = cursor /\ e.last = cursor /\ e.key = cursor
    BY <1>1, <2>3 DEF A!Element, Elements
  <2> HIDE DEF e
  <2>5. cursor + 1 \in 1 .. Len(text) + 2 /\ cursor + 1 - 1 = cursor
    BY <1>1, <2>1
  <2> QED BY <1>1, <2>1, <2>2, <2>4, <2>5, ElementAdded
<1>4. CASE \E n \in A!CodeBlocks : A!Copy(n) \/ A!CopiedEnds(n)
  <2>1. PICK n \in A!CodeBlocks : A!Copy(n) \/ A!CopiedEnds(n)
    BY <1>4
  <2>2. UNCHANGED <<text, cursor, elements>>
    BY <2>1 DEF A!Copy, A!CopiedEnds
  <2>3. marked' \subseteq timers' /\ timers' \subseteq A!CodeBlocks
    BY <2>1 DEF A!Copy, A!CopiedEnds, AnswerInv, A!AnswerTypeOK
  <2> QED BY <2>2, <2>3 DEF AnswerInv, A!AnswerTypeOK, A!CodeBlocks
<1>5. CASE UNCHANGED answerVars
  BY <1>5 DEF answerVars, AnswerInv, A!AnswerTypeOK, A!CodeBlocks
<1> QED BY <1>2, <1>3, <1>4, <1>5 DEF A!AnswerNext

LEMMA AnswerStarts == A!AnswerInit => AnswerInv
<1> SUFFICES ASSUME A!AnswerInit PROVE AnswerInv
  OBVIOUS
<1>1. /\ text \in A!Texts /\ cursor = 1 /\ elements = <<>> /\ marked = {} /\ timers = {}
      /\ Len(text) \in Nat /\ DOMAIN text = 1 .. Len(text)
  BY TextIs DEF A!AnswerInit
<1>2. DOMAIN elements = {} /\ A!CodeBlocks = {}
  BY <1>1 DEF A!CodeBlocks
<1>3. A!AnswerTypeOK
  BY <1>1 DEF A!AnswerTypeOK
<1>4. \A i \in DOMAIN text : ~(i < cursor)
  BY <1>1
<1> QED BY <1>2, <1>3, <1>4 DEF AnswerInv

LEMMA AnswerShown == AnswerInv => A!AnswerIsShown
<1> SUFFICES ASSUME AnswerInv PROVE A!AnswerIsShown
  OBVIOUS
<1>1. A!Rendered => \A i \in DOMAIN text : i < cursor
  BY TextIs DEF AnswerInv, A!AnswerTypeOK, A!Rendered
<1> QED BY <1>1 DEF AnswerInv, A!AnswerIsShown

(***************************************************************************)
(* The chart of the overview: its newest point is the figure it was        *)
(* rendered with, so a point that the next change adds is another one.     *)
(***************************************************************************)

ChartInv == C!ChartTypeOK /\ C!PointsAreChanges

\* A point more, the oldest of too many gone.
LEMMA SampledIs ==
  ASSUME NEW points \in Seq(C!Figures), Len(points) <= Window, NEW figure \in C!Figures,
         \A k \in 1 .. Len(points) : k = Len(points) => points[k] # figure,
         \A k \in 1 .. Len(points) - 1 : points[k] # points[k + 1]
  PROVE  LET new == C!Sampled(points, figure)
         IN  /\ new \in Seq(C!Figures) /\ Len(new) <= Window
             /\ new # <<>> /\ new[Len(new)] = figure
             /\ \A k \in 1 .. Len(new) - 1 : new[k] # new[k + 1]
<1> DEFINE longer == Append(points, figure)
           new == C!Sampled(points, figure)
<1>1. Window \in Nat /\ Window >= 1
  BY ViewAssumption
<1>2. /\ longer \in Seq(C!Figures) /\ Len(longer) = Len(points) + 1 /\ Len(points) \in Nat
      /\ longer[Len(longer)] = figure /\ \A k \in 1 .. Len(points) : longer[k] = points[k]
  OBVIOUS
<1>3. \A k \in 1 .. Len(longer) - 1 : longer[k] # longer[k + 1]
  <2> SUFFICES ASSUME NEW k \in 1 .. Len(longer) - 1 PROVE longer[k] # longer[k + 1]
    OBVIOUS
  <2>1. k \in 1 .. Len(points)
    BY <1>2
  <2>2. CASE k = Len(points)
    <3>1. points[k] # figure /\ longer[k + 1] = figure /\ longer[k] = points[k]
      BY <1>2, <2>1, <2>2
    <3> QED BY <3>1
  <2>3. CASE k # Len(points)
    <3>1. k \in 1 .. Len(points) - 1 /\ k + 1 \in 1 .. Len(points)
      BY <1>2, <2>1, <2>3
    <3>2. longer[k] = points[k] /\ longer[k + 1] = points[k + 1] /\ points[k] # points[k + 1]
      BY <1>2, <3>1
    <3> QED BY <3>2
  <2> QED BY <2>2, <2>3
<1>4. CASE Len(longer) <= Window
  <2>1. new = longer
    BY <1>1, <1>2, <1>4 DEF C!Sampled
  <2>2. longer # <<>>
    BY <1>2
  <2> QED BY <1>2, <1>3, <1>4, <2>1, <2>2
<1>5. CASE Len(longer) > Window
  <2>1. new = Tail(longer)
    BY <1>5 DEF C!Sampled
  <2>2. longer # <<>> /\ Len(longer) = Window + 1
    BY <1>1, <1>2, <1>5
  <2> HIDE DEF longer, new
  <2>3. /\ new \in Seq(C!Figures) /\ Len(new) = Window
        /\ \A k \in 1 .. Window : new[k] = longer[k + 1]
    BY <1>1, <1>2, <2>1, <2>2
  <2>4. new # <<>> /\ new[Len(new)] = figure
    BY <1>1, <1>2, <2>2, <2>3
  <2>5. \A k \in 1 .. Len(new) - 1 : new[k] # new[k + 1]
    <3> SUFFICES ASSUME NEW k \in 1 .. Window - 1 PROVE new[k] # new[k + 1]
      BY <2>3
    <3>1. k \in 1 .. Window /\ k + 1 \in 1 .. Window /\ k + 1 \in 1 .. Len(longer) - 1
      BY <1>1, <2>2
    <3> QED BY <1>3, <2>3, <3>1
  <2> QED BY <1>1, <2>3, <2>4, <2>5 DEF new
<1> QED BY <1>1, <1>2, <1>4, <1>5

LEMMA ChartStep ==
  ASSUME ChartInv, [C!ChartNext]_chartVars
  PROVE  ChartInv'
<1>1. /\ chartUsage \in C!Figures /\ chartData \in Seq(C!Figures) /\ Len(chartData) <= Window
      /\ chartMounted \in BOOLEAN
      /\ chartMounted => chartData # <<>> /\ chartData[Len(chartData)] = chartUsage
      /\ \A k \in 1 .. Len(chartData) - 1 : chartData[k] # chartData[k + 1]
  BY DEF ChartInv, C!ChartTypeOK, C!PointsAreChanges
<1>2. /\ Window \in Nat /\ <<>> \in Seq(C!Figures) /\ Len(<<>>) = 0 /\ Len(<<>>) <= Window
      /\ \A k \in 1 .. Len(<<>>) - 1 : FALSE
  BY ViewAssumption
<1>3. CASE C!Mount
  <2>1. PICK figure \in C!Figures : chartUsage' = figure /\ chartData' = C!Sampled(<<>>, figure)
    BY <1>3 DEF C!Mount
  <2> DEFINE none == <<>>
  <2>2. /\ none \in Seq(C!Figures) /\ Len(none) <= Window
        /\ \A k \in 1 .. Len(none) : k = Len(none) => none[k] # figure
        /\ \A k \in 1 .. Len(none) - 1 : none[k] # none[k + 1]
    BY <1>2
  <2>3. chartData' = C!Sampled(none, figure)
    BY <2>1
  <2> HIDE DEF none
  <2>4. /\ chartData' \in Seq(C!Figures) /\ Len(chartData') <= Window
        /\ chartData' # <<>> /\ chartData'[Len(chartData')] = figure
        /\ \A k \in 1 .. Len(chartData') - 1 : chartData'[k] # chartData'[k + 1]
    BY <2>1, <2>2, <2>3, SampledIs
  <2> QED BY <1>3, <2>1, <2>4 DEF C!Mount, ChartInv, C!ChartTypeOK, C!PointsAreChanges
<1>4. CASE C!Rendered
  <2>1. PICK figure \in C!Figures : /\ figure # chartUsage /\ chartUsage' = figure
                                    /\ chartData' = C!Sampled(chartData, figure)
    BY <1>4 DEF C!Rendered
  <2>2. chartMounted /\ chartMounted' = chartMounted
    BY <1>4 DEF C!Rendered
  <2>3. \A k \in 1 .. Len(chartData) : k = Len(chartData) => chartData[k] # figure
    BY <1>1, <2>1, <2>2
  <2>4. /\ chartData' \in Seq(C!Figures) /\ Len(chartData') <= Window
        /\ chartData' # <<>> /\ chartData'[Len(chartData')] = figure
        /\ \A k \in 1 .. Len(chartData') - 1 : chartData'[k] # chartData'[k + 1]
    BY <1>1, <2>1, <2>3, SampledIs
  <2> QED BY <1>1, <2>1, <2>2, <2>4 DEF ChartInv, C!ChartTypeOK, C!PointsAreChanges
<1>5. CASE C!Unmount
  <2>1. chartData' = <<>> /\ chartMounted' = FALSE /\ chartUsage' = chartUsage
    BY <1>5 DEF C!Unmount
  <2> QED BY <1>1, <1>2, <2>1 DEF ChartInv, C!ChartTypeOK, C!PointsAreChanges
<1>6. CASE UNCHANGED chartVars
  BY <1>6 DEF chartVars, ChartInv, C!ChartTypeOK, C!PointsAreChanges
<1> QED BY <1>3, <1>4, <1>5, <1>6 DEF C!ChartNext

LEMMA ChartStarts == C!ChartInit => ChartInv
<1> SUFFICES ASSUME C!ChartInit PROVE ChartInv
  OBVIOUS
<1>1. /\ Window \in Nat /\ <<>> \in Seq(C!Figures) /\ Len(<<>>) = 0 /\ Len(<<>>) <= Window
      /\ \A k \in 1 .. Len(<<>>) - 1 : FALSE
  BY ViewAssumption
<1> QED BY <1>1 DEF C!ChartInit, ChartInv, C!ChartTypeOK, C!PointsAreChanges, C!Figures

(***************************************************************************)
(* The changelog's timeline and its sections.                              *)
(***************************************************************************)

LEMMA EntriesAre ==
  /\ DOMAIN G!CHANGELOG_DATA = 1 .. 4
  /\ \A i \in 1 .. 4 : G!CHANGELOG_DATA[i].year = 2026
  /\ \A filter : G!Filtered(filter) \subseteq 1 .. 4
<1>1. \A i \in 1 .. 4 : i = 1 \/ i = 2 \/ i = 3 \/ i = 4
  OBVIOUS
<1>2. DOMAIN G!CHANGELOG_DATA = 1 .. 4
  BY DEF G!CHANGELOG_DATA
<1>3. \A i \in 1 .. 4 : G!CHANGELOG_DATA[i].year = 2026
  BY <1>1 DEF G!CHANGELOG_DATA
<1> QED BY <1>2, <1>3 DEF G!Filtered

\* Whatever the filter leaves, the year stands above the first entry only.
YearsStand ==
  /\ \A i \in G!filteredData :
       \E j \in G!filteredData : /\ j <= i /\ G!showYear(j)
                                 /\ G!CHANGELOG_DATA[j].year = G!CHANGELOG_DATA[i].year
  /\ \A i, j \in G!filteredData :
       (G!showYear(i) /\ G!showYear(j)
          /\ G!CHANGELOG_DATA[i].year = G!CHANGELOG_DATA[j].year) => i = j

LEMMA YearsAre == YearsStand
<1> DEFINE kept == G!filteredData
<1>1. kept \subseteq 1 .. 4 /\ kept \in SUBSET Nat
  BY EntriesAre DEF G!filteredData
<1>2. \A i \in kept : G!CHANGELOG_DATA[i].year = 2026
  BY <1>1, EntriesAre
<1>3. \A i \in kept : G!showYear(i) <=> ~ \E j \in kept : G!Above(j, i)
  BY <1>2 DEF G!showYear
<1>4. \A i, j \in kept : G!Above(j, i) <=> j < i /\ \A k \in kept : k <= j \/ k >= i
  BY DEF G!Above
<1> HIDE DEF kept
<1>5. ASSUME NEW i \in kept
      PROVE  \E j \in kept : j <= i /\ G!showYear(j)
  <2>1. PICK j \in kept : \A k \in kept : j <= k
    BY <1>1, <1>5, LeastNumber
  <2>2. \A k \in kept : ~(k < j)
    BY <1>1, <2>1
  <2> QED BY <1>3, <1>4, <2>1, <2>2
<1>6. ASSUME NEW i \in kept, NEW j \in kept, i < j
      PROVE  ~G!showYear(j)
  <2> DEFINE up == {k \in 1 .. 4 : k \in kept /\ k < j}
  <2>1. \E k \in up : \A l \in up : l <= k
    <3>1. i \in up /\ \A k \in up : k = 1 \/ k = 2 \/ k = 3 \/ k = 4
      BY <1>1, <1>6
    <3> HIDE DEF up
    <3> QED BY <3>1
  <2>2. PICK k \in up : \A l \in up : l <= k
    BY <2>1
  <2>3. \A l \in kept : l <= k \/ l >= j
    BY <1>1, <2>2
  <2>4. G!Above(k, j) /\ k \in kept
    BY <1>4, <2>2, <2>3
  <2> QED BY <1>3, <2>4
<1>7. \A i, j \in kept : G!showYear(i) /\ G!showYear(j) => i = j
  BY <1>1, <1>6
<1> QED BY <1>2, <1>5, <1>7 DEF kept, YearsStand

LEMMA ChangelogStarts == G!ChangelogInit => G!ChangelogTypeOK
BY YearsAre DEF G!ChangelogInit, G!ChangelogTypeOK, YearsStand

LEMMA ChangelogStep ==
  ASSUME G!ChangelogTypeOK, [G!ChangelogNext]_changelogVars
  PROVE  G!ChangelogTypeOK'
<1>1. activeFilter' \in G!Tags \cup {"all"} /\ isOpen' \subseteq G!Mounted(activeFilter')
  <2>1. CASE G!setActiveFilter
    BY <2>1 DEF G!setActiveFilter, G!ChangelogTypeOK
  <2>2. CASE \E section \in G!Mounted("all") : G!ExpandableSection(section)
    BY <2>2 DEF G!ExpandableSection, G!ChangelogTypeOK
  <2>3. CASE UNCHANGED changelogVars
    BY <2>3 DEF changelogVars, G!ChangelogTypeOK
  <2> QED BY <2>1, <2>2, <2>3 DEF G!ChangelogNext
<1>2. YearsStand'
  BY YearsAre, PTL
<1> QED BY <1>1, <1>2 DEF G!ChangelogTypeOK, YearsStand

(***************************************************************************)
(* The parts side by side: each runs as its own specification says.        *)
(***************************************************************************)

\* Which part runs is decided at the start, and the others' steps are no steps
\* of it.
LEMMA OnePartRuns ==
  /\ Init => part \in Parts
  /\ [Next]_vars => part' = part
  /\ Init => /\ part = "tokens" => TokenInit
             /\ part = "rate" => RateInit
             /\ part = "sync" => SyncInit
             /\ part = "feed" => FeedInit
             /\ part = "profile" => ProfileInit
             /\ part = "lists" => ListInit
             /\ part = "log" => LogInit
             /\ part = "launchers" => B!LauncherInit
             /\ part = "answer" => A!AnswerInit
             /\ part = "chart" => C!ChartInit
             /\ part = "changelog" => G!ChangelogInit
  /\ [Next]_vars => /\ part = "tokens" => [TokenNext]_tokenVars
                    /\ part = "rate" => [RateNext]_rateVars
                    /\ part = "sync" => [SyncNext]_syncVars
                    /\ part = "feed" => [FeedNext]_feedVars
                    /\ part = "profile" => [ProfileNext]_profileVars
                    /\ part = "lists" => [ListNext]_listVars
                    /\ part = "log" => [LogNext]_logVars
                    /\ part = "launchers" => [B!LauncherNext]_launcherVars
                    /\ part = "answer" => [A!AnswerNext]_answerVars
                    /\ part = "chart" => [C!ChartNext]_chartVars
                    /\ part = "changelog" => [G!ChangelogNext]_changelogVars
<1>1. Init => part \in Parts
  BY DEF Init
<1>2. [Next]_vars => part' = part
  BY DEF Next, vars
<1>3. ASSUME Init
      PROVE  /\ part = "tokens" => TokenInit
             /\ part = "rate" => RateInit
             /\ part = "sync" => SyncInit
             /\ part = "feed" => FeedInit
             /\ part = "profile" => ProfileInit
             /\ part = "lists" => ListInit
             /\ part = "log" => LogInit
             /\ part = "launchers" => B!LauncherInit
             /\ part = "answer" => A!AnswerInit
             /\ part = "chart" => C!ChartInit
             /\ part = "changelog" => G!ChangelogInit
  BY <1>3 DEF Init
<1>4. ASSUME [Next]_vars
      PROVE  /\ part = "tokens" => [TokenNext]_tokenVars
             /\ part = "rate" => [RateNext]_rateVars
             /\ part = "sync" => [SyncNext]_syncVars
             /\ part = "feed" => [FeedNext]_feedVars
             /\ part = "profile" => [ProfileNext]_profileVars
             /\ part = "lists" => [ListNext]_listVars
             /\ part = "log" => [LogNext]_logVars
             /\ part = "launchers" => [B!LauncherNext]_launcherVars
             /\ part = "answer" => [A!AnswerNext]_answerVars
             /\ part = "chart" => [C!ChartNext]_chartVars
             /\ part = "changelog" => [G!ChangelogNext]_changelogVars
  BY <1>4 DEF Next, vars, viewVars
<1> QED BY <1>1, <1>2, <1>3, <1>4


\* Only what runs is looked at, and it is well typed.
PartIsWell ==
  /\ part \in Parts
  /\ part = "tokens" => TokenTypeOK
  /\ part = "rate" => RateTypeOK
  /\ part = "sync" => SyncTypeOK
  /\ part = "feed" => FeedTypeOK
  /\ part = "profile" => ProfileTypeOK
  /\ part = "lists" => ListTypeOK /\ ViewsAgree
  /\ part = "log" => LogTypeOK
  /\ part = "launchers" => B!LauncherTypeOK
  /\ part = "answer" => AnswerInv
  /\ part = "chart" => ChartInv
  /\ part = "changelog" => G!ChangelogTypeOK

LEMMA PartsAreWell == Spec => []PartIsWell
<1>1. Spec => [](part \in Parts)
  <2>1. part \in Parts /\ [Next]_vars => (part \in Parts)'
    BY OnePartRuns
  <2> QED BY <2>1, OnePartRuns, PTL DEF Spec
<1>2. Spec => [](part = "tokens" => TokenTypeOK)
  <2>1. part = "tokens" /\ [Next]_vars => (part = "tokens")' /\ [TokenNext]_tokenVars
    BY OnePartRuns
  <2>2. ~(part = "tokens") /\ [Next]_vars => (~(part = "tokens"))'
    BY OnePartRuns
  <2>3. Init /\ part = "tokens" => TokenInit
    BY OnePartRuns
  <2> QED BY <2>1, <2>2, <2>3, TokenTypeCorrect, PTL DEF Spec, TokenSpec
<1>3. Spec => [](part = "rate" => RateTypeOK)
  <2>1. part = "rate" /\ [Next]_vars => (part = "rate")' /\ [RateNext]_rateVars
    BY OnePartRuns
  <2>2. ~(part = "rate") /\ [Next]_vars => (~(part = "rate"))'
    BY OnePartRuns
  <2>3. Init /\ part = "rate" => RateInit
    BY OnePartRuns
  <2> QED BY <2>1, <2>2, <2>3, RateTypeCorrect, PTL DEF Spec, RateSpec
<1>4. Spec => [](part = "sync" => SyncTypeOK)
  <2>1. part = "sync" /\ [Next]_vars => (part = "sync")' /\ [SyncNext]_syncVars
    BY OnePartRuns
  <2>2. ~(part = "sync") /\ [Next]_vars => (~(part = "sync"))'
    BY OnePartRuns
  <2>3. Init /\ part = "sync" => SyncInit
    BY OnePartRuns
  <2> QED BY <2>1, <2>2, <2>3, SyncTypeCorrect, PTL DEF Spec, SyncSpec
<1>5. Spec => [](part = "feed" => FeedTypeOK)
  <2>1. part = "feed" /\ [Next]_vars => (part = "feed")' /\ [FeedNext]_feedVars
    BY OnePartRuns
  <2>2. ~(part = "feed") /\ [Next]_vars => (~(part = "feed"))'
    BY OnePartRuns
  <2>3. Init /\ part = "feed" => FeedInit
    BY OnePartRuns
  <2> QED BY <2>1, <2>2, <2>3, FeedTypeCorrect, PTL DEF Spec, FeedSpec
<1>6. Spec => [](part = "profile" => ProfileTypeOK)
  <2>1. part = "profile" /\ [Next]_vars => (part = "profile")' /\ [ProfileNext]_profileVars
    BY OnePartRuns
  <2>2. ~(part = "profile") /\ [Next]_vars => (~(part = "profile"))'
    BY OnePartRuns
  <2>3. Init /\ part = "profile" => ProfileInit
    BY OnePartRuns
  <2> QED BY <2>1, <2>2, <2>3, ProfileTypeCorrect, PTL DEF Spec, ProfileSpec
<1>7. Spec => [](part = "lists" => (ListTypeOK /\ ViewsAgree))
  <2>1. part = "lists" /\ [Next]_vars => (part = "lists")' /\ [ListNext]_listVars
    BY OnePartRuns
  <2>2. ~(part = "lists") /\ [Next]_vars => (~(part = "lists"))'
    BY OnePartRuns
  <2>3. Init /\ part = "lists" => ListInit
    BY OnePartRuns
  <2> QED BY <2>1, <2>2, <2>3, ListPagesTypeCorrect, PTL DEF Spec, ListSpec
<1>8. Spec => [](part = "log" => LogTypeOK)
  <2>1. part = "log" /\ [Next]_vars => (part = "log")' /\ [LogNext]_logVars
    BY OnePartRuns
  <2>2. ~(part = "log") /\ [Next]_vars => (~(part = "log"))'
    BY OnePartRuns
  <2>3. Init /\ part = "log" => LogInit
    BY OnePartRuns
  <2> QED BY <2>1, <2>2, <2>3, LogTypesHold, PTL DEF Spec, LogSpec
<1>9. Spec => [](part = "launchers" => B!LauncherTypeOK)
  <2>1. Init => (part = "launchers" => B!LauncherTypeOK)
    BY OnePartRuns, LauncherStarts
  <2>2. (part = "launchers" => B!LauncherTypeOK) /\ [Next]_vars => (part = "launchers" => B!LauncherTypeOK)'
    BY OnePartRuns, LauncherStep
  <2> QED BY <2>1, <2>2, PTL DEF Spec
<1>10. Spec => [](part = "answer" => AnswerInv)
  <2>1. Init => (part = "answer" => AnswerInv)
    BY OnePartRuns, AnswerStarts
  <2>2. (part = "answer" => AnswerInv) /\ [Next]_vars => (part = "answer" => AnswerInv)'
    BY OnePartRuns, AnswerStep
  <2> QED BY <2>1, <2>2, PTL DEF Spec
<1>11. Spec => [](part = "chart" => ChartInv)
  <2>1. Init => (part = "chart" => ChartInv)
    BY OnePartRuns, ChartStarts
  <2>2. (part = "chart" => ChartInv) /\ [Next]_vars => (part = "chart" => ChartInv)'
    BY OnePartRuns, ChartStep
  <2> QED BY <2>1, <2>2, PTL DEF Spec
<1>12. Spec => [](part = "changelog" => G!ChangelogTypeOK)
  <2>1. Init => (part = "changelog" => G!ChangelogTypeOK)
    BY OnePartRuns, ChangelogStarts
  <2>2. (part = "changelog" => G!ChangelogTypeOK) /\ [Next]_vars => (part = "changelog" => G!ChangelogTypeOK)'
    BY OnePartRuns, ChangelogStep
  <2> QED BY <2>1, <2>2, PTL DEF Spec
<1> QED BY <1>1, <1>2, <1>3, <1>4, <1>5, <1>6, <1>7, <1>8, <1>9, <1>10, <1>11, <1>12, PTL DEF PartIsWell

\* The type invariant of every part that can run, for any number of tokens,
\* subjects, releases, records, lines and the like (PartsTypeOK of
\* SafePartsMC).
THEOREM PartsTypeCorrect == Spec => []PartsTypeOK
<1>1. PartIsWell => PartsTypeOK
  BY AnswerShown DEF PartIsWell, PartsTypeOK, Parts, AnswerInv, ChartInv
<1> QED BY <1>1, PartsAreWell, PTL

\* Every answer is shown whole, in its order and with its blocks of code where
\* its fences are, whatever its lines are (AnswerIsShown of AnswerText).
THEOREM AnswersStandWhole == Spec => [](part = "answer" => A!AnswerIsShown)
<1>1. PartIsWell => (part = "answer" => A!AnswerIsShown)
  BY AnswerShown DEF PartIsWell
<1> QED BY <1>1, PartsAreWell, PTL

==============================================================================
