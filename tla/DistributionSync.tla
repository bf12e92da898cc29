------------------------- MODULE DistributionSync -------------------------
(***************************************************************************)
(* `make sync-manifests`: a shell script derives miransas.json,            *)
(* manifest.json and binboi.json from the repository's own versions, and a *)
(* Node script then generates every packaging file from two of them.  The  *)
(* files are written one after the other, in place, each by a truncation   *)
(* and a write, so that an interrupted run leaves a tree of several        *)
(* releases.  The question is what a later run makes of such a tree.       *)
(*                                                                         *)
(* A release is a number; a file's content is the release each of its      *)
(* inputs had when it was generated.                                       *)
(***************************************************************************)
EXTENDS Naturals, Sequences, SequencesExt

CONSTANTS
    MaxRelease,     \* bound: releases the versions are raised to
    MaxCrashes      \* bound: interrupted runs

ASSUME SyncAssumption == MaxRelease \in Nat \ {0} /\ MaxCrashes \in Nat

VARIABLES
    source,     \* the release the Makefile, go.mod and package.json state
    tree,       \* [path -> the release each input had when it was written]
    torn,       \* the paths cut off by an interrupted write
    modes,      \* the paths that are executable
    make,       \* the run of make
    crashes     \* interrupted runs so far

syncVars == <<source, tree, torn, modes, make, crashes>>

Releases == 1..MaxRelease

---------------------------------------------------------------------------
(* What is written, in the order it is written.                            *)

Identity == "binboi.json"
Blueprint == "miransas.json"
Both == {Identity, Blueprint}

Output(path, from) == [path |-> path, from |-> from, executable |-> FALSE]
Program(path, from) == [path |-> path, from |-> from, executable |-> TRUE]

(* Written by sync-project-manifests.sh, from the versions of the source.  *)
ProjectFiles ==
    << Output(Blueprint, {Blueprint}),
       Output("manifest.json", {Blueprint}),
       Output(Identity, {Identity}) >>

(* Written by sync-distribution-manifests.mjs.                             *)
NpmPackage ==
    << Output("manifest.json", {Blueprint}),
       Output("npm/package.json", Both),
       Output("npm/README.md", Both),
       Output("npm/scripts/metadata.cjs", Both) >>

NpmPrograms ==
    << Program("npm/scripts/verify.cjs", {}),
       Program("npm/scripts/postinstall.cjs", {}),
       Program("npm/bin/binboi.cjs", {Identity}) >>

CargoPackage ==
    << Output("rust/Cargo.toml", Both),
       Output("rust/README.md", {Identity}),
       Output("rust/build.rs", {Identity}) >>

CargoProgram == << Output("rust/src/main.rs", Both) >>

PythonPackage ==
    << Output("python/pyproject.toml", Both),
       Output("python/README.md", {Identity}),
       Output("python/setup.py", Both) >>

PythonProgram ==
    << Output("python/binboi_wrapper/__init__.py", {}),
       Output("python/binboi_wrapper/cli.py", Both) >>

DebianPackage ==
    << Output("debian/DEBIAN/control", {Identity}),
       Program("debian/DEBIAN/postinst", Both) >>

Reference == << Output("docs/antigravity-distribution.md", Both) >>

Generated ==
    NpmPackage \o NpmPrograms \o CargoPackage \o CargoProgram
    \o PythonPackage \o PythonProgram \o DebianPackage \o Reference

Written == ToSet(ProjectFiles) \cup ToSet(Generated)
Paths == {f.path : f \in Written}
From(p) == (CHOOSE f \in Written : f.path = p).from
Executables == {f.path : f \in {g \in Written : g.executable}}

---------------------------------------------------------------------------
Phases == {"idle", "project", "distribution"}
Goals == {"sync-manifests", "sync-distribution-manifests"}
Outcomes == {"none", "running", "synced", "failed", "crashed"}

SyncTypeOK ==
    /\ source \in Releases
    /\ DOMAIN tree = Paths
    /\ \A p \in Paths : tree[p] \in [From(p) -> Releases]
    /\ torn \subseteq Paths
    /\ modes \subseteq Paths
    /\ make \in [goal : Goals, at : Phases, step : 0..Len(Generated) + 1,
                 part : {"truncate", "write", "chmod"},
                 read : [Both -> Releases], outcome : Outcomes]
    /\ crashes \in 0..MaxCrashes

(* A checkout of the first release; it may have lost the executable bits.  *)
SyncInit ==
    /\ source = 1
    /\ tree = [p \in Paths |-> [k \in From(p) |-> 1]]
    /\ torn = {}
    /\ modes \in {{}, Executables}
    /\ make = [goal |-> "sync-manifests", at |-> "idle", step |-> 0,
               part |-> "truncate", read |-> [k \in Both |-> 1],
               outcome |-> "none"]
    /\ crashes = 0

Raise ==
    /\ source < MaxRelease
    /\ source' = source + 1
    /\ UNCHANGED <<tree, torn, modes, make, crashes>>

(* The shell script reads the versions before it writes anything.          *)
SyncManifests ==
    /\ make.at = "idle"
    /\ make' = [goal |-> "sync-manifests", at |-> "project", step |-> 1,
                part |-> "truncate", read |-> [k \in Both |-> source],
                outcome |-> "running"]
    /\ UNCHANGED <<source, tree, torn, modes, crashes>>

SyncDistribution ==
    /\ make.at = "idle"
    /\ make' = [make EXCEPT !.goal = "sync-distribution-manifests",
                            !.at = "distribution", !.step = 0,
                            !.part = "truncate", !.outcome = "running"]
    /\ UNCHANGED <<source, tree, torn, modes, crashes>>

(* A plausible change: an interrupted run is resumed at the file it cut    *)
(* off, and a tree without a file cut off is taken for up to date.         *)
ReadInputsResuming ==
    /\ make.at = "distribution" /\ make.step = 0
    /\ make' = [make EXCEPT
                  !.read = [k \in Both |-> tree[k][k]],
                  !.step = IF \E i \in DOMAIN Generated : Generated[i].path \in torn
                           THEN CHOOSE i \in DOMAIN Generated :
                                    Generated[i].path \in torn
                           ELSE Len(Generated) + 1]
    /\ UNCHANGED <<source, tree, torn, modes, crashes>>

(* readJson throws on a file that was cut off, before anything is written. *)
ReadInputs ==
    /\ make.at = "distribution" /\ make.step = 0
    /\ make' = IF torn \cap Both = {}
               THEN [make EXCEPT !.read = [k \in Both |-> tree[k][k]],
                                 !.step = 1]
               ELSE [make EXCEPT !.at = "idle", !.outcome = "failed"]
    /\ UNCHANGED <<source, tree, torn, modes, crashes>>

Files == IF make.at = "project" THEN ProjectFiles ELSE Generated
Writing == make.at # "idle" /\ make.step \in 1..Len(Files)
(* A plausible change: the files are written in no particular order, here  *)
(* the last one first.                                                     *)
FileFromTheEnd == Files[Len(Files) + 1 - make.step]

File == Files[make.step]

NextFile ==
    [make EXCEPT !.step = make.step + 1, !.part = "truncate"]

(* cat >, cp and fs.writeFileSync open the file with O_TRUNC.              *)
Truncate ==
    /\ Writing /\ make.part = "truncate"
    /\ torn' = torn \cup {File.path}
    /\ make' = [make EXCEPT !.part = "write"]
    /\ UNCHANGED <<source, tree, modes, crashes>>

writeFile ==
    /\ Writing /\ make.part = "write"
    /\ torn' = torn \ {File.path}
    /\ tree' = [tree EXCEPT ![File.path] =
                    [k \in File.from |-> make.read[k]]]
    /\ make' = IF File.executable
               THEN [make EXCEPT !.part = "chmod"] ELSE NextFile
    /\ UNCHANGED <<source, modes, crashes>>

writeExecutableFile ==
    /\ Writing /\ make.part = "chmod"
    /\ modes' = modes \cup {File.path}
    /\ make' = NextFile
    /\ UNCHANGED <<source, tree, torn, crashes>>

ProjectDone ==
    /\ make.at = "project" /\ make.step > Len(ProjectFiles)
    /\ make' = [make EXCEPT !.at = "distribution", !.step = 0]
    /\ UNCHANGED <<source, tree, torn, modes, crashes>>

DistributionDone ==
    /\ make.at = "distribution" /\ make.step > Len(Generated)
    /\ make' = [make EXCEPT !.at = "idle", !.outcome = "synced"]
    /\ UNCHANGED <<source, tree, torn, modes, crashes>>

Interrupt ==
    /\ make.at # "idle" /\ crashes < MaxCrashes
    /\ crashes' = crashes + 1
    /\ make' = [make EXCEPT !.at = "idle", !.outcome = "crashed"]
    /\ UNCHANGED <<source, tree, torn, modes>>

SyncNext ==
    \/ Raise
    \/ SyncManifests \/ SyncDistribution
    \/ ReadInputs \/ Truncate \/ writeFile \/ writeExecutableFile
    \/ ProjectDone \/ DistributionDone
    \/ Interrupt

SyncSpec == SyncInit /\ [][SyncNext]_syncVars

---------------------------------------------------------------------------
(* A run of make that ends without an error leaves every file whole,       *)
(* executable where it has to be, and made from what the run had read, in  *)
(* whatever state earlier runs were cut off (writeFile, writeExecutableFile *)
(* and readJson of sync-distribution-manifests.mjs); and the full target   *)
(* leaves one release everywhere.                                          *)
SyncHeals ==
    make.outcome = "synced" =>
        /\ torn = {}
        /\ Executables \subseteq modes
        /\ \A p \in Paths : \A k \in From(p) : tree[p][k] = make.read[k]
        /\ make.goal = "sync-manifests" =>
               make.read[Identity] = make.read[Blueprint]

(* However often runs are cut off, a generated file is never of an older   *)
(* release than one written after it: the reference page, written last,    *)
(* announces no release that a package in the tree has not reached (the    *)
(* order of the writes in sync-distribution-manifests.mjs).                *)
ReleasesInOrder ==
    LET Whole == {i \in 1..Len(Generated) : Generated[i].path \notin torn} IN
    \A i, j \in Whole :
        i < j => \A k \in Generated[i].from \cap Generated[j].from :
                     tree[Generated[i].path][k] >= tree[Generated[j].path][k]

=============================================================================
