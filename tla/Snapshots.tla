----------------------------- MODULE Snapshots -----------------------------
(***************************************************************************)
(* `fleetreach db sync | bundle | import --bundle` and `scan --db-snapshot` *)
(* (crates/cli/src/snapshot.rs, db_cmd.rs): a data directory is synced and  *)
(* packed with its manifest on one host, carried as a file, and unpacked,   *)
(* checked and installed source by source in the directory of another,      *)
(* where other imports write.  Bundling beside a sync, a damaged copy, and  *)
(* a kill between any two steps are all allowed.                            *)
(*                                                                          *)
(* Abstracted: a source is one top-level name with one data file and its    *)
(* companion (.meta.json), each a version; a hash is the version it is of.  *)
(***************************************************************************)
EXTENDS Integers, FiniteSets

CONSTANTS
    Sources,      \* the top-level names of a data directory
    MaxVersions,  \* bound on what the origin writes
    MaxFaults     \* bound on kills, damaged copies, and local writes at the destination

None == 0     \* no such file
Bad == -1     \* damaged in transport
Written == 1 .. MaxVersions
Local == MaxVersions + 1    \* what an import of a local file writes at the destination
Files == [data: {None, Bad, Local} \cup Written, meta: {None, Local} \cup Written]
NoFiles == [data |-> None, meta |-> None]
Nothing == [s \in Sources |-> NoFiles]
NoManifest == [s \in Sources |-> Bad]

ASSUME SnapshotsAssumption ==
    MaxVersions \in Nat \ {0} /\ MaxFaults \in Nat /\ "manifest" \notin Sources

VARIABLES
    origin,    \* Sources -> the files of the synced directory
    syncing,   \* the source whose data is renamed and whose companion is not yet written
    written,   \* versions the origin wrote
    bundler,   \* `db bundle` under way
    tar,       \* the newest bundle: what it lists and holds
    dest,      \* Sources -> the files of the importing directory
    manifest,  \* manifest.json there: Sources -> the version it lists
    staging,   \* .import-<pid>: what is unpacked there, what an earlier import left included
    import,    \* `db import --bundle` under way
    faults

originVars == <<origin, syncing, written, bundler, tar>>
destVars == <<dest, manifest, staging, import>>
vars == <<origin, syncing, written, bundler, tar, dest, manifest, staging, import, faults>>

Idle == [pc |-> "idle"]
NoTar == [lists |-> NoManifest, holds |-> Nothing, overlapped |-> FALSE]
Listing(files) == [s \in Sources |-> files[s].data]

(***************************************************************************)
(* The origin: install_file, and osvdb's installs in the same order.        *)
(***************************************************************************)
\* The new data is renamed over the old; the companion still tells of the old.
SyncData(s) ==
    /\ syncing = {} /\ written < MaxVersions
    /\ written' = written + 1
    /\ origin' = [origin EXCEPT ![s].data = written']
    /\ syncing' = {s}
    /\ bundler' = IF bundler.pc = "idle" THEN bundler ELSE [bundler EXCEPT !.overlapped = TRUE]
    /\ UNCHANGED <<tar, destVars, faults>>

\* Mutant: the companion is dated by the newest there is, not by what was fetched.
SyncMetaNewest(s) ==
    /\ s \in syncing
    /\ origin' = [origin EXCEPT ![s].meta = MaxVersions]
    /\ syncing' = {}
    /\ UNCHANGED <<written, bundler, tar, destVars, faults>>

SyncMeta(s) ==
    /\ s \in syncing
    /\ origin' = [origin EXCEPT ![s].meta = origin[s].data]
    /\ syncing' = {}
    /\ UNCHANGED <<written, bundler, tar, destVars, faults>>

SyncKilled ==
    /\ syncing # {} /\ faults < MaxFaults
    /\ faults' = faults + 1
    /\ syncing' = {}
    /\ UNCHANGED <<origin, written, bundler, tar, destVars>>

(***************************************************************************)
(* `db bundle` (build, bundle): every data file is hashed, then every file  *)
(* is packed, companions after their data.                                  *)
(***************************************************************************)
BundleStart ==
    /\ bundler.pc = "idle"
    /\ \E s \in Sources : origin[s].data # None
    /\ bundler' = [pc |-> "pack", left |-> Sources, lists |-> Listing(origin), holds |-> Nothing,
                   overlapped |-> syncing # {}]
    /\ UNCHANGED <<origin, syncing, written, tar, destVars, faults>>

BundleData(s) ==
    /\ bundler.pc = "pack" /\ s \in bundler.left
    /\ \A t \in Sources : bundler.holds[t].data # None => t \notin bundler.left
    /\ bundler' = [bundler EXCEPT !.holds[s].data = origin[s].data,
                                  !.left = IF origin[s].data = None THEN @ \ {s} ELSE @]
    /\ UNCHANGED <<origin, syncing, written, tar, destVars, faults>>

BundleMeta(s) ==
    /\ bundler.pc = "pack" /\ s \in bundler.left
    /\ bundler.holds[s].data # None
    /\ bundler' = [bundler EXCEPT !.holds[s].meta = origin[s].meta, !.left = @ \ {s}]
    /\ UNCHANGED <<origin, syncing, written, tar, destVars, faults>>

\* The partial tar is renamed to its name.
BundleDone ==
    /\ bundler.pc = "pack" /\ bundler.left = {}
    /\ tar' = [lists |-> bundler.lists, holds |-> bundler.holds,
               overlapped |-> bundler.overlapped]
    /\ bundler' = Idle
    /\ UNCHANGED <<origin, syncing, written, destVars, faults>>

BundleKilled ==
    /\ bundler.pc # "idle" /\ faults < MaxFaults
    /\ faults' = faults + 1
    /\ bundler' = Idle
    /\ UNCHANGED <<origin, syncing, written, tar, destVars>>

(***************************************************************************)
(* `db import --bundle` (import, unpack, install).                          *)
(***************************************************************************)
\* A copy of the bundle that lost a file on the way, or has one altered; whole otherwise.
Copies ==
    {tar.holds}
    \cup (IF faults < MaxFaults
          THEN {[tar.holds EXCEPT ![s].data = d] : s \in {t \in Sources : tar.lists[t] # None},
                                                   d \in {None, Bad}}
          ELSE {})

\* Mutant: a staging directory that is there already is an error.
ImportStartClean(copy, sameId) ==
    /\ import.pc = "idle" /\ tar # NoTar
    /\ sameId => staging = Nothing
    /\ import' = [pc |-> "unpack", lists |-> tar.lists, copy |-> copy, name |-> "",
                  left |-> {s \in Sources : copy[s] # NoFiles}, quiet |-> TRUE]
    /\ staging' = Nothing
    /\ faults' = faults + IF copy = tar.holds THEN 0 ELSE 1
    /\ UNCHANGED <<originVars, dest, manifest>>

\* The staging directory is named by the process: an earlier import of the same id, as in a
\* container, may have been killed and have left files in it.
ImportStart(copy, sameId) ==
    /\ import.pc = "idle" /\ tar # NoTar
    /\ import' = [pc |-> "unpack", lists |-> tar.lists, copy |-> copy, name |-> "",
                  left |-> {s \in Sources : copy[s] # NoFiles}, quiet |-> TRUE]
    /\ staging' = IF sameId THEN staging ELSE Nothing
    /\ faults' = faults + IF copy = tar.holds THEN 0 ELSE 1
    /\ UNCHANGED <<originVars, dest, manifest>>

Unpack(s) ==
    /\ import.pc = "unpack" /\ s \in import.left
    /\ staging' = [staging EXCEPT ![s] =
         [data |-> IF import.copy[s].data = None THEN @.data ELSE import.copy[s].data,
          meta |-> IF import.copy[s].meta = None THEN @.meta ELSE import.copy[s].meta]]
    /\ import' = [import EXCEPT !.left = @ \ {s}]
    /\ UNCHANGED <<originVars, dest, manifest, faults>>

\* Mutant: only the names of the files are compared.
AgreesInNames(lists, files) ==
    \A s \in Sources : (files[s].data = None) = (lists[s] = None)

\* differences: the data that was unpacked, against the manifest; companions are not compared.
Agrees(lists, files) == \A s \in Sources : files[s].data = lists[s]

\* Mutant: the manifest is not installed with the sources.
AcceptSourcesOnly ==
    /\ import.pc = "unpack" /\ import.left = {}
    /\ Agrees(import.lists, staging)
    /\ import' = [import EXCEPT !.pc = "install",
                                !.left = {s \in Sources : staging[s] # NoFiles}]
    /\ UNCHANGED <<originVars, dest, manifest, staging, faults>>

Accept ==
    /\ import.pc = "unpack" /\ import.left = {}
    /\ Agrees(import.lists, staging)
    /\ import' = [import EXCEPT !.pc = "install",
                                !.left = {s \in Sources : staging[s] # NoFiles} \cup {"manifest"}]
    /\ UNCHANGED <<originVars, dest, manifest, staging, faults>>

Refuse ==
    /\ import.pc = "unpack" /\ import.left = {}
    /\ ~Agrees(import.lists, staging)
    /\ import' = Idle
    /\ staging' = Nothing
    /\ UNCHANGED <<originVars, dest, manifest, faults>>

Disturbed(p) == IF p.pc = "idle" THEN p ELSE [p EXCEPT !.quiet = FALSE]

\* What is there under a staged name is removed, and then the staged one is renamed to it.
Remove(name) ==
    /\ import.pc = "install" /\ name \in import.left
    /\ IF name = "manifest"
       THEN manifest' = NoManifest /\ UNCHANGED dest
       ELSE dest' = [dest EXCEPT ![name] = NoFiles] /\ UNCHANGED manifest
    /\ import' = [import EXCEPT !.pc = "rename", !.name = name, !.left = @ \ {name}]
    /\ UNCHANGED <<originVars, staging, faults>>

Rename ==
    /\ import.pc = "rename"
    /\ IF import.name = "manifest"
       THEN manifest' = import.lists /\ UNCHANGED <<dest, staging>>
       ELSE /\ dest' = [dest EXCEPT ![import.name] = staging[import.name]]
            /\ staging' = [staging EXCEPT ![import.name] = NoFiles]
            /\ UNCHANGED manifest
    /\ import' = [import EXCEPT !.pc = IF import.left = {} THEN "done" ELSE "install"]
    /\ UNCHANGED <<originVars, faults>>

ImportExit ==
    /\ import.pc = "done"
    /\ import' = Idle
    /\ staging' = Nothing
    /\ UNCHANGED <<originVars, dest, manifest, faults>>

\* An import fails in the middle and removes its staging directory, or is killed and does not.
ImportStops(cleans) ==
    /\ import.pc \in {"unpack", "install", "rename"} /\ faults < MaxFaults
    /\ faults' = faults + 1
    /\ import' = Idle
    /\ staging' = IF cleans THEN Nothing ELSE staging
    /\ UNCHANGED <<originVars, dest, manifest>>

(***************************************************************************)
(* Other writers and readers of the destination.                            *)
(***************************************************************************)
\* A local file is imported (import_other, install_file): data, then companion.
LocalWrite(s) ==
    /\ faults < MaxFaults
    /\ faults' = faults + 1
    /\ \E meta \in {dest[s].meta, Local} : dest' = [dest EXCEPT ![s] = [data |-> Local, meta |-> meta]]
    /\ import' = Disturbed(import)
    /\ UNCHANGED <<originVars, manifest, staging>>

\* pin: a scan with --db-snapshot manifest.json runs only on exactly what that lists.
PinAccepts == manifest # NoManifest /\ Agrees(manifest, dest)

Init ==
    /\ origin = Nothing /\ syncing = {} /\ written = 0
    /\ bundler = Idle /\ tar = NoTar
    /\ dest = Nothing /\ manifest = NoManifest /\ staging = Nothing
    /\ import = Idle
    /\ faults = 0

Import ==
    \/ ImportStart(tar.holds, TRUE)
    \/ \E s \in Sources : Unpack(s)
    \/ Accept
    \/ Refuse
    \/ \E name \in Sources \cup {"manifest"} : Remove(name)
    \/ Rename
    \/ ImportExit

Next ==
    \/ \E s \in Sources : SyncData(s) \/ SyncMeta(s)
    \/ SyncKilled
    \/ BundleStart
    \/ \E s \in Sources : BundleData(s) \/ BundleMeta(s)
    \/ BundleDone
    \/ BundleKilled
    \/ Import
    \/ \E copy \in Copies, sameId \in BOOLEAN : ImportStart(copy, sameId)
    \/ \E cleans \in BOOLEAN : ImportStops(cleans)
    \/ \E s \in Sources : LocalWrite(s)

Spec == Init /\ [][Next]_vars

\* Whoever imports repeats it until it worked, and an import under way goes on.
FairSpec == Spec /\ WF_vars(Import)

-----------------------------------------------------------------------------
TypeOK ==
    /\ origin \in [Sources -> Files] /\ dest \in [Sources -> Files]
    /\ staging \in [Sources -> Files] /\ tar.holds \in [Sources -> Files]
    /\ syncing \subseteq Sources

\* snapshot.rs:12 "checked against the manifest before any of it replaces what is there": no
\* damaged file ever reaches the data, whatever was left in the staging directory, and what
\* is installed is what the manifest of its own bundle lists.
DamagedReplacesNothing ==
    /\ \A s \in Sources : dest[s].data # Bad
    /\ import.pc \in {"install", "rename"} =>
         \A s \in import.left \ {"manifest"} : staging[s].data = import.lists[s]

\* run_db_import: an import that ends 0 undisturbed leaves every source of its manifest as
\* listed and the manifest beside it, so that a pinned scan accepts the directory unless it
\* holds a source the bundle does not carry (the left-over sources it warns of).
ImportedWhole ==
    import.pc = "done" /\ import.quiet =>
      /\ manifest = import.lists
      /\ \A s \in Sources : import.lists[s] # None => dest[s].data = import.lists[s]
      /\ PinAccepts \/ \E s \in Sources : import.lists[s] = None /\ dest[s].data # None

\* snapshot.rs classify: a companion travels unchecked, so it may tell of newer data than it
\* comes with, and a later sync would take that data for current.  That happens only to a
\* bundle that was made while a sync ran.
CompanionsNotNewer ==
    ~tar.overlapped => \A s \in Sources : tar.holds[s].meta <= tar.holds[s].data

\* Whatever was cut off before, repeating the import of a bundle that agrees with its own
\* manifest installs it whole, again and again.
ImportSettles ==
    []<>(tar # NoTar /\ Agrees(tar.lists, tar.holds) =>
           \A s \in Sources : tar.lists[s] # None => dest[s].data = tar.lists[s])
=============================================================================
