# fleetreach in TLA+

fleetreach scans a fleet of repositories for vulnerable dependencies, gates CI on the result,
keeps a history of it, opens issues and pull requests about it, and turns a remediation plan
into verified branches. It is one command-line program: each run is a process of its own, and
what outlives a run is files (advisory data, caches, checkouts, the history directory, git
branches) and what forges hold. The specifications here model the parts where the order of
steps, failures and other actors decide whether the program is right, and the algorithms that
decide what it calls vulnerable, reachable and fixed.

- [Inventory](#inventory)
- [Modules](#modules)
- Processes: [FleetScan](#fleetscan), [History](#history), [FixApply](#fixapply),
  [AdvisoryData](#advisorydata), [Notify](#notify), [Snapshots](#snapshots),
  [FleetSources](#fleetsources)
- [Decisions](#decisions): Reachability, OsvRanges and FixPlan, AdvisoryRecords, ImageLayers,
  Versions
- [Runs and bounds](#runs-and-bounds)
- [Fairness](#fairness)
- [Proofs](#proofs)
- [Disagreements between code and documentation](#disagreements-between-code-and-documentation)
- [What is not modelled](#what-is-not-modelled)
- [Plan](#plan)

`tlc -config <configuration>.cfg <module>.tla` checks a run, `tlapm <module>_proofs.tla` the
proofs of a module.

## Inventory

Sources are under `src/crates/`; `cli/src/` unless another crate is named.

| component | state it keeps | operations | how it interacts | hard behaviour | what makes it correct |
|---|---|---|---|---|---|
| scan pipeline (`scan.rs`, `assemble.rs`, `triage.rs`, `enrich.rs`, `ssvc.rs`, `correlate`) | one report, as it is narrowed and annotated | load, scan, correlate, suppress, filter, enrich, reach, baseline, SSVC, gate, record | calls everything below; writes a history record last | every phase may fail; filters, suppressions and seven gates interact | never a pass over what was not read; exit 0 hides nothing that was not asked for |
| orchestration (`orchestrate.rs`) | results of units, merged per repository | plan, scan a unit, merge, reuse a cached result | units run on all cores; reads the advisory data and the result cache | one unit of several fails; data changes while it is read | a half-read repository is errored or has a gap |
| history (`history.rs`) | snapshots, `index.json`, `inventory.jsonl` | record, load (fold or rebuild), prune, `changes` | git carries the directory between machines; `notify`, reports and signals read it | crashes, recorders at once, late snapshots, a damaged index, retention | first sightings kept, "fixed" only when gone, news neither missed nor repeated |
| fix apply (`fix.rs`) | local, remote and tracking branches, requests | take an edit, judge, build and verify, push, open or update, close obsolete | git, `gh` and `glab`; people use the same branches and requests | two looks at one branch, kills between steps, lost answers, limits per run | only verified commits move a branch; other people's work is left alone |
| fix plan (`core/remediation.rs`, `fix.rs`, `fix_targets.rs`, `fix_constraints.rs`, `fix_managers.rs`) | none | from a report to edits, and a check of their targets | reads ranges; feeds fix apply | advisories that conflict, several lines in one fleet, targets with advisories of their own | each finding in an edit whose target clears it, adds none and breaks nothing unasked |
| OSV matching (`core/osv.rs`) | the records of an export under an overlay | load, match, safe intervals, collapse aliases | every ecosystem's scan and the fix plan | several ranges, re-introductions, chains of aliases, retractions | a version is safe only outside every range; a vulnerability counts once |
| OSV exports (`osvdb.rs`, `osvdelta.rs`) | `all.zip`, its metadata, an index of records | download, update record by record | read by scans and by the result cache | crash between data and metadata, listings that lag | metadata describes the data beside it |
| result cache (`scancache.rs`) | one entry per repository | get, put | keyed on files and advisory data | data that changes between key and use | a reused result is what a scan would give |
| data directory (`snapshot.rs`, `db_cmd.rs`) | one directory per source, a manifest | sync, bundle, import, pin | carried between hosts; syncs and scans use it meanwhile | a kill between two sources, a damaged copy, leftovers of a killed import | complete or refused |
| notifications (`notify.rs`) | issues on a tracker | create, update, reopen, close | reads history, writes issues that people write too | failed and unanswered calls, a listing that ends | one issue per owner, in line with the open findings |
| sources and inventory (`sources.rs`, `forges.rs`, `inventory.rs`) | listing cache, checkouts | list, tell the change, clone, fetch, reset | gives the scan its fleet | git cut off anywhere, renames, another default branch | a repository is read whole at one commit or is a gap |
| triage (`triage.rs`) | decision files | decide, import, expire | suppressions of a scan | expiry, precedence | an expired decision is a failure |
| health, licences, registries (`health.rs`, `licensefetch.rs`, `registry.rs`, ...) | caches of network answers | look up | warnings and gaps of a scan | no answer, stale answer | no answer is a gap |
| reachability (`reach`, `reach-driver`, `reach.rs`, `static_reach.rs`, `import_reach.rs`, `go`) | fragments of a call graph | compile, merge, search, judge | a verdict per finding | dispatch, function pointers, foreign code, generics, crates not compiled | "not reachable" only when it cannot run |
| images and VEX (`os/image.rs`, `images.rs`, `oci_vex.rs`, `overlay.rs`, `vex.rs`) | the merged view of layers | unpack, attach | units and suppressions of a scan | whiteouts, opaque directories, replaced binaries | the view is the overlay of the layers |
| readers and versions (`npm`, `pypi`, `maven`, `packagist`, `rubygems`, `nuget`, `julia`, `os`, ...) | none | parse, compare | called by units; ranges are read by the order of versions | malformed input, padding, words with ranks | an order of versions; unparsable is a gap |
| scope and configuration (`config.rs`, `scope.rs`) | none | read `fleet.toml` | gives the scan its flags and scope | - | - |
| reports and sinks (`report`, `sinks`) | none | format | - | - | - |

## Modules

| module | what it is |
|---|---|
| `FleetScan`, `FleetScan_proofs`, `MCFleetScan` | one scan, from the flags to the exit code and the history record |
| `HistoryLedger` | the abstract promise of a history directory: a ledger over the set of runs |
| `History`, `History_proofs`, `MCHistory` | the directory: snapshots, index, temporary file, recorders, crashes, merges |
| `FixApply`, `FixApply_proofs`, `MCFixApply` | `fix apply` runs against a remote that other people use |
| `AdvisoryData`, `AdvisoryData_proofs`, `MCAdvisoryData` | an OSV export, its metadata, and the result cache keyed on them |
| `Notify`, `Notify_proofs`, `MCNotify` | `notify` runs against a tracker that people use, and the index they read |
| `Snapshots`, `Snapshots_proofs`, `MCSnapshots` | a data directory synced, bundled, carried and imported |
| `FleetSources`, `FleetSources_proofs`, `MCFleetSources` | listing and checking out a forge's repositories |
| `Reachability` | the static call-graph analysis of Rust programs |
| `OsvRanges` | ranges of an advisory and the versions that are safe |
| `FixPlan` | from the findings on a package to edits, over `OsvRanges` |
| `AdvisoryRecords` | overlay, retraction and aliases of records |
| `ImageLayers` | the view of an image |
| `Versions` | the version orders of eight ecosystems |
| `Decisions_proofs` | proofs about the algorithms above |
| `Cases`, `MCDecisions` | the inputs that TLC tries on them |

How they compose:

- `History` composes with `FleetScan` through the record: what `FleetScan` proves of a record
  (`RecordIsWhole`) is what `History` assumes of the runs that are recorded (`Runs`). `Notify`
  has the part of the index that `notify` reads (`Folded` is `fold` for status and owner).
- `History` instantiates `HistoryLedger` with every run ever recorded as the ledger's runs and
  what a reader is told as its ledger, and checks `Ledger!Spec` as a property: a refinement.
- `FleetScan` takes from `FleetSources` which repositories could not be checked out, and from
  `AdvisoryData` that a repository's result may be a reused one.
- `FixPlan` EXTENDS `OsvRanges`; its edits are the plans of `FixApply`. `MCDecisions` EXTENDS
  the algorithms and gives `Cases`' one variable, the input, every value a run tries.

## FleetScan

State follows the local variables of `scan_and_report`: `phase` is the call about to be made,
`exit` the code so far, `unit` and `status` the results of `scan_unit` and `merge_units`,
`occ`, `warn` and `sev` the report as it is narrowed, and the sets of findings a feed or an
analysis speaks of. One action is one phase, with all its early returns; the scan itself is one
action per unit and per repository, in any order, as rayon schedules them.

What is abstracted: a finding is its advisory (one severity per finding), an occurrence is a
repository with a scope and whether the package is built. `HitSets` chooses what a unit finds;
`Enrich`, `AssessReachability`, `ApplyBaseline` and `DecideSsvc` choose what the data they read
says. Aliases enter through `Malware`. `--health` stands for the other flags that ask
registries (`--signals`, `--release-age`). A warning has an occurrence in a repository; findings
on the toolchain are not distinguished from runtime ones.

Properties: `PassMeansRead` is the fail-closed rule of ARCHITECTURE.md, `CleanMeansExcused` and
`WarningsExcused` say that exit 0 hides only what a live decision, a filter or a gate level
covers - stated over the raw hits, so that every step in between must be right -,
`ExpiredDecisionFails`, `SsvcGateKnows` and `KevGateHolds` one gate each, and `RecordIsWhole`
what history relies on. Recording can fail before the snapshot is written or after it, when the
directory cannot be read or the index not written: the run then ends 2 and a snapshot with its
own verdict, 0 or 1, is on disk. `RecordIsWhole` therefore does not say that the two are the
same: a record says 0 or 1 only of a fleet that was all read, and no run passes without one.

## History

`disk` is the set of snapshot files, `index` and `tmp` name the files behind `index.json` and
`index.tmp`, and `file` holds contents: a name can be moved while another recorder writes the
file behind it, which is what two recorders sharing one temporary name do. `Record` is the
snapshot's own write and rename (its name is its own); `ListSnapshots`, `LoadIndex`, `OpenTmp`,
`FillTmp`, `RenameTmp` and `Prune` are the calls of `record` in order, each followed by a
possible `Crash`. `Load`, `Fold` and `Rebuild` are the functions of those names.

The ghost `log` has every run ever recorded with what its scan truly found. `View` is what any
reader (`load`) gets now; it loads without writing, so every state is checked as a reader sees
it. `ImplementsLedger` is the refinement: the view is `HistoryLedger`'s ledger over `log`,
although snapshots are pruned, recorders are killed and the index is behind.

A directory has a setting (`dir`, one of `Settings`): the processes that use it, its retention,
and whether git shares it. `NewIsReported` is stated for directories without retention: with it,
a finding that was fixed, whose snapshots were pruned, and that comes back is no news to
`changes`, because its first sighting is old (`history.rs:990`). `OldIsNotNew` is the other
direction, for any directory in which no file is left that is older than one that was pruned
(`Suffix`): see the disagreements below for what happens otherwise. An ignored finding outside
Cargo is recorded under a wrong key (see the disagreements below); the instances are of Cargo.

## FixApply

`run` is the process: `pc` is the next call that can fail or be raced, `left` the edits to come,
`results` the outcomes. `ReadBase`, `LookUp` and `FetchBranch` are the three network calls of
`base_and_remote`; `Judge` and `Build` are `apply_one`; `Push` and `OpenRequest` are `publish`;
`ListObsolete`, `ReadHead`, `CloseRequest` and `DeleteBranch` are `close_obsolete`. Any call may
fail; calls to the remote may also do their work and lose the answer. Between any two steps the
process may be killed (`Crash`) and other people may push, delete, close, merge or move the
default branch.

A commit is the facts the code reads off it: whether its message says that fleetreach verified
it, and the base it is on. HEAD of the user's checkout is commit 0 and does not move. Whether a
re-scan verifies an edit is chosen freely. The list of requests is the first page of the forge's
(200 requests of `gh`, 100 of `glab`): `RequestBuried` says that enough newer ones put those of a
branch past it, and a run that reads the list afterwards takes the branch for one without a
request. `made` is what the forge opened for the run, whether or not the answer came back, next
to what the run counts. Other people do not reuse fleetreach's commit message, and a commit they push is a new one: nobody
puts back a branch that was deleted (see the notes below).

## AdvisoryData

osv.dev is `story`, the records over time, and `shown`, the moment its whole export and its
listing show; `lag` says which of the two may be behind the records. `zip`, `meta` and `index`
are the three files of one ecosystem. `SyncStart` is the beginning of `download_name`,
`ListingUnchanged`, `ListingRead` and `Fetch` are `update_incrementally`, `WholeUnchanged`,
`WholeFetched` and `WholeFailed` the download, and `Rename`, `WriteMeta` and `WriteIndex` the
three writes of either, with a possible `Kill` before each. A failed call sends an update on to
the whole export (`Fallback`) and ends a download. The metadata is written in place: a kill may
leave it unreadable.

A scan with `--incremental` makes its key (`DataIdentity`) in `ScanBegins`, where it also takes a
stored result, and loads and stores later, while a sync may go on. Only the data changes: the
repository's files and the binary, the rest of the key, stay the same.

An export stands for its own hash, so two exports with the same records are one. A withdrawn
record is one of the first moment, so that the data never returns to what it was. `Size` is a
constant: in the instances a changed record leaves the size alone and an added or withdrawn one
does not, so that both answers to "is this the zip the metadata describes" occur.

`AgeIsHonest` and `SyncedMeansCurrent` hold when osv.dev is current everywhere or no sync was
killed. With both, an older export can replace a newer one and be cut off before its metadata
says so: the metadata, and an index of its hash, then speak of the newer. `ReusedIsFresh` is
stated for syncs that were not killed: a sync killed between the export and its metadata leaves
the old hash to a new export, and when the sizes agree the results of the old one are reused.

## Notify

`entry` is the part of the history index that `build` reads: the status and the owner of each
finding, changed by `Record`, a scan that folds what it saw. `issues` is the tracker, in the
order of its numbers; `run` is a run of `notify --github-issues` or `--gitlab-issues`: `Start`
loads the history, `ListIssues` reads the newest issues once, and for each owner in turn
`NextOwner` decides on the calls (`Calls`) that `CallWorks` carries out one by one. `CallFails`
is a call that the forge's tool reports as failed, whether or not the forge did it: the rest of
that owner's calls are dropped and the other owners' go on. `Killed` is a kill anywhere. People
open issues, close, reopen and edit any, and give a repository to another owner.

`DuplicatesAreFarApart` is the promise of one issue per owner as far as the code can keep it: a
listing ends at a thousand issues (`Listed`), so a second issue with the same marker is possible
only beyond that. `ZeroMeansInLine` is what an exit code of 0 means, `PeoplesIssuesKept` what
`notify` may never touch, and `KnownOwnersSettle` that reruns get there. The last one is stated
for the owners that the index still names; `notify_moved` shows why.

## Snapshots

Two hosts and what is carried between them. At the origin `SyncData` and `SyncMeta` are the two
renames of `install_file`, and `BundleStart` hashes the data files before `BundleData` and
`BundleMeta` read every file again, while a sync may go on. `Copies` is what arrives: the bundle,
or one that lost a file or has one altered. At the destination `ImportStart`, `Unpack`, `Accept`
or `Refuse`, and `Remove` and `Rename` per source are `import`, `unpack`, `differences` and
`install`, with `manifest.json` as one more name among the sources. `ImportStops` is a failure,
which removes the staging directory, or a kill, which does not: in a container the next import
has the same process id and finds it. `LocalWrite` is an import of a local file into the same
directory, and `PinAccepts` what `scan --db-snapshot` asks.

A hash is the version it is of: two files with one hash are one file. A source is one data file
and its companion; the manifest lists data files only, as in `classify`.

## FleetSources

`forge` is what the forge has: names, default branches and their heads; `cache` the listing
cache, `dirs` the checkouts. `Start` lists, tells the change (`Between`) and writes the cache;
for each repository listed, in any order, `Fetch` or `Clone`, `Sparse`, `Write` and `Head` are the
git commands of `checkout`, each of which may fail (`GitFails`) or be cut off (`Killed`) with some
of its files written (`Part`). `Finish` is the rest of the scan, as far as it depends on the
checkouts. People push, rename, remove, create, and make another branch the default.

A git command that is cut off leaves more than a half-written tree (`CutOff`): its lock, which
makes every later fetch, sparse or write fail (`stuck`, `Blocked`) because nothing in `checkout`
removes one; of a clone, a repository without a remote or without a branch to follow, which is
not cloned again because `.git` is there; and files that git does not know of (`litter`), which
`git reset --hard` keeps unless the commit has them too, and which the scan then reads beside
the commit's own. sparse changes only which files are there, so a lock in its way is seen at the
write that follows.

A shallow clone follows one branch: that is in `follows`, and is why `SyncedIsWhole` and
`ScansCatchUp` have a condition on it (see the disagreements below).

## Decisions

The algorithms of these modules are pure. Each takes an input, the record `case`, and its
properties compare what the code computes with a definition of what it should compute.

- `Reachability`: a program is a set of functions, each in a crate, and facts about them (calls,
  function pointers, trait objects, foreign code, generics, destructors). `CanRun` is what the
  program can run, by Rust's semantics: the least set closed under `Runs`. Against it stand the
  fragments of the driver (`Instances`, `Taken`, `OpaqueSite`), their merge (`KeepImpl`, `Edge`,
  `OpaqueEdge`), the search and the `Verdict`. `CoveredVerdictIsSound` says that a function that
  is called NotReachable cannot run, for programs in what the analysis takes for granted
  (`Covered`): no destructor matters, every crate was compiled, one crate's function pointers do
  not come from another that it does not see, and public roots are not generic.
- `OsvRanges` and `FixPlan`: versions are numbers, and a compatibility line is `LineSize` of
  them. `Affected`, `SafeIntervals` are the walks of `core/osv.rs`; `Items`, `Alternatives`,
  `EditFor` and `Settled` the steps from a report to a plan. Four properties: an upgrade clears
  its advisories, a checked target adds none, nothing breaking goes unasked, and no finding is
  lost between the items.
- `AdvisoryRecords`: `Loaded` puts an overlay over an export, `Joined` and `Clusters` are the
  union-find over shared names, `Kept` the finding of a cluster. `ReportedIsOnRecord` and
  `CountedOnce` say what an organization's findings are, without a union-find.
- `ImageLayers`: `Apply` is one entry of a layer's archive, with `Walked` for the walk in the
  order of the paths' text; `Shown` is an overlay file system. `LayersAreOverlay` holds in full
  for images in which no sibling sorts between a directory and its files, and in one direction
  for all; `decisions_whiteout` shows the other.
- `Versions`: a version is its runs of digits and of letters. The comparators are written as the
  first place where two versions differ, once for all of them. Maven's text is turned into its
  nested lists by `ParseItems`; a list is always the last item of the one it is in, so that the
  nesting is a row of items with one where a list opens, and no definition is recursive.
  `IsVersion` says what the versions of an order are, which `SampleAssumption` has TLC check of
  every version tried. `OrdersAreTotal` says that each comparator is an order: antisymmetric in
  its answers and transitive, ties included. RubyGems' equality is its own and must agree with
  the order, and Composer's introduced bounds must be open upwards.

## Runs and bounds

| run | module, configuration | shows | distinct states, seconds |
|---|---|---|---|
| `fleet_coverage` | `MCFleetScan`, `FleetScan_coverage` | `PassMeansRead`, `RecordIsWhole` | 1.3 million, 20 |
| `fleet_verdict` | `MCFleetScan`, `FleetScan_verdict` | `CleanMeansExcused`, `WarningsExcused`, `ExpiredDecisionFails`, `SsvcGateKnows`, `KevGateHolds` | 9.6 million, 100 |
| `history_directories` | `MCHistory`, `History_directories` | `NewIsReported`, `OldIsNotNew`, `FixedMeansGone`, `ImplementsLedger` | 720 thousand, 70 |
| `fix_rollout` | `MCFixApply`, `FixApply_rollout` | `OnlyVerifiedMoves`, `OthersKept`, `SettledStaysSettled`, `WithinMaxPrs`, `CanaryFailureStops`, `ClosesOnlyUnwanted` | 2.7 million, 40 |
| `fix_overwritten` | `MCFixApply`, `FixApply_overwritten` | `OthersNeverLost` violated | |
| `osv_sync` | `MCAdvisoryData`, `AdvisoryData_sync` | `AgeIsHonest`, `SyncedMeansCurrent`, `ReusedIsFresh` | 3.9 million, 40 |
| `notify_issues` | `MCNotify`, `Notify_issues` | `DuplicatesAreFarApart`, `ZeroMeansInLine`, `PeoplesIssuesKept`, `KnownOwnersSettle` | 360 thousand, 20 |
| `notify_moved` | `MCNotify`, `Notify_moved` | `EveryOwnerSettles` violated | |
| `data_import` | `MCSnapshots`, `Snapshots_import` | `DamagedReplacesNothing`, `ImportedWhole`, `CompanionsNotNewer`, `ImportSettles` | 690 thousand, 30 |
| `fleet_sync` | `MCFleetSources`, `FleetSources_sync` | `SyncedIsWhole`, `ChangesAreExact`, `ScansCatchUp` | 1.3 million, 105 |
| `decisions_inputs` | `MCDecisions`, `Decisions_inputs` | `CoveredVerdictIsSound`, `UpgradeClearsItsAdvisories`, `TargetAddsNothing`, `NoUnaskedMajor`, `EveryFindingPlanned`, `ReportedIsOnRecord`, `CountedOnce`, `LayersAreOverlay`, `OrdersAreTotal` | 350 thousand, 95 |
| `decisions_whiteout` | `MCDecisions`, `Decisions_whiteout` | `WhiteoutsTakeTheTree` violated | |

The bounds, and why they are enough:

- `fleet_coverage` has two repositories, one of which has two units: a unit can fail beside one
  that does not, and a repository beside another. A scan knows nothing of a third. One hit is
  enough for what is about reading. Every combination of the flags that matter to coverage and
  recording is tried, and each narrowing filter alone with `--history`.
- `fleet_verdict` has one repository with two advisories, one of them malware, and a warning; at
  most one hit per source, in one of three shapes (runtime, dev, in no build); two severities,
  so that each level has a finding below and at it. The filters and gates act on each hit alone,
  except that a gate level is chosen by flags: the command lines therefore combine all the
  gates, all pairs of filters, all filters at once, and what concerns warnings and malware.
- `history_directories` has three directories: one that keeps a single second (`keep = 1`) over
  four seconds, so that pruning may leave an older file beside a newer one that went, and has
  one recorder, one that git shares and damages, and one that two recorders write at once, which
  is what it takes to share a temporary name. A run, one that changes the answer and one that
  changes it back are three runs; the third directory has two runs of one second or of two.
- `fix_rollout` has two repositories, a plan for both and a newer one that replaces a branch and
  blocks another, two runs and two moves of other people (requests that leave the page are one): one that makes
  what a run read stale, and one between its two looks. Its five command lines combine the limits with publishing.
- `osv_sync` has two records, three moments of osv.dev and one kill. An update that fetches one
  record of two and a change that is too much for one are both there (`MaxChanged = 1`); a lag
  can span two changes. The ids are symmetric.
- `notify_issues` has a team and the findings without an owner, a finding of each, two scans, a
  listing that ends after two issues, two acts of people and one fault. One run at a time: two at
  once open two issues, which nothing in the code prevents; the theorems about types and
  people's issues are for any number.
- `data_import` has two sources, one installed and one not when a kill comes; two versions of
  them, so that two bundles differ; and one fault (a kill, a damaged copy or a local write).
- `fleet_sync` has two names and two repositories, one of which may not exist yet, so that a
  name can pass on; two commits, two branches, one change and one fault. A kill cuts off the git
  command of one checkout (`MaxCut`), of which there may be only one: that all are blocked
  occurs. `SyncedScansAreWhole` is for any number. Deadlock is checked: a run can always begin.
- `decisions_inputs` has programs of three functions in up to three crates with three facts;
  plans over versions 0 to 3 on two lines, two ranges or listed versions and two copies; three
  records of three ids; four entries in any number of layers over a directory, its sibling and
  its file; and for each order the pairs of 26 to 64 versions, tried against all third ones. A
  pair of advisories is what conflicts, and a chain of three records is what a pairwise join
  could miss. The inputs grow one element at a time, so a smaller one is always tried first.

Deadlock is not checked where the system really stops: a scan ends, the bounds on runs and moves
end the rest, and an input at its bound has no successor.

## Fairness

Three runs have a liveness property, each under the fairness that the way the program is used
justifies:

- `Notify`: weak fairness of each run's next step that nothing goes wrong in (`Advance`), the
  start of a run included. `notify` is run from a schedule and waits for each call of the tool.
  Scans, faults and people's acts are not fair: `KnownOwnersSettle` says that once they rest, the
  tracker comes in line and stays so.
- `Snapshots`: weak fairness of `Import` - whoever imports repeats it until it worked, with an
  undamaged copy. `ImportSettles` is about what a kill and its leftovers may block.
- `FleetSources`: weak fairness of a run's own steps (`GoesOn`) and strong fairness of starting
  `scan --sync`, which other commands may precede each time. `ScansCatchUp` says that no
  failed command, kill between commands, rename or removal leaves a checkout that later syncs do
  not bring up to date. It promises nothing of a checkout in which git itself was killed and is
  blocked, which stays a gap until somebody removes it, nor of one whose repository has another
  default branch (see the disagreements below); and when no other is listed, the scan stops and
  says nothing new.

The other modules state safety only: a scan, a sync or `fix apply` is one run that ends, with no
promise of another.

## Proofs

Eight modules hold theorems; what they have in common is that the invariants of the runs are
not inductive, and each needs a statement of what a process knows at each of its steps. The
theorems about the algorithms are in `Decisions_proofs`.

### FleetScan

`FleetScan_proofs` proves, for every set of repositories, units, advisories, command lines and
decisions, and every bound on hits, that the specification keeps `TypeOK`, `PassMeansRead`,
`RecordIsWhole`, `CleanMeansExcused`, `WarningsExcused`, `ExpiredDecisionFails`, `SsvcGateKnows`
and `KevGateHolds`. The assumptions are those of `FleetScan` on its constants.

None of these is inductive: they speak of the end of a run, and what makes them true was
decided many phases before. Three invariants carry the argument.

- `Sound` says what a phase knows of the reading: up to the scan nothing was found, a repository
  counts as scanned only when all its units do, and from the scan on none is waiting and the
  failed ones are errored. A verdict other than 2 then means that all was read. `SoundStep` has
  a case per action; only the scan's actions and the verdict need more than their definitions.
- `Covered` says where each raw hit is: in the report, or hidden by something the user named
  (`Hidden`), while severities only ever become known. Each filter either leaves a hit or is
  the reason it is hidden, so the case of each action is about that one filter. When the verdict
  is 0, `CleanVerdict` shows that a hit still in the report is tolerated by a gate level.
- `Followed` is the same for warnings: each raw one is in the report or dropped by name.

### History

The directory's promise is a refinement, and it is proved as one: `LedgerIsKept` is that
`History` implements `HistoryLedger`, for any recorders, findings, clock and number of runs,
through crashes between any two calls, two recorders that share a temporary name, merges and
damaged indexes. Two parts.

- What the operators compute. `FoldMakesLedger`: to fold a set of runs in the order of their
  times makes the ledger of those runs, which `HistoryLedger` defines without any order of
  reading. It is an induction over the subsets of the set (`SubsetInduction`), the newest run
  last (`SightedLast`, `MissingLast`). From it `LoadIs`: what `load` makes of snapshots and an
  index is the ledger of the runs in either, if the index covers none but what was read, or
  what it does not cover comes after all that it covers. That is the condition the directory's
  actions have to keep.
- What the directory keeps (`Course`). The refinement is not inductive: it says what a reader
  is told, and nothing of what a recorder half way through read and is about to write. Without
  retention (`AllKept`) every run is on disk, and what recorders and files hold, written at
  different times, is more or less of the same runs (`Chain`), so that whichever is installed
  last, in whatever mix, is an index of some of them or unreadable. With retention (`TailKept`)
  the index reaches up to some time and all that is later is on disk, and each phase of the
  recorder knows what it read and wrote (`InPhase`): what it prunes is in the index it installed.

`LedgerIsKept`, `FixedOnlyWhenGone` and `OldIsNotTold` assume `KeptOrAlone`: a directory keeps
every snapshot, or one recorder has it to itself and no two runs have one second. With retention
and sharing or two recorders the promise is open (see the hazards), which is why it is an
assumption and not a bound of the proof. `FixedOnlyWhenGone` (`FixedMeansGone`) also assumes that
what can be ignored is Cargo's, for the reason in the disagreements. `NewsIsNotLost`
(`NewIsReported`) assumes nothing. `OldIsNotTold` (`OldIsNotNew`) compares the index rebuilt from
what is left with the ledger: what is open in the ledger before the newest run was first seen
before it, and if some snapshot that saw it is left, the rebuilt index has it open as well
(`SuffixTells`).

### FixApply

`FixApply_proofs` proves, for all branches, fleets, plans and command lines, and any number of
runs and of moves of other people, that the specification keeps `TypeOK`, `OnlyVerifiedMoves`,
`OthersKept`, `SettledStaysSettled`, `ClosesOnlyUnwanted`, `CanaryFailureStops` and
`WithinMaxPrs`. It assumes that `--max-prs` and `--stop-after-failures` are numbers or not given,
that a plan is a sequence of edits of known branches, no branch twice, and that it scanned known
repositories.

- `TypeOK` needs `Known`: an edit under way has a branch, and the edits to come are the plan's.
- `OnlyVerifiedMoves` is inductive with the types: `Judge` moves a branch only to a commit that
  says it verified, `Build` keeps the unverified on a branch of their own, `Push` copies.
- `OthersKept` needs `Looked`, what a run knows at each point of the head it is about to move.
  ls-remote and the fetch are two looks: until the fetch the remote holds what ls-remote named,
  or something that came late; from then on the tracking branch does, which the lease compares.
  Where ls-remote found nothing, whatever came since is new (`Fresh`), and not what the tracking
  branch may still hold from an earlier run, so the lease refuses it. The lease alone does not
  do: that tracking branch may hold a commit of somebody else's, and it is the look at the
  message before the work tree that keeps it.
- `SettledStaysSettled` is about the requests that were closed or merged when the run started
  and that no newer ones put past the page before it read the list (`settled`). It needs
  `SettledKnown`: every list a run has read says closed, merged or unknown of them, so that no
  edit of such a branch is tried when requests are opened.
- `ClosesOnlyUnwanted` needs `ClosingKnown`: what is obsolete, and the branch being closed, is of
  a scanned repository and not in the plan.
- `CanaryFailureStops` needs `CanaryKnown`: as long as a canary is to come, only canaries have
  results; and an edit of another repository is tried only with none left and none failed. The
  results of `close_obsolete` do not disturb it because of `ClosingKnown`.
- `WithinMaxPrs` needs `LimitKnown`: with a limit, each request that a run opened is of a
  repository it has listed, those opened beside an open one are at most the limit, and an edit
  under way on a branch without an open request was let through with fewer opened than that. A
  list that is read later says of a repository what it said before (`ListsKept`). That bounds
  what the run counts; `MadeKnown` ties it to the forge: each request that the forge opened for
  the run is counted, or its answer was lost, or its branch was listed with an open one
  (`Uncounted`).

### AdvisoryData

For all records, sizes, limits and histories of osv.dev: `TypeOK`, `AgeIsHonest`,
`SyncedMeansCurrent` and `ReusedIsFresh`. The types (`Typed`) and `InOrder` are inductive
together: what osv.dev shows is in its story (`InTime`), what a sync under way has fetched is as
new as the listing it read (`Fetching`), and three parts hold under a condition each. As long as
no sync was killed, metadata and index describe the export they name, the one at hand
(`Matched`). As long as nothing lags, an export never replaces a newer one, so metadata, index and
what a sync holds may be behind it and never before it (`Ordered`). With neither, what a scan
stores is at least as new as the export its key was made of (`Fresh`).

### Notify

For any number of runs at once: `TypeOK` and `PeoplesIssuesKept`, from `Inv`, which adds to the
types that what a run listed is still there with the marker it had (`ListingKept`: issues are
never removed and keep their marker), and that a call names an issue with the marker of the
owner in turn, or creates one for an owner without a listed issue (`CallsKnown`).
`DuplicatesAreFarApart` assumes that one run is under way at a time and that owners have markers
of their own (`OneRun`, `OwnMarks`); it needs that a run has not yet opened an issue for an owner
it is still to do (`NoneOpenedYet`). Under the same assumptions `ZeroLeavesInLine` is `ZeroMeansInLine`: an
invariant of each owner in a run nobody overtook (`CourseKept`) says that it is still to do, has
calls that remain to bring its issue in line (`UnderWay`), or is in line (`Settled`).

### Snapshots

For all sources and any number of syncs, bundles, imports and faults: `TypeOK`,
`DamagedReplacesNothing`, `ImportedWhole` and `CompanionsNotNewer`. `IInv` has a part per actor:
`OriginOK` (a companion is not newer than its data, except between the renames), `BundlerOK`,
`TarOK` (without an overlap what was packed is what was hashed), `ImportOK` (from `Accept` on the
staging directory agrees with the manifest for all that is left, and what is gone from `left` is
installed, unless somebody else wrote) and `DestOK`.

### FleetSources

For all repositories, names, branches and faults: `TypeOK`, `ChangesAreExact` and
`SyncedIsWhole`. The invariant `IInv` adds to the types those of the listing cache and of a run's
fields, and that a run's change is `Between` of the listings it remembers. What is left is about
`Between` alone (`BetweenIsExact`): a name that moved is in neither of the other two sets. `SyncedIsWhole` is
about a run that ended; `CourseKept` says of the one under way what each git command has done for
a checkout (`WholeAt`), and that the commits the run has seen a branch at include where it is.
`LitterKnown` adds that files of other commits lie in a checkout only after a fault, of whatever a
git command that was cut off can leave behind (`LeftType`).

### Reachability

`CoveredVerdictsAreSound`: for every program of any number of functions, crates and facts, a
function that is called NotReachable cannot run. There is no induction: both sides are least
closed sets, so it is enough that what the search reached across opaque code is closed under what
can run. That takes that what compiled functions run is compiled (`RunIsCompiled`), and that each
step of the program is an edge of the merged graph, perhaps across opaque code (`RunIsAnEdge`); a
function that has no node is one that nothing compiled (`UncompiledCannotRun`).

### FixPlan

For all advisories, fleets and line sizes: `SafeIntervalsAreSafe` (no range affects a version
inside an interval), from it `UpgradesClear`, and `TargetsAddNothing` and `NoMajorUnasked` about
plans whose targets were checked. An upgrade is only chosen among lower ends of intervals that
satisfy each advisory (`CommonTarget`) or of the one advisory (`Target`), which is where the
cases of the proof split. `FindingsArePlanned` (`EveryFindingPlanned`): each finding is in an item
(with what cannot be fixed, in the batch, or on its own), each item has an alternative for it,
and no later step changes what an edit is for.

### AdvisoryRecords

For any finite export and overlay with one record per id (`RecordsAreLayers`):
`VulnerabilitiesCountOnce` (`CountedOnce`) and `RecordsAreReported` (`ReportedIsOnRecord`). The
union-find is a fold over the pairs of records in the order of the two loops. That such a fold is
what its definition says is `FoldExists`, and what it computes follows by induction over the
subsets of a finite set (`SubsetInduction`), with the set of good subsets in place of a predicate.
The parents are at each point a forest (`Forests`: every set of records has one that is a root
or has its parent outside the set), in which every record leads to one root (`RootIs`).
Linking a root moves the records of its own tree and no other (`RootsJoin`), so that a forest
stays one and the records that had one root keep having one; after all pairs, records that share
a name have one root (`SharersJoin`). Both theorems follow from this alone: which record of a
cluster is the representative does not matter, only that it is one of them.

### ImageLayers

For any number of layers and entries that a layer can have (`ImagesAreArchives`) and any order of
the paths' text in which a path comes after the directory it is in (`TextOrderAssumption`):
`ViewsAreOverlays` (`LayersAreOverlay`). The two folds, over the entries of a layer and over the
layers, are taken apart into steps by `FoldExists` (`LayerInSteps`, `ViewInSteps`), so that an
invariant of the view can be carried from an entry to the next (`Telling`). For all images each path in the
view is there by an entry of its layer (`Entered`), and what no later layer overrides is there
(`Unopposed`): an entry removes only what it overrides, and never what its own layer has put
(`OwnLayerIsSpared`, the one use of what makes an archive well formed). For plain images what a
later layer overrides is gone (`Cleared`), which needs that what comes from the layers below has
its directories in the view (`Rooted`): only then does a file find the directory that it replaces,
and the walk of a removal reaches everything inside (`WalkReaches`: going up from a path, nothing
that lies outside sorts between a path and its parent). Within a layer `Rooted` is about the
layers below; at its end the layer's own entries join them (`LayerIsRooted`).

### Versions

`VersionsAreOrdered`: the orders of Maven, Composer, RubyGems, NuGet, Julia, rpm, dpkg and apk
answer the opposite the other way round and are transitive, ties included, for all versions of
any length (`IsVersion`). `VersionOrdersAreTotal` (`OrdersAreTotal`) is that for any sample of
versions, with RubyGems' equality and Composer's introduced bounds.

A comparator is made of others, and `Total` is kept by the ways in which the code does so:
comparing keys (`PullIsTotal`), one comparison after another (`AndThenIsTotal`), and the first
place where two rows without an end differ (`LexIsTotal`), of which sequences padded to the
longer one are a case (`SeqLexIsTotal`). So for each order a small comparison is shown to be total
(of segments, runs, characters, tokens), and then that the code's loop is the comparison made
from it (`GemOrderIs`, `RpmOrderIs`, `DebOrderIs` and so on). Two need more than padding:

- Identifiers of NuGet and Julia: a list is above its beginning, so a place past the end is
  below every identifier (`IdentCmpIs`).
- Maven: a list against the end of a version is what comes first in it that is not null, so an
  item's place in the order is not its own. `Class` gives each place one - a word below the release,
  a list below null, the end, a word from the release on, a list above null, a number - and
  `MavenOrderIs` shows that the item comparison at the first place of difference is that of
  classes and then values. It needs that two versions that tie up to a place open their lists at
  the same ones, that a list never meets a word there (`NoListMeetsAWord`), and that a null, which
  ties with the end of the other version, is followed by a number above 0 (`AfterNull`).

Composer's bounds are no order: `IntroducedIsOpenUpwards` rests on `BetweenIsPrerelease`, by which
what lies between a prerelease and a release of the same numbers is again a prerelease of them.

The hypotheses on the versions are the divergences below and no more: no word without a rank in
Composer's; in Maven's no list that begins with a list, and no word that is not first in its own.
With any of them the order is not transitive.

### Only model-checked

The liveness properties `KnownOwnersSettle`, `ImportSettles` and `ScansCatchUp`: liveness under
fairness and ENABLED are out of the prover's reach. What the parsers of version texts return is
not proved either, `ParseItems` and `Canonicalize` among them: TLC checks it of each text tried.

## Disagreements between code and documentation

Three runs end in a counterexample; each states what the code's own text says.

- `fix_overwritten`: a commit pushed between ls-remote and fetch is overwritten (`fix.rs:790`),
  against "a branch someone else has pushed to is not touched".
- `notify_moved`: an owner all of whose open findings went to another owner is no longer in the
  index (`history.rs:299`), and the issue is never "closed when an owner has none open"
  (`notify.rs:8`).
- `decisions_whiteout`: a whited-out directory keeps files in the view when a sibling's name sorts
  between it and them (`os/src/image.rs:232`), against "Remove `path` and everything under it".

Noted, without a run of their own:

- scans: `--fail-on-kev` passes when the KEV data could not be loaded (`scan.rs:1364`);
  `KevGateHolds` is stated for a catalogue that is there.
- history: an ignored finding outside Cargo is recorded under Cargo, and its own entry becomes
  fixed (`history.rs:223`); a finding back after a fix is not news once retention pruned the
  snapshots before it (`history.rs:990`); an unreadable index loses the first sightings of pruned
  snapshots, which the module comment promises; when a snapshot is pruned and an older one is
  not, because its file could not be removed, the index rebuilt from what is left misses what
  was found in between, and `changes` tells it as new, although "a gap run in between never
  makes old findings look new" (`history.rs:974`).
- OSV data: after a kill between an export and its metadata, a new export of the same size keeps
  the old hash, and results are reused for it (`scancache.rs:96`, against its lines 3 to 5).
- fix apply: a default branch that exists but cannot be fetched is treated like one that does not
  (`fix.rs:781`), so a branch may be rebuilt on the checkout's older HEAD; a canary that was
  skipped rather than failed does not stop a rollout, although the guide says the rest waits for
  every canary to be verified; where ls-remote finds no branch the tracking branch of an earlier
  run stays (`fix.rs:793`), so a branch that somebody restores at that very commit before the
  push passes the lease; `fix apply` ends 0 when edits were skipped or a push failed, although the
  guide says 0 "only when everything planned was verified"; a request that was closed or merged
  and is past the first page of the list is opened again (`fix.rs:1330`); and a run opens more
  than `--max-prs` requests, "at most this many" (`fix.rs:151`), when an answer is lost or a
  request listed as open is closed meanwhile, because it counts neither. `WithinMaxPrs` bounds it.
- fix plan: "Never suggest a downgrade" (`core/remediation.rs:206`) has an exception, named at
  `finding_target`: when no fix is at or above all that is installed, the highest one is taken,
  below some of it, and the plan then moves those repositories down.
- aliases: the kept id is "chosen from the records alone so every repo picks the same one"
  (`core/osv.rs:839`), but from the records that match the installed version: when one record of
  a vulnerability does not list a version that another does, two repositories differ.
- reachability: the driver has no edge for a destructor that a drop runs, nor for a pointer to a
  function of another crate when this one takes the address of some
  (`reach-driver/src/main.rs:449`), although `crates/reach/README.md:22` calls the negative claim
  sound with "never a false NotReachable"; `Covered` leaves such programs out, and without that
  TLC finds wrong verdicts.
- sources: a checkout keeps following the branch it was cloned with; a changed default branch is
  not picked up, although `docs/specs/06-fleet-sources.md` fetches the default. A checkout in
  which git was killed can stay an errored gap: a lock is not removed, a clone without its remote
  is not cloned again (`sources.rs:746`). After a reset that was cut off, files of its commit can
  stay beside those of the next and are read with them.
- recording: a run whose recording fails once the snapshot is written ends 2 and leaves a snapshot
  that says 0 or 1 (`history.rs:541`), so `trend` does not show the gap.
- versions: Maven's order has cycles (1 < 1-sp < 1-0-alpha < 1) where a zero begins a list or a
  word stands between a dot and another separator - as `ComparableVersion` itself does, so the
  samples leave such texts out; Composer's words without a rank tie with every number
  (`packagist/src/version.rs:58`), so 1.0.0.0.1 and 1.0.0.0.2 both equal 1.0-foo, and the samples
  have no such words; and Composer's introduced bound takes in the prereleases of a bound with a
  patch level (2.4.5-rc1 counts as at or after 2.4.5-p1, which 2.4.5 does not), although the
  comment speaks of a stable release (`packagist/src/version.rs:236`).

## What is not modelled

- Readers of lockfiles and manifests, report formats and sinks, `fleet.toml`: functions from text
  to data or back with no state. They are most of the repository's lines, which is why the
  definitions here translate a small share of them. PEP 440 and SemVer are compared by libraries.
- Clients of registries, forges and feeds (health, licences, EPSS, KEV, CSAF, OCI): `FleetScan`
  has what they mean to a scan - an answer, a gap or a refusal. Pages, filters and
  authentication of the forges, webhooks and Slack messages carry no state.
- The tools' timeouts: `go/src/run.rs:284` joins a pipe that a grandchild may hold open. The
  processes of an external tool are not in any module.
- npm, Python and Go reachability: the first two look at imports, the third is an external tool.
- Two `fix apply`, two syncs of one export or two runs over one checkout at once: they share
  work trees (`fix.rs:832`), partial files (`osvdb.rs:612`) and directories with no lock, and
  nothing in the code says that they may be run so.
- A pinned scan that reads the data after hashing it while another process writes it
  (`snapshot.rs:296`), and the copy of an advisory-db directory (`install_tree`).
- A request closed by hand after the list was read and before the push (`fix.rs:695`), and the
  use of a listing by a run that fails later (`sources.rs:440`): nothing is promised of either.

`PROJECT.json` has the components with their reasons, and the hazards that no property covers.

## Plan

Done: the seven processes and the five algorithms above, with proofs for all of them.

1. `ToolTimeout`: `run_with_timeout` and `run_to_completion` with processes that outlive the
   tool; liveness: the call returns.
2. `FleetSources` with two runs at once, and with `Snapshots` read by a pinned scan.
