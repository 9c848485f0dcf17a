--------------------------- MODULE AdvisoryData ---------------------------
(***************************************************************************)
(* One ecosystem's advisory export: `download_name` and                     *)
(* `update_incrementally` (crates/cli/src/osvdb.rs, osvdelta.rs) keep        *)
(* all.zip, all.zip.meta.json and all.zip.index.json in line with osv.dev,   *)
(* while scans reuse results keyed on the data (scancache.rs,                *)
(* orchestrate.rs).                                                          *)
(*                                                                         *)
(* osv.dev publishes three things on its own schedule: the whole export, a   *)
(* listing of what changed when, and the records one by one. `story` is what *)
(* the records were over time, and each published thing shows one moment of  *)
(* it; `lag` says which of them may show an older moment than the present.   *)
(*                                                                         *)
(* A record is its version, 0 for a record that is not there. An export is a *)
(* function from ids to versions, and stands for its own hash and ETag:      *)
(* exports with the same records differ in nothing a scan can tell.          *)
(***************************************************************************)
EXTENDS Integers, Sequences, FiniteSets

CONSTANTS
    None,         \* nothing there
    Ids,          \* the records' ids
    Size(_),      \* the size in bytes of an export's zip
    MaxChanged,   \* MAX_CHANGED: with more changes the whole export is fetched
    Lags,         \* the sets of published things that may lag behind
    MaxStory,     \* bound: moments of the story
    MaxKills      \* bound: syncs killed, or with a write that fails

Published == {"listing", "export"}

ASSUME IdsAssumption == IsFiniteSet(Ids) /\ Ids # {}
ASSUME BoundsAssumption == MaxChanged \in Nat /\ MaxStory \in Nat \ {0} /\ MaxKills \in Nat
ASSUME LagsAssumption == Lags \subseteq SUBSET Published

VARIABLES
    story,     \* osv.dev's records, moment by moment
    lag,       \* what of osv.dev may show an older moment
    shown,     \* the moment each published thing shows
    zip,       \* all.zip
    meta,      \* all.zip.meta.json, None when absent or unreadable
    index,     \* all.zip.index.json
    sync,      \* the sync, and what it holds in memory
    kills,     \* how many syncs were killed
    cache,     \* the stored result of the repository
    scan       \* the scan of the repository

vars == <<story, lag, shown, zip, meta, index, sync, kills, cache, scan>>
upstream == <<story, lag, shown>>
disk == <<zip, meta, index>>

Exports == [Ids -> 0..MaxStory]
Moments == 1..MaxStory
Listing == story[shown.listing]
Export == story[shown.export]
Records == story[Len(story)]
Nothing == [id \in Ids |-> 0]

\* Every record of `export` is what it was at `moment` or later.
AsNewAs(export, moment) ==
    \A id \in Ids : \E m \in moment..Len(story) : story[m][id] = export[id]

---------------------------------------------------------------------------
\* osv.dev.

\* A record is added or changed, or one that was always there withdrawn: records never return
\* to what they were.
Change ==
    /\ Len(story) < MaxStory
    /\ \E id \in Ids, version \in {0, Len(story) + 1} :
          /\ version = 0 => \A m \in DOMAIN story : story[m][id] # 0
          /\ story' = Append(story, [Records EXCEPT ![id] = version])
    /\ shown' = [p \in Published |-> IF p \in lag THEN shown[p] ELSE Len(story) + 1]
    /\ UNCHANGED <<lag, disk, sync, kills, cache, scan>>

\* A thing that lags is published anew.
Publish ==
    /\ \E p \in lag :
          /\ shown[p] < Len(story)
          /\ shown' = [shown EXCEPT ![p] = Len(story)]
    /\ UNCHANGED <<story, lag, disk, sync, kills, cache, scan>>

---------------------------------------------------------------------------
\* The sync: download_name.

Resting == {"idle", "ok", "failed"}
AtRest(pc) ==
    [pc |-> pc, since |-> sync.since, updating |-> FALSE, previous |-> None, changed |-> {},
     want |-> None, have |-> None, lm |-> 0, new |-> None, newMeta |-> None, newIndex |-> None]

\* `previous` of download_name: the metadata of a copy that is there, unless --force.
Previous(force) == IF zip # None /\ ~force THEN meta ELSE None

\* The first steps look at the copy at hand only.
SyncStart ==
    /\ sync.pc \in Resting
    /\ \E force \in BOOLEAN :
          sync' = [AtRest(IF Previous(force) = None THEN "whole" ELSE "list")
                      EXCEPT !.previous = Previous(force),
                             !.updating = Previous(force) # None,
                             !.since = IF shown.listing < shown.export
                                       THEN shown.listing ELSE shown.export]
    /\ UNCHANGED <<upstream, disk, kills, cache, scan>>

\* Mutant: an index of whatever export.
ReadIndexAny(m) == index
\* read_index: an index of another export is worthless.
ReadIndex(m) == IF index # None /\ index.sha = m.sha THEN index ELSE None

\* Mutant: the date is that of the check.
TouchedNow(m) == [m EXCEPT !.lm = Len(story)]
\* touched() or its like: the time of the check moves, the age of the data does not.
Touched(m) == m

\* The sync goes on to write `m`, and `i` if there is one.
WriteNext(m, i) == [sync EXCEPT !.pc = "meta", !.newMeta = m, !.newIndex = i]

\* plan: what to fetch and what to drop to get from `have` to `want`.
Changed(have, want) == {id \in Ids : want[id] # 0 /\ have[id] # want[id]}
Removed(have, want) == {id \in Ids : have[id] # 0 /\ want[id] = 0}
Plannable(have, want) ==
    Cardinality(Changed(have, want) \cup Removed(have, want)) <= MaxChanged

\* What was listed and is not to be fetched stays as `from` has it.
Retained(from, want) == [id \in Ids |-> IF want[id] = 0 THEN 0 ELSE from[id]]

\* A copy that is not the one the metadata describes, a call that fails, an empty listing and
\* a listing too far away all end in the whole export.
Fallback ==
    /\ sync.pc \in {"list", "fetch"}
    /\ sync' = [sync EXCEPT !.pc = "whole", !.updating = FALSE]
    /\ UNCHANGED <<upstream, disk, kills, cache, scan>>

\* The listing is what the index was checked against: 304.
ListingUnchanged ==
    /\ sync.pc = "list"
    /\ Size(zip) = sync.previous.size
    /\ ReadIndex(sync.previous) # None
    /\ ReadIndex(sync.previous).etag = Listing
    /\ sync' = WriteNext(Touched(sync.previous), None)
    /\ UNCHANGED <<upstream, disk, kills, cache, scan>>

ListingRead ==
    LET known == ReadIndex(sync.previous)
        have == IF known # None THEN known.modified ELSE zip
        updated == [Touched(sync.previous) EXCEPT !.lm = shown.listing] IN
    /\ sync.pc = "list"
    /\ Size(zip) = sync.previous.size
    /\ known # None => known.etag # Listing
    /\ Listing # Nothing
    /\ Plannable(have, Listing)
    /\ sync' = IF Changed(have, Listing) \cup Removed(have, Listing) = {}
               THEN WriteNext(updated, [sha |-> updated.sha, etag |-> Listing, modified |-> have])
               ELSE [sync EXCEPT !.pc = "fetch", !.changed = Changed(have, Listing),
                                 !.want = Listing, !.have = have, !.lm = shown.listing]
    /\ UNCHANGED <<upstream, disk, kills, cache, scan>>

\* rewrite: fetched records as they are, the rest copied from `from`.
Rewritten(from) ==
    [id \in Ids |-> IF id \in sync.changed THEN Records[id] ELSE Retained(from, sync.want)[id]]

\* The changed records are fetched and the export is rewritten beside the old one. A record
\* that is gone, or that the zip does not have to copy, ends the update.
Fetch ==
    LET new == Rewritten(zip) IN
    /\ sync.pc = "fetch"
    /\ \A id \in sync.changed : Records[id] # 0
    /\ \A id \in Ids : Rewritten(sync.have)[id] # 0 => new[id] # 0
    /\ sync' = [sync EXCEPT
          !.pc = "rename",
          !.new = new,
          !.newMeta = [etag |-> None, lm |-> sync.lm, sha |-> new, size |-> Size(new)],
          !.newIndex = [sha |-> new, etag |-> sync.want, modified |-> Rewritten(sync.have)]]
    /\ UNCHANGED <<upstream, disk, kills, cache, scan>>

\* The whole export has not changed since the copy was downloaded: 304. An updated copy has
\* no ETag to ask with.
WholeUnchanged ==
    /\ sync.pc = "whole"
    /\ sync.previous # None
    /\ sync.previous.etag = Export
    /\ sync' = WriteNext(Touched(sync.previous), None)
    /\ UNCHANGED <<upstream, disk, kills, cache, scan>>

WholeFetched ==
    /\ sync.pc = "whole"
    /\ sync.previous # None => sync.previous.etag # Export
    /\ sync' = [sync EXCEPT
          !.pc = "rename",
          !.new = Export,
          !.newMeta = [etag |-> Export, lm |-> shown.export, sha |-> Export, size |-> Size(Export)],
          !.newIndex = None]
    /\ UNCHANGED <<upstream, disk, kills, cache, scan>>

\* The download fails, is truncated or is no zip: the copy at hand stays.
WholeFailed ==
    /\ sync.pc = "whole"
    /\ sync' = AtRest("failed")
    /\ UNCHANGED <<upstream, disk, kills, cache, scan>>

Rename ==
    /\ sync.pc = "rename"
    /\ zip' = sync.new
    /\ sync' = [sync EXCEPT !.pc = "meta"]
    /\ UNCHANGED <<upstream, meta, index, kills, cache, scan>>

WriteMeta ==
    /\ sync.pc = "meta"
    /\ meta' = sync.newMeta
    /\ sync' = IF sync.newIndex = None THEN AtRest("ok") ELSE [sync EXCEPT !.pc = "index"]
    /\ UNCHANGED <<upstream, zip, index, kills, cache, scan>>

WriteIndex ==
    /\ sync.pc = "index"
    /\ index' = sync.newIndex
    /\ sync' = AtRest("ok")
    /\ UNCHANGED <<upstream, zip, meta, kills, cache, scan>>

\* The sync is killed, or a write fails, which ends a download but sends an update on to the
\* whole export. The metadata is written in place, so it may be left half written.
Kill ==
    /\ sync.pc \notin Resting
    /\ kills < MaxKills
    /\ kills' = kills + 1
    /\ \/ sync' = AtRest("failed")
       \/ /\ sync.updating /\ sync.pc \in {"rename", "meta", "index"}
          /\ sync' = [sync EXCEPT !.pc = "whole", !.updating = FALSE]
    /\ meta' \in IF sync.pc = "meta" THEN {meta, None} ELSE {meta}
    /\ UNCHANGED <<upstream, zip, index, cache, scan>>

---------------------------------------------------------------------------
\* A scan with --incremental.

\* data_identity: the hash on record if the size fits, else the file's own.
DataIdentity == IF meta # None /\ meta.size = Size(zip) THEN meta.sha ELSE zip

\* Mutant: whatever entry is stored.
StoredAnyway(key) == cache # None
\* Store::get: the entry stored under exactly this key.
Stored(key) == cache # None /\ cache.key = key

\* The keys are made before anything is loaded (cache_session, cache_key), and what is stored
\* under them is taken. `claimed` is the moment the metadata dates the data to.
ScanBegins ==
    /\ scan.pc = "idle"
    /\ zip # None
    /\ scan' = IF Stored(DataIdentity)
               THEN [pc |-> "reused", key |-> DataIdentity, data |-> cache.data,
                     claimed |-> IF meta = None THEN 1 ELSE meta.lm]
               ELSE [pc |-> "load", key |-> DataIdentity, data |-> None, claimed |-> 0]
    /\ UNCHANGED <<upstream, disk, sync, kills, cache>>

\* Dbs::load, some time later.
Load ==
    /\ scan.pc = "load"
    /\ scan' = [scan EXCEPT !.pc = "store", !.data = zip]
    /\ UNCHANGED <<upstream, disk, sync, kills, cache>>

\* Store::put: one entry per repository, under the key made at the beginning.
Store ==
    /\ scan.pc = "store"
    /\ cache' = [key |-> scan.key, data |-> scan.data]
    /\ scan' = [scan EXCEPT !.pc = "idle", !.data = None, !.key = None]
    /\ UNCHANGED <<upstream, disk, sync, kills>>

\* A scan ends, or is killed before it has stored anything.
ScanEnds ==
    /\ scan.pc \in {"reused", "load", "store"}
    /\ scan' = [pc |-> "idle", key |-> None, data |-> None, claimed |-> 0]
    /\ UNCHANGED <<upstream, disk, sync, kills, cache>>

---------------------------------------------------------------------------
Init ==
    /\ story \in {<<r>> : r \in [Ids -> {0, 1}] \ {Nothing}}
    /\ lag \in Lags
    /\ shown = [p \in Published |-> 1]
    /\ zip = None
    /\ meta = None
    /\ index = None
    /\ sync = [pc |-> "idle", since |-> 1, updating |-> FALSE, previous |-> None,
               changed |-> {}, want |-> None, have |-> None, lm |-> 0, new |-> None,
               newMeta |-> None, newIndex |-> None]
    /\ kills = 0
    /\ cache = None
    /\ scan = [pc |-> "idle", key |-> None, data |-> None, claimed |-> 0]

Next ==
    \/ Change \/ Publish
    \/ SyncStart \/ Fallback \/ ListingUnchanged \/ ListingRead \/ Fetch
    \/ WholeUnchanged \/ WholeFetched \/ WholeFailed
    \/ Rename \/ WriteMeta \/ WriteIndex \/ Kill
    \/ ScanBegins \/ Load \/ Store \/ ScanEnds

Spec == Init /\ [][Next]_vars

---------------------------------------------------------------------------
\* Properties.

Metas == [etag : Exports \cup {None}, lm : Moments, sha : Exports, size : {Size(e) : e \in Exports}]
Indexes == [sha : Exports, etag : Exports, modified : Exports]

ASSUME NoneAssumption == None \notin Exports \cup Metas \cup Indexes

\* The state is well typed.
TypeOK ==
    /\ story \in Seq(Exports) /\ Len(story) \in Moments
    /\ lag \in Lags
    /\ shown \in [Published -> 1..Len(story)]
    /\ zip \in Exports \cup {None}
    /\ meta \in Metas \cup {None}
    /\ index \in Indexes \cup {None}
    /\ sync \in [pc : Resting \cup {"list", "fetch", "whole", "rename", "meta", "index"},
                 since : Moments, updating : BOOLEAN, previous : Metas \cup {None},
                 changed : SUBSET Ids, want : Exports \cup {None}, have : Exports \cup {None},
                 lm : Moments \cup {0}, new : Exports \cup {None},
                 newMeta : Metas \cup {None}, newIndex : Indexes \cup {None}]
    /\ kills \in 0..MaxKills
    /\ cache \in [key : Exports, data : Exports] \cup {None}
    /\ scan \in [pc : {"idle", "reused", "load", "store"}, key : Exports \cup {None},
                 data : Exports \cup {None}, claimed : Moments \cup {0}]

\* Where osv.dev shows the present everywhere, or no sync was killed: then an older export
\* never hides behind the metadata of a newer one, save for the moment of its installation.
Orderly == lag = {} \/ (kills = 0 /\ sync.pc # "meta")

\* The data is at least as new as its metadata says, which is what --max-db-age judges:
\* neither a 304, nor an update record by record, nor a kill between the export and its
\* metadata makes it look younger than it is (osvdb.rs:663, 741).
AgeIsHonest ==
    Orderly /\ zip # None /\ meta # None => AsNewAs(zip, meta.lm)

\* A sync that succeeds leaves the data at least as new as what osv.dev showed when it began,
\* whichever of a 304, an update and a download it went through: an index or an ETag never
\* hides a change for good (osvdelta.rs:8-11, osvdb.rs:569-571).
SyncedMeansCurrent ==
    Orderly /\ sync.pc = "ok" => AsNewAs(zip, sync.since)

\* A reused result comes from data at least as new as the metadata at hand claims, though its
\* key was made before the data was loaded and a sync may replace or half replace the data
\* in between (orchestrate.rs:307, scancache.rs:96).
ReusedIsFresh ==
    lag = {} /\ kills = 0 /\ scan.pc = "reused" => AsNewAs(scan.data, scan.claimed)
=============================================================================
