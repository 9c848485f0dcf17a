------------------------- MODULE AdvisoryData_proofs -------------------------
(***************************************************************************)
(* What the advisory data of an ecosystem keeps true, for any records, any  *)
(* history of osv.dev and any sizes of zips.                                *)
(***************************************************************************)
EXTENDS AdvisoryData, SequenceTheorems, TLAPS

-----------------------------------------------------------------------------
(* What a sync and a scan hold at each point. *)

SyncHolds ==
    /\ sync.pc \in {"list", "fetch"} => zip # None /\ sync.previous # None
    /\ sync.pc = "fetch" => sync.want # None /\ sync.have # None /\ sync.lm # 0
    /\ sync.pc = "rename" => sync.new # None
    /\ sync.pc \in {"rename", "meta"} => sync.newMeta # None
    /\ sync.pc = "index" => sync.newIndex # None
ScanHolds ==
    /\ scan.pc # "idle" => scan.key # None /\ zip # None
    /\ scan.pc \in {"store", "reused"} => scan.data # None
    /\ scan.pc = "reused" => scan.claimed # 0

Typed == TypeOK /\ SyncHolds /\ ScanHolds

Syncs == [pc : Resting \cup {"list", "fetch", "whole", "rename", "meta", "index"},
          since : Moments, updating : BOOLEAN, previous : Metas \cup {None},
          changed : SUBSET Ids, want : Exports \cup {None}, have : Exports \cup {None},
          lm : Moments \cup {0}, new : Exports \cup {None},
          newMeta : Metas \cup {None}, newIndex : Indexes \cup {None}]
Scans == [pc : {"idle", "reused", "load", "store"}, key : Exports \cup {None},
          data : Exports \cup {None}, claimed : Moments \cup {0}]

-----------------------------------------------------------------------------
(* Data and the moments of a story that show it. *)

Shown(s, a) == \A id \in Ids : \E k \in 1 .. Len(s) : s[k][id] = a[id]
\* Every record of a is what it was at moment m or later.
Since(s, a, m) == \A id \in Ids : \E k \in m .. Len(s) : s[k][id] = a[id]
\* No record of a is older than that of b.
Follows(s, a, b) ==
    \A id \in Ids : \A k \in 1 .. Len(s) :
      s[k][id] = b[id] => \E l \in k .. Len(s) : s[l][id] = a[id]

\* The moments in order, and what lags.
InTime ==
    /\ \A m \in 1 .. Len(story), id \in Ids : story[m][id] <= m
    /\ sync.since <= shown.listing /\ sync.since <= shown.export
    /\ lag = {} => shown.listing = Len(story) /\ shown.export = Len(story)

\* What is fetched is what the listing shows and the data at hand does not.
Fetching ==
    sync.pc = "fetch" =>
      /\ sync.lm \in sync.since .. Len(story) /\ sync.want = story[sync.lm]
      /\ sync.changed = Changed(sync.have, sync.want)

\* As long as no sync was killed, metadata and index are those of the data they name, and they
\* name the data at hand.
MetaOf(s, m) == Since(s, m.sha, m.lm) /\ (m.etag # None => m.etag = m.sha)
IndexOf(s, i) == i.modified = i.sha /\ Shown(s, i.etag) /\ Follows(s, i.sha, i.etag)
Matched ==
    /\ meta # None => MetaOf(story, meta)
    /\ index # None => IndexOf(story, index)
    /\ zip # None /\ sync.pc # "meta" => meta # None /\ meta.sha = zip
    /\ sync.pc \in {"list", "fetch", "whole"} /\ sync.previous # None =>
         zip # None /\ sync.previous = meta
    /\ sync.pc = "fetch" => sync.have = zip
    /\ sync.pc = "rename" => sync.newMeta.sha = sync.new
    /\ sync.pc = "meta" => zip # None /\ sync.newMeta.sha = zip
    /\ sync.pc \in {"rename", "meta"} => MetaOf(story, sync.newMeta) /\ Since(story, sync.newMeta.sha, sync.since)
    /\ sync.pc \in {"rename", "meta", "index"} /\ sync.newIndex # None => IndexOf(story, sync.newIndex)
    /\ sync.pc \in {"index", "ok"} => zip # None /\ Since(story, zip, sync.since)

\* Where nothing lags, the data only gets newer: it is at least as new as metadata and index say,
\* though they may be those of earlier data.
MetaBelow(s, a, m) ==
    /\ Since(s, a, m.lm)
    /\ m.etag # None => Shown(s, m.etag) /\ Follows(s, a, m.etag)
IndexBelow(s, a, i) ==
    /\ Shown(s, i.modified) /\ Follows(s, a, i.modified)
    /\ Shown(s, i.etag) /\ Follows(s, a, i.etag)
Ordered ==
    /\ meta # None \/ index # None \/ sync.previous # None => zip # None
    /\ zip # None =>
         /\ Shown(story, zip)
         /\ meta # None => MetaBelow(story, zip, meta)
         /\ index # None => IndexBelow(story, zip, index)
         /\ sync.previous # None => MetaBelow(story, zip, sync.previous)
    /\ sync.pc = "fetch" =>
         /\ Shown(story, sync.have) /\ Follows(story, zip, sync.have)
         /\ Follows(story, sync.want, zip)
    /\ sync.pc = "rename" =>
         /\ Shown(story, sync.new) /\ (zip # None => Follows(story, sync.new, zip))
         /\ MetaBelow(story, sync.new, sync.newMeta) /\ Since(story, sync.new, sync.since)
         /\ sync.newIndex # None => IndexBelow(story, sync.new, sync.newIndex)
    /\ sync.pc \in {"meta", "index", "ok"} => zip # None /\ Since(story, zip, sync.since)
    /\ sync.pc = "meta" => MetaBelow(story, zip, sync.newMeta)
    /\ sync.pc \in {"meta", "index"} /\ sync.newIndex # None => IndexBelow(story, zip, sync.newIndex)

\* What is stored under a key is at least as new as the data the key was made of.
Fresh ==
    /\ zip # None /\ meta # None => Shown(story, meta.sha) /\ Follows(story, zip, meta.sha)
    /\ scan.pc \in {"load", "store"} => Shown(story, scan.key)
    /\ scan.pc = "load" => Follows(story, zip, scan.key)
    /\ scan.pc = "store" => Shown(story, scan.data) /\ Follows(story, scan.data, scan.key)
    /\ cache # None => /\ Shown(story, cache.key) /\ Shown(story, cache.data)
                       /\ Follows(story, cache.data, cache.key)
    /\ scan.pc = "reused" => Since(story, scan.data, scan.claimed)

InOrder ==
    /\ InTime /\ Fetching
    /\ kills = 0 => Matched
    /\ lag = {} => Ordered
    /\ kills = 0 /\ lag = {} => Fresh

-----------------------------------------------------------------------------
(* Lemmas. *)

(***************************************************************************)
(* What osv.dev shows is typed.                                             *)
(***************************************************************************)
LEMMA ShownIsTyped ==
    ASSUME TypeOK
    PROVE  /\ Len(story) \in Moments /\ Len(story) \in Nat /\ MaxStory \in Nat
           /\ \A m \in 1 .. Len(story) : story[m] \in Exports /\ m \in Moments
           /\ Listing \in Exports /\ Export \in Exports /\ Records \in Exports
           /\ shown.listing \in 1 .. Len(story) /\ shown.export \in 1 .. Len(story)
<1>1. story \in Seq(Exports) /\ Len(story) \in Moments /\ MaxStory \in Nat /\ shown \in [Published -> 1 .. Len(story)]
  BY BoundsAssumption DEF TypeOK
<1>2. Len(story) \in Nat /\ Len(story) >= 1 /\ Len(story) <= MaxStory
  BY <1>1 DEF Moments
<1>3. \A m \in 1 .. Len(story) : story[m] \in Exports /\ m \in Moments
  BY <1>1, <1>2 DEF Moments
<1>4. shown.listing \in 1 .. Len(story) /\ shown.export \in 1 .. Len(story)
  BY <1>1 DEF Published
<1>5. Listing \in Exports /\ Export \in Exports
  BY <1>3, <1>4, Zenon DEF Listing, Export
<1>6. Records \in Exports
  BY <1>2, <1>3 DEF Records
<1> QED  BY <1>1, <1>2, <1>3, <1>4, <1>5, <1>6

LEMMA AtRestIsTyped ==
    ASSUME TypeOK, NEW pc \in Resting
    PROVE  AtRest(pc) \in Syncs /\ AtRest(pc).pc = pc /\ AtRest(pc).since = sync.since
<1>1. sync.since \in Moments
  BY DEF TypeOK
<1> QED  BY <1>1 DEF AtRest, Syncs

LEMMA ReadIndexIsTyped ==
    ASSUME TypeOK, NEW m \in Metas
    PROVE  ReadIndex(m) \in Indexes \cup {None}
BY DEF TypeOK, ReadIndex

LEMMA PreviousIsTyped ==
    ASSUME TypeOK, NEW force \in BOOLEAN
    PROVE  Previous(force) \in Metas \cup {None} /\ (Previous(force) # None => zip # None /\ Previous(force) = meta)
BY DEF TypeOK, Previous

LEMMA RewrittenIsTyped ==
    ASSUME TypeOK, sync.want \in Exports, NEW from \in Exports
    PROVE  Rewritten(from) \in Exports
<1>1. Records \in Exports
  BY ShownIsTyped
<1>2. \A id \in Ids : Records[id] \in 0 .. MaxStory /\ from[id] \in 0 .. MaxStory /\ 0 \in 0 .. MaxStory
  BY <1>1, BoundsAssumption DEF Exports
<1> QED  BY <1>2 DEF Rewritten, Retained, Exports

LEMMA InitTyped == Init => Typed
<1> SUFFICES ASSUME Init PROVE Typed
  OBVIOUS
<1>1. PICK r \in [Ids -> {0, 1}] : story = <<r>>
  BY DEF Init
<1>2. r \in Exports /\ 1 \in Moments /\ MaxStory >= 1
  BY BoundsAssumption DEF Exports, Moments
<1>3. story \in Seq(Exports) /\ Len(story) = 1
  BY <1>1, <1>2
<1>4. shown \in [Published -> 1 .. Len(story)]
  BY <1>3 DEF Init
<1>5. sync \in Syncs /\ sync.pc = "idle" /\ scan \in Scans /\ scan.pc = "idle"
  BY <1>2 DEF Init, Syncs, Scans, Resting
<1>6. kills \in 0 .. MaxKills
  BY BoundsAssumption DEF Init
<1> QED  BY <1>2, <1>3, <1>4, <1>5, <1>6 DEF Init, Typed, TypeOK, SyncHolds, ScanHolds, Syncs, Scans

-----------------------------------------------------------------------------
(* Every step keeps the types. *)

LEMMA SyncOnly ==
    ASSUME Typed, sync' \in Syncs, SyncHolds', UNCHANGED <<upstream, disk, kills, cache, scan>>
    PROVE  Typed'
BY DEF Typed, TypeOK, SyncHolds, ScanHolds, Syncs, upstream, disk

LEMMA ChangeTyped ==
    ASSUME Typed, Change \/ Publish
    PROVE  Typed'
<1>1. CASE Change
  <2>1. PICK id \in Ids, version \in {0, Len(story) + 1} :
          story' = Append(story, [Records EXCEPT ![id] = version])
    BY <1>1 DEF Change
  <2>2. Records \in Exports /\ Len(story) \in Nat /\ Len(story) < MaxStory /\ MaxStory \in Nat
    BY <1>1, ShownIsTyped DEF Typed, Change
  <2>3. [Records EXCEPT ![id] = version] \in Exports
    BY <2>2 DEF Exports
  <2>4. story' \in Seq(Exports) /\ Len(story') = Len(story) + 1
    BY <2>1, <2>3 DEF Typed, TypeOK
  <2>5. Len(story') \in Moments
    BY <2>2, <2>4 DEF Moments
  <2>6. shown' \in [Published -> 1 .. Len(story')]
    BY <1>1, <2>2, <2>4 DEF Change, Typed, TypeOK
  <2> QED  BY <1>1, <2>4, <2>5, <2>6 DEF Change, Typed, TypeOK, SyncHolds, ScanHolds, disk
<1>2. CASE Publish
  <2>1. Len(story) \in Nat /\ Len(story) >= 1
    BY ShownIsTyped DEF Typed, Moments
  <2>2. PICK p \in lag : shown' = [shown EXCEPT ![p] = Len(story)]
    BY <1>2 DEF Publish
  <2>3. shown \in [Published -> 1 .. Len(story)] /\ Len(story) \in 1 .. Len(story)
    BY <2>1 DEF Typed, TypeOK
  <2>4. shown' \in [Published -> 1 .. Len(story)]
    BY <2>2, <2>3
  <2> QED  BY <1>2, <2>4 DEF Publish, Typed, TypeOK, SyncHolds, ScanHolds, disk
<1> QED  BY <1>1, <1>2

LEMMA SyncStartTyped ==
    ASSUME Typed, SyncStart
    PROVE  Typed'
<1>1. PICK force \in BOOLEAN :
        sync' = [AtRest(IF Previous(force) = None THEN "whole" ELSE "list")
                   EXCEPT !.previous = Previous(force), !.updating = Previous(force) # None,
                          !.since = IF shown.listing < shown.export
                                    THEN shown.listing ELSE shown.export]
  BY DEF SyncStart
<1>2. /\ Previous(force) \in Metas \cup {None}
      /\ Previous(force) # None => zip # None
  BY PreviousIsTyped DEF Typed
<1>3. (IF shown.listing < shown.export THEN shown.listing ELSE shown.export) \in Moments
  BY ShownIsTyped DEF Typed
<1> DEFINE since == IF shown.listing < shown.export THEN shown.listing ELSE shown.export
           pc == IF Previous(force) = None THEN "whole" ELSE "list"
<1>4. sync' = [pc |-> pc, since |-> since, updating |-> Previous(force) # None,
               previous |-> Previous(force), changed |-> {},
               want |-> None, have |-> None, lm |-> 0, new |-> None, newMeta |-> None, newIndex |-> None]
  BY <1>1 DEF AtRest
<1> HIDE DEF since
<1>5. sync' \in Syncs
  BY <1>2, <1>3, <1>4 DEF Syncs, since
<1>6. sync'.pc \in {"whole", "list"} /\ (sync'.pc = "list" => sync'.previous # None) /\ sync'.previous = Previous(force)
  BY <1>4
<1>7. UNCHANGED <<upstream, disk, kills, cache, scan>>
  BY DEF SyncStart
<1>8. SyncHolds'
  BY <1>2, <1>6, <1>7 DEF SyncHolds, disk
<1> QED  BY <1>5, <1>7, <1>8, SyncOnly

LEMMA UpdateTyped ==
    ASSUME Typed, Fallback \/ ListingUnchanged \/ ListingRead \/ Fetch
    PROVE  Typed'
<1>1. sync \in Syncs /\ zip \in Exports \cup {None} /\ TypeOK
  BY DEF Typed, TypeOK, Syncs
<1>2. UNCHANGED <<upstream, disk, kills, cache, scan>>
  BY DEF Fallback, ListingUnchanged, ListingRead, Fetch
<1>3. sync.pc \in {"list", "fetch"} => zip \in Exports /\ sync.previous \in Metas
  BY <1>1 DEF Typed, SyncHolds, Syncs
<1>4. CASE Fallback
  <2>1. sync' \in Syncs /\ sync'.pc = "whole"
    BY <1>1, <1>4 DEF Fallback, Syncs
  <2> QED  BY <1>2, <2>1, SyncOnly DEF SyncHolds
<1>5. CASE ListingUnchanged
  <2>1. sync' \in Syncs /\ sync'.pc = "meta" /\ sync'.newMeta = sync.previous /\ sync.previous # None
    BY <1>1, <1>3, <1>5 DEF ListingUnchanged, WriteNext, Touched, Syncs, Typed, SyncHolds
  <2> QED  BY <1>2, <2>1, SyncOnly DEF SyncHolds
<1>6. CASE ListingRead
  <2> DEFINE known == ReadIndex(sync.previous)
             have == IF known # None THEN known.modified ELSE zip
             updated == [Touched(sync.previous) EXCEPT !.lm = shown.listing]
             i == [sha |-> updated.sha, etag |-> Listing, modified |-> have]
  <2>1. sync.pc = "list"
    BY <1>6 DEF ListingRead
  <2>2. known \in Indexes \cup {None}
    BY <1>1, <1>3, <2>1, ReadIndexIsTyped
  <2>3. have \in Exports
    BY <1>3, <2>1, <2>2 DEF Indexes
  <2>4. Listing \in Exports /\ shown.listing \in Moments /\ shown.listing # 0
    BY <1>1, ShownIsTyped DEF Moments
  <2>5. updated \in Metas
    BY <1>3, <2>1, <2>4 DEF Metas, Touched
  <2>6. i \in Indexes
    BY <2>3, <2>4, <2>5 DEF Indexes, Metas
  <2>7. \/ sync' = WriteNext(updated, i)
        \/ sync' = [sync EXCEPT !.pc = "fetch", !.changed = Changed(have, Listing),
                                !.want = Listing, !.have = have, !.lm = shown.listing]
    BY <1>6 DEF ListingRead
  <2>8. sync.previous # None
    BY <2>1 DEF Typed, SyncHolds
  <2> HIDE DEF known, updated, i, have
  <2>9. CASE sync' = WriteNext(updated, i)
    <3>1. sync' \in Syncs /\ sync'.pc = "meta" /\ sync'.newMeta = updated
      BY <1>1, <2>5, <2>6, <2>9 DEF WriteNext, Syncs
    <3>2. updated # None
      BY <2>5, NoneAssumption
    <3> QED  BY <1>2, <3>1, <3>2, SyncOnly DEF SyncHolds
  <2>10. CASE sync' = [sync EXCEPT !.pc = "fetch", !.changed = Changed(have, Listing),
                                   !.want = Listing, !.have = have, !.lm = shown.listing]
    <3>1. Changed(have, Listing) \in SUBSET Ids
      BY DEF Changed
    <3>2. sync' \in Syncs /\ sync'.pc = "fetch" /\ sync'.want = Listing /\ sync'.have = have
          /\ sync'.lm = shown.listing /\ sync'.previous = sync.previous
      BY <1>1, <2>3, <2>4, <2>10, <3>1 DEF Syncs
    <3>3. Listing # None /\ have # None /\ zip # None
      BY <2>1, <2>3, <2>4, NoneAssumption DEF Typed, SyncHolds
    <3>4. SyncHolds'
      BY <1>2, <2>4, <2>8, <3>2, <3>3 DEF SyncHolds, disk
    <3> QED  BY <1>2, <3>2, <3>4, SyncOnly
  <2> QED  BY <2>7, <2>9, <2>10
<1>7. CASE Fetch
  <2> DEFINE new == Rewritten(zip)
             m == [etag |-> None, lm |-> sync.lm, sha |-> new, size |-> Size(new)]
             i == [sha |-> new, etag |-> sync.want, modified |-> Rewritten(sync.have)]
  <2>1. sync.pc = "fetch" /\ sync.want \in Exports /\ sync.have \in Exports /\ sync.lm \in Moments
    BY <1>1, <1>7 DEF Fetch, Typed, SyncHolds, Syncs
  <2>2. new \in Exports /\ Rewritten(sync.have) \in Exports
    BY <1>1, <1>3, <2>1, RewrittenIsTyped
  <2> HIDE DEF new
  <2>3. m \in Metas /\ i \in Indexes
    BY <2>1, <2>2 DEF Metas, Indexes
  <2>4. sync' = [sync EXCEPT !.pc = "rename", !.new = new, !.newMeta = m, !.newIndex = i]
    BY <1>7 DEF Fetch, new
  <2> HIDE DEF m, i
  <2>5. sync' \in Syncs /\ sync'.pc = "rename" /\ sync'.new = new /\ sync'.newMeta = m
    BY <1>1, <2>2, <2>3, <2>4 DEF Syncs
  <2>6. new # None /\ m # None
    BY <2>2, <2>3, NoneAssumption
  <2> QED  BY <1>2, <2>5, <2>6, SyncOnly DEF SyncHolds
<1> QED  BY <1>4, <1>5, <1>6, <1>7

LEMMA WholeTyped ==
    ASSUME Typed, WholeUnchanged \/ WholeFetched \/ WholeFailed
    PROVE  Typed'
<1>1. sync \in Syncs /\ TypeOK
  BY DEF Typed, TypeOK, Syncs
<1>2. UNCHANGED <<upstream, disk, kills, cache, scan>>
  BY DEF WholeUnchanged, WholeFetched, WholeFailed
<1>3. CASE WholeUnchanged
  <2>1. sync.previous \in Metas /\ sync.previous # None
    BY <1>1, <1>3 DEF WholeUnchanged, Syncs
  <2>2. sync' \in Syncs /\ sync'.pc = "meta" /\ sync'.newMeta = sync.previous
    BY <1>1, <1>3, <2>1 DEF WholeUnchanged, WriteNext, Touched, Syncs
  <2> QED  BY <1>2, <2>1, <2>2, SyncOnly DEF SyncHolds
<1>4. CASE WholeFetched
  <2> DEFINE m == [etag |-> Export, lm |-> shown.export, sha |-> Export, size |-> Size(Export)]
  <2>1. Export \in Exports /\ shown.export \in Moments
    BY <1>1, ShownIsTyped
  <2>2. m \in Metas
    BY <2>1 DEF Metas
  <2>3. sync' = [sync EXCEPT !.pc = "rename", !.new = Export, !.newMeta = m, !.newIndex = None]
    BY <1>4 DEF WholeFetched
  <2> HIDE DEF m
  <2>4. sync' \in Syncs /\ sync'.pc = "rename" /\ sync'.new = Export /\ sync'.newMeta = m
    BY <1>1, <2>1, <2>2, <2>3 DEF Syncs
  <2>5. m # None /\ Export # None
    BY <2>1, <2>2, NoneAssumption
  <2> QED  BY <1>2, <2>4, <2>5, SyncOnly DEF SyncHolds
<1>5. CASE WholeFailed
  <2>1. sync' \in Syncs /\ sync'.pc = "failed"
    BY <1>1, <1>5, AtRestIsTyped DEF WholeFailed, Resting
  <2> QED  BY <1>2, <2>1, SyncOnly DEF SyncHolds
<1> QED  BY <1>3, <1>4, <1>5

LEMMA WriteTyped ==
    ASSUME Typed, Rename \/ WriteMeta \/ WriteIndex \/ Kill
    PROVE  Typed'
<1>1. sync \in Syncs /\ TypeOK
  BY DEF Typed, TypeOK, Syncs
<1>2. UNCHANGED <<upstream, cache, scan>>
  BY DEF Rename, WriteMeta, WriteIndex, Kill
<1>3. \A pc \in Resting : AtRest(pc) \in Syncs /\ AtRest(pc).pc = pc
  BY <1>1, AtRestIsTyped
<1> SUFFICES /\ sync' \in Syncs /\ SyncHolds'
             /\ zip' \in Exports \cup {None} /\ meta' \in Metas \cup {None} /\ index' \in Indexes \cup {None}
             /\ kills' \in 0 .. MaxKills
             /\ zip # None => zip' # None
  BY <1>1, <1>2 DEF Typed, TypeOK, ScanHolds, Syncs, upstream
<1>4. CASE Rename
  <2>1. sync.pc = "rename" /\ zip' = sync.new /\ sync.new # None /\ sync.newMeta # None
    BY <1>4 DEF Rename, Typed, SyncHolds
  <2>2. sync' \in Syncs /\ sync'.pc = "meta" /\ sync'.newMeta = sync.newMeta
    BY <1>1, <1>4 DEF Rename, Syncs
  <2>3. SyncHolds'
    BY <2>1, <2>2 DEF SyncHolds
  <2> QED  BY <1>1, <1>4, <2>1, <2>2, <2>3 DEF Rename, TypeOK, Syncs
<1>5. CASE WriteMeta
  <2>1. UNCHANGED <<zip, index, kills>> /\ meta' = sync.newMeta
    BY <1>5 DEF WriteMeta
  <2>2. CASE sync.newIndex = None
    <3>1. sync' = AtRest("ok")
      BY <1>5, <2>2 DEF WriteMeta
    <3>2. sync' \in Syncs /\ sync'.pc = "ok"
      BY <1>3, <3>1 DEF Resting
    <3> QED  BY <1>1, <2>1, <3>2 DEF TypeOK, Syncs, SyncHolds
  <2>3. CASE sync.newIndex # None
    <3>1. sync' = [sync EXCEPT !.pc = "index"]
      BY <1>5, <2>3 DEF WriteMeta
    <3>2. sync' \in Syncs /\ sync'.pc = "index" /\ sync'.newIndex = sync.newIndex
      BY <1>1, <3>1 DEF Syncs
    <3> QED  BY <1>1, <2>1, <2>3, <3>2 DEF TypeOK, Syncs, SyncHolds
  <2> QED  BY <2>2, <2>3
<1>6. CASE WriteIndex
  <2>1. sync' \in Syncs /\ sync'.pc = "ok"
    BY <1>3, <1>6 DEF Resting, WriteIndex
  <2> QED  BY <1>1, <1>6, <2>1 DEF WriteIndex, TypeOK, Syncs, SyncHolds
<1>7. CASE Kill
  <2>1. kills' \in 0 .. MaxKills /\ UNCHANGED <<zip, index>> /\ meta' \in Metas \cup {None}
    BY <1>1, <1>7, BoundsAssumption DEF Kill, TypeOK
  <2>2. CASE sync' = AtRest("failed")
    <3>1. sync' \in Syncs /\ sync'.pc = "failed"
      BY <1>3, <2>2 DEF Resting
    <3> QED  BY <1>1, <2>1, <3>1 DEF TypeOK, SyncHolds
  <2>3. CASE sync' = [sync EXCEPT !.pc = "whole", !.updating = FALSE]
    <3>1. sync' \in Syncs /\ sync'.pc = "whole"
      BY <1>1, <2>3 DEF Syncs
    <3> QED  BY <1>1, <2>1, <3>1 DEF TypeOK, SyncHolds
  <2> QED  BY <1>7, <2>2, <2>3 DEF Kill
<1> QED  BY <1>4, <1>5, <1>6, <1>7

LEMMA ScanTyped ==
    ASSUME Typed, ScanBegins \/ Load \/ Store \/ ScanEnds
    PROVE  Typed'
<1>1. /\ scan \in Scans /\ TypeOK
      /\ zip \in Exports \cup {None} /\ meta \in Metas \cup {None}
      /\ cache \in [key : Exports, data : Exports] \cup {None}
  BY DEF Typed, TypeOK, Scans
<1>2. UNCHANGED <<upstream, disk, sync, kills>>
  BY DEF ScanBegins, Load, Store, ScanEnds
<1> SUFFICES /\ scan' \in Scans
             /\ cache' \in [key : Exports, data : Exports] \cup {None}
             /\ scan'.pc # "idle" => scan'.key # None /\ zip # None
             /\ scan'.pc \in {"store", "reused"} => scan'.data # None
             /\ scan'.pc = "reused" => scan'.claimed # 0
  BY <1>1, <1>2 DEF Typed, TypeOK, SyncHolds, ScanHolds, Scans, upstream, disk
<1>3. CASE ScanBegins
  <2>1. zip \in Exports /\ zip # None /\ cache' = cache
    BY <1>1, <1>3 DEF ScanBegins
  <2>2. DataIdentity \in Exports
    BY <1>1, <2>1 DEF DataIdentity, Metas
  <2>3. (IF meta = None THEN 1 ELSE meta.lm) \in Moments /\ 0 \notin Moments
    BY <1>1, BoundsAssumption DEF Metas, Moments
  <2>4. CASE Stored(DataIdentity)
    <3>1. scan' = [pc |-> "reused", key |-> DataIdentity, data |-> cache.data,
                   claimed |-> IF meta = None THEN 1 ELSE meta.lm]
      BY <1>3, <2>4 DEF ScanBegins
    <3>2. cache.data \in Exports
      BY <1>1, <2>4 DEF Stored
    <3> QED  BY <1>1, <2>1, <2>2, <2>3, <3>1, <3>2, NoneAssumption DEF Scans
  <2>5. CASE ~Stored(DataIdentity)
    <3>1. scan' = [pc |-> "load", key |-> DataIdentity, data |-> None, claimed |-> 0]
      BY <1>3, <2>5 DEF ScanBegins
    <3> QED  BY <1>1, <2>1, <2>2, <3>1, NoneAssumption DEF Scans
  <2> QED  BY <2>4, <2>5
<1>4. CASE Load
  <2>1. scan.pc = "load" /\ scan.key # None /\ zip # None /\ zip \in Exports /\ cache' = cache
    BY <1>1, <1>4 DEF Load, Typed, ScanHolds
  <2> QED  BY <1>1, <1>4, <2>1 DEF Load, Scans
<1>5. CASE Store
  <2>1. scan.key \in Exports /\ scan.data \in Exports
    BY <1>1, <1>5 DEF Store, Typed, ScanHolds, Scans
  <2> QED  BY <1>1, <1>5, <2>1 DEF Store, Scans
<1>6. CASE ScanEnds
  BY <1>1, <1>6 DEF ScanEnds, Scans
<1> QED  BY <1>3, <1>4, <1>5, <1>6

LEMMA TypedStep ==
    ASSUME Typed, [Next]_vars
    PROVE  Typed'
<1>1. CASE UNCHANGED vars
  BY <1>1 DEF vars, Typed, TypeOK, SyncHolds, ScanHolds
<1> QED  BY <1>1, ChangeTyped, SyncStartTyped, UpdateTyped, WholeTyped, WriteTyped, ScanTyped DEF Next

(***************************************************************************)
(* The variables have their types, whatever is killed and whatever lags.    *)
(***************************************************************************)
THEOREM TypeCorrect == Spec => []TypeOK
<1>1. Typed => TypeOK
  BY DEF Typed
<1> QED  BY <1>1, InitTyped, TypedStep, PTL DEF Spec

-----------------------------------------------------------------------------
(* Stories that grow. *)

\* One more moment, in which no record returns to what it was.
Grows(s, t) ==
    /\ Len(s) \in Nat \ {0} /\ Len(t) = Len(s) + 1
    /\ \A k \in 1 .. Len(s) : t[k] = s[k]
    /\ \A id \in Ids : t[Len(t)][id] # s[Len(s)][id] =>
         \A k \in 1 .. Len(s) : s[k][id] # t[Len(t)][id]

LEMMA ShownStays ==
    ASSUME NEW s, NEW t, Grows(s, t), NEW a
    PROVE  /\ Shown(s, a) => Shown(t, a)
           /\ \A m \in Nat \ {0} : Since(s, a, m) => Since(t, a, m)
<1>1. \A k \in 1 .. Len(s) : k \in 1 .. Len(t) /\ t[k] = s[k]
  BY DEF Grows
<1>2. ASSUME NEW m \in Nat \ {0}, NEW k \in m .. Len(s)
      PROVE  k \in m .. Len(t) /\ t[k] = s[k]
  BY <1>1, <1>2 DEF Grows
<1> QED  BY <1>1, <1>2 DEF Shown, Since

LEMMA FollowsStays ==
    ASSUME NEW s, NEW t, Grows(s, t), NEW a, NEW b, Shown(s, b), Follows(s, a, b)
    PROVE  Follows(t, a, b)
<1> SUFFICES ASSUME NEW id \in Ids, NEW k \in 1 .. Len(t), t[k][id] = b[id]
             PROVE  \E l \in k .. Len(t) : t[l][id] = a[id]
  BY DEF Follows
<1>1. Len(s) \in Nat \ {0} /\ Len(t) = Len(s) + 1 /\ \A j \in 1 .. Len(s) : t[j] = s[j]
  BY DEF Grows
<1>2. CASE k \in 1 .. Len(s)
  <2>1. PICK l \in k .. Len(s) : s[l][id] = a[id]
    BY <1>1, <1>2 DEF Follows
  <2>2. l \in k .. Len(t) /\ t[l][id] = a[id]
    BY <1>1, <1>2, <2>1
  <2> QED  BY <2>2
<1>3. CASE k = Len(t)
  <2>1. PICK j \in 1 .. Len(s) : s[j][id] = b[id]
    BY DEF Shown
  <2>2. s[Len(s)][id] = b[id]
    BY <1>3, <2>1 DEF Grows
  <2>3. PICK l \in Len(s) .. Len(s) : s[l][id] = a[id]
    BY <1>1, <2>2 DEF Follows
  <2>4. s[Len(s)][id] = a[id]
    BY <1>1, <2>3
  <2>5. t[Len(t)][id] = a[id] /\ Len(t) \in k .. Len(t)
    BY <1>1, <1>3, <2>2, <2>4
  <2> QED  BY <2>5
<1> QED  BY <1>1, <1>2, <1>3

LEMMA FollowsSince ==
    ASSUME NEW s, Len(s) \in Nat, NEW a, NEW b, Follows(s, a, b), NEW m \in 1 .. Len(s), Since(s, b, m)
    PROVE  Since(s, a, m)
<1> SUFFICES ASSUME NEW id \in Ids PROVE \E l \in m .. Len(s) : s[l][id] = a[id]
  BY DEF Since
<1>1. PICK k \in m .. Len(s) : s[k][id] = b[id]
  BY DEF Since
<1>2. PICK l \in k .. Len(s) : s[l][id] = a[id]
  BY <1>1 DEF Follows
<1>3. l \in m .. Len(s)
  BY <1>1, <1>2
<1> QED  BY <1>2, <1>3

LEMMA FollowsTrans ==
    ASSUME NEW s, Len(s) \in Nat, NEW a, NEW b, NEW c, Follows(s, a, b), Follows(s, b, c)
    PROVE  Follows(s, a, c)
<1> SUFFICES ASSUME NEW id \in Ids, NEW k \in 1 .. Len(s), s[k][id] = c[id]
             PROVE  \E l \in k .. Len(s) : s[l][id] = a[id]
  BY DEF Follows
<1>1. PICK j \in k .. Len(s) : s[j][id] = b[id]
  BY DEF Follows
<1>2. PICK l \in j .. Len(s) : s[l][id] = a[id]
  BY <1>1 DEF Follows
<1>3. l \in k .. Len(s)
  BY <1>1, <1>2
<1> QED  BY <1>2, <1>3

LEMMA FollowsSelf ==
    ASSUME NEW s, Len(s) \in Nat, NEW a
    PROVE  Follows(s, a, a)
BY DEF Follows

LEMMA MomentIsSince ==
    ASSUME NEW s, Len(s) \in Nat, NEW m \in 1 .. Len(s)
    PROVE  Since(s, s[m], m) /\ Shown(s, s[m])
BY DEF Since, Shown

LEMMA SinceEarlier ==
    ASSUME NEW s, Len(s) \in Nat, NEW a, NEW m \in Nat, NEW n \in Nat, n <= m, Since(s, a, m)
    PROVE  Since(s, a, n)
<1> SUFFICES ASSUME NEW id \in Ids PROVE \E l \in n .. Len(s) : s[l][id] = a[id]
  BY DEF Since
<1>1. PICK k \in m .. Len(s) : s[k][id] = a[id]
  BY DEF Since
<1>2. k \in n .. Len(s)
  BY <1>1
<1> QED  BY <1>1, <1>2

\* The present follows whatever there was.
LEMMA PresentFollows ==
    ASSUME NEW s, Len(s) \in Nat \ {0}, NEW b
    PROVE  Follows(s, s[Len(s)], b)
<1> SUFFICES ASSUME NEW id \in Ids, NEW k \in 1 .. Len(s)
             PROVE  Len(s) \in k .. Len(s)
  BY DEF Follows
<1> QED  OBVIOUS

(***************************************************************************)
(* What holds of metadata and index holds of the longer story, and of data  *)
(* that follows.                                                            *)
(***************************************************************************)
LEMMA MetaStays ==
    ASSUME NEW s, NEW t, Grows(s, t), NEW m \in Metas, NEW a
    PROVE  /\ MetaOf(s, m) => MetaOf(t, m)
           /\ MetaBelow(s, a, m) => MetaBelow(t, a, m)
<1>1. m.lm \in Nat \ {0}
  BY BoundsAssumption DEF Metas, Moments
<1> QED  BY <1>1, ShownStays, FollowsStays DEF MetaOf, MetaBelow

LEMMA IndexStays ==
    ASSUME NEW s, NEW t, Grows(s, t), NEW i, NEW a
    PROVE  /\ IndexOf(s, i) => IndexOf(t, i)
           /\ IndexBelow(s, a, i) => IndexBelow(t, a, i)
BY ShownStays, FollowsStays DEF IndexOf, IndexBelow

LEMMA BelowFollows ==
    ASSUME NEW s, Len(s) \in Nat, NEW a, NEW b, Follows(s, a, b), NEW m \in Metas, NEW i
    PROVE  /\ MetaBelow(s, b, m) /\ m.lm \in 1 .. Len(s) => MetaBelow(s, a, m)
           /\ IndexBelow(s, b, i) => IndexBelow(s, a, i)
BY FollowsSince, FollowsTrans DEF MetaBelow, IndexBelow

LEMMA ChangeGrows ==
    ASSUME Typed, InTime, Change
    PROVE  Grows(story, story') /\ \A m \in 1 .. Len(story'), id \in Ids : story'[m][id] <= m
<1>1. PICK id \in Ids, version \in {0, Len(story) + 1} :
        /\ version = 0 => \A m \in DOMAIN story : story[m][id] # 0
        /\ story' = Append(story, [Records EXCEPT ![id] = version])
  BY DEF Change
<1>2. story \in Seq(Exports) /\ Len(story) \in Nat \ {0} /\ DOMAIN story = 1 .. Len(story)
  BY ShownIsTyped DEF Typed, TypeOK, Moments
<1>3. Records = story[Len(story)] /\ Records \in Exports
  BY ShownIsTyped DEF Typed, Records
<1> DEFINE new == [Records EXCEPT ![id] = version]
<1>4. new \in [Ids -> 0 .. MaxStory] \/ version = Len(story) + 1
  BY <1>3, BoundsAssumption DEF Exports
<1>5. /\ Len(story') = Len(story) + 1 /\ story'[Len(story) + 1] = new
      /\ \A k \in 1 .. Len(story) : story'[k] = story[k]
  BY <1>1, <1>2
<1>6. new[id] = version /\ \A other \in Ids : other # id => new[other] = Records[other]
  BY <1>3 DEF Exports
<1> HIDE DEF new
<1>7. /\ \A k \in 1 .. Len(story) : story[k][id] # version
      /\ \A m \in 1 .. Len(story'), other \in Ids : story'[m][other] <= m
  <2>1. \A m \in 1 .. Len(story), other \in Ids : story[m][other] <= m /\ story[m][other] \in Nat
    BY <1>2, BoundsAssumption DEF InTime, Exports
  <2>2. \A k \in 1 .. Len(story) : story[k][id] # version
    BY <1>1, <1>2, <2>1
  <2>3. \A other \in Ids : new[other] <= Len(story) + 1
    BY <1>2, <1>3, <1>6, <2>1
  <2> QED  BY <1>2, <1>5, <2>1, <2>2, <2>3
<1>8. ASSUME NEW other \in Ids, story'[Len(story')][other] # story[Len(story)][other]
      PROVE  \A k \in 1 .. Len(story) : story[k][other] # story'[Len(story')][other]
  <2>1. story'[Len(story')] = new
    BY <1>2, <1>5
  <2>2. other = id
    BY <1>3, <1>6, <1>8, <2>1
  <2> QED  BY <1>6, <1>7, <2>1, <2>2
<1> QED  BY <1>2, <1>5, <1>7, <1>8 DEF Grows

-----------------------------------------------------------------------------
(* The invariant, action by action. *)

LEMMA InitInOrder == Init => InOrder
<1> SUFFICES ASSUME Init PROVE InOrder
  OBVIOUS
<1>1. PICK r \in [Ids -> {0, 1}] : story = <<r>>
  BY DEF Init
<1>2. Len(story) = 1 /\ story[1] = r
  BY <1>1
<1>3. /\ zip = None /\ meta = None /\ index = None /\ cache = None
      /\ sync.pc = "idle" /\ sync.since = 1 /\ sync.previous = None /\ scan.pc = "idle"
      /\ shown = [p \in Published |-> 1]
  BY DEF Init
<1>4. shown.listing = 1 /\ shown.export = 1
  BY <1>3 DEF Published
<1>5. \A id \in Ids : r[id] <= 1
  BY <1>1
<1>6. InTime
  BY <1>2, <1>3, <1>4, <1>5 DEF InTime
<1> QED  BY <1>3, <1>6 DEF InOrder, Fetching, Matched, Ordered, Fresh

\* The story goes on.
LEMMA ChangeInOrder ==
    ASSUME Typed, InOrder, Change
    PROVE  InOrder'
<1>1. Grows(story, story') /\ \A m \in 1 .. Len(story'), id \in Ids : story'[m][id] <= m
  BY ChangeGrows DEF InOrder
<1>2. UNCHANGED <<lag, disk, sync, kills, cache, scan>>
      /\ shown' = [p \in Published |-> IF p \in lag THEN shown[p] ELSE Len(story) + 1]
  BY DEF Change
<1>3. /\ meta \in Metas \cup {None} /\ index \in Indexes \cup {None} /\ sync \in Syncs /\ scan \in Scans
      /\ Len(story) \in Nat \ {0} /\ Len(story') = Len(story) + 1
      /\ shown.listing \in 1 .. Len(story) /\ shown.export \in 1 .. Len(story)
  BY <1>1, ShownIsTyped DEF Typed, TypeOK, Syncs, Scans, Grows
<1>4. sync.since \in Nat \ {0} /\ (sync.lm \in Nat) /\ (scan.claimed \in Nat)
  BY <1>3, BoundsAssumption DEF Syncs, Scans, Moments
<1>5. /\ sync.previous \in Metas \cup {None} /\ sync.newMeta \in Metas \cup {None}
      /\ sync.newIndex \in Indexes \cup {None}
  BY <1>3 DEF Syncs
<1>6. shown'.listing \in {shown.listing, Len(story) + 1} /\ shown'.export \in {shown.export, Len(story) + 1}
      /\ (lag = {} => shown'.listing = Len(story) + 1 /\ shown'.export = Len(story) + 1)
  BY <1>2 DEF Published
<1>7. InTime'
  <2>1. sync.since <= shown.listing /\ sync.since <= shown.export
    BY DEF InOrder, InTime
  <2> QED  BY <1>1, <1>2, <1>3, <1>4, <1>6, <2>1 DEF InTime
<1>8. Fetching'
  <2> SUFFICES ASSUME sync.pc = "fetch"
               PROVE  sync.lm \in sync.since .. Len(story') /\ sync.want = story'[sync.lm]
                      /\ sync.changed = Changed(sync.have, sync.want)
    BY <1>2, Zenon DEF Fetching, Changed
  <2>1. sync.lm \in sync.since .. Len(story) /\ sync.want = story[sync.lm]
        /\ sync.changed = Changed(sync.have, sync.want)
    BY DEF InOrder, Fetching
  <2> QED  BY <1>1, <1>3, <1>4, <2>1 DEF Grows
<1>9. \A a : /\ Shown(story, a) => Shown(story', a)
             /\ \A m \in Nat \ {0} : Since(story, a, m) => Since(story', a, m)
  BY <1>1, ShownStays
<1>10. \A a, b : Shown(story, b) /\ Follows(story, a, b) => Follows(story', a, b)
  BY <1>1, FollowsStays
<1>11. \A a : \A m \in Metas : (MetaOf(story, m) => MetaOf(story', m))
              /\ (MetaBelow(story, a, m) => MetaBelow(story', a, m))
  BY <1>1, MetaStays
<1>12. \A a, i : (IndexOf(story, i) => IndexOf(story', i))
              /\ (IndexBelow(story, a, i) => IndexBelow(story', a, i))
  BY <1>1, IndexStays
<1>13. kills = 0 => Matched'
  <2> SUFFICES ASSUME Matched, sync.pc \in {"rename", "meta"} => sync.newMeta \in Metas
               PROVE  Matched'
    BY <1>5 DEF InOrder, Typed, SyncHolds
  <2> QED  BY <1>2, <1>3, <1>4, <1>9, <1>11, <1>12 DEF Matched, disk
<1>14. lag = {} => Ordered'
  <2> SUFFICES ASSUME Ordered, sync.pc \in {"rename", "meta"} => sync.newMeta \in Metas,
                      sync.previous # None => sync.previous \in Metas
               PROVE  Ordered'
    BY <1>5 DEF InOrder, Typed, SyncHolds
  <2>1. sync.pc = "fetch" => Shown(story, sync.have) /\ Follows(story, zip, sync.have)
                             /\ (zip # None => Shown(story, zip)) /\ zip # None
    BY DEF Ordered, Typed, SyncHolds
  <2> QED  BY <1>2, <1>3, <1>4, <1>9, <1>10, <1>11, <1>12, <2>1 DEF Ordered, disk
<1>15. kills = 0 /\ lag = {} => Fresh'
  <2> SUFFICES ASSUME Fresh PROVE Fresh'
    BY DEF InOrder
  <2>1. scan.pc = "reused" => scan.claimed \in Nat \ {0}
    BY <1>4 DEF Typed, ScanHolds
  <2>2. UNCHANGED <<zip, meta, scan, cache>>
    BY <1>2 DEF disk
  <2>3. zip # None /\ meta # None => Shown(story', meta.sha) /\ Follows(story', zip, meta.sha)
    BY <1>9, <1>10, BoundsAssumption DEF Fresh
  <2>4. /\ scan.pc \in {"load", "store"} => Shown(story', scan.key)
        /\ scan.pc = "load" => Follows(story', zip, scan.key)
        /\ scan.pc = "store" => Shown(story', scan.data) /\ Follows(story', scan.data, scan.key)
        /\ scan.pc = "reused" => Since(story', scan.data, scan.claimed)
    BY <1>9, <1>10, <2>1 DEF Fresh
  <2>5. cache # None => Shown(story', cache.key) /\ Shown(story', cache.data)
                        /\ Follows(story', cache.data, cache.key)
    BY <1>9, <1>10 DEF Fresh
  <2> QED  BY <2>2, <2>3, <2>4, <2>5 DEF Fresh
<1> QED  BY <1>2, <1>7, <1>8, <1>13, <1>14, <1>15 DEF InOrder

LEMMA PublishInOrder ==
    ASSUME Typed, InOrder, Publish
    PROVE  InOrder'
<1>1. PICK p \in lag : shown[p] < Len(story) /\ shown' = [shown EXCEPT ![p] = Len(story)]
  BY DEF Publish
<1>2. UNCHANGED <<story, lag, disk, sync, kills, cache, scan>> /\ lag # {}
  BY DEF Publish
<1>3. shown \in [Published -> 1 .. Len(story)] /\ Len(story) \in Nat /\ sync.since \in Nat
  BY ShownIsTyped DEF Typed, TypeOK, Moments
<1>4. shown'.listing >= shown.listing /\ shown'.export >= shown.export
      /\ shown'.listing \in Nat /\ shown'.export \in Nat
      /\ shown.listing \in Nat /\ shown.export \in Nat
  BY <1>1, <1>3 DEF Published
<1>5. InTime'
  <2>1. sync.since <= shown.listing /\ sync.since <= shown.export
    BY DEF InOrder, InTime
  <2> QED  BY <1>2, <1>3, <1>4, <2>1 DEF InOrder, InTime
<1>6. Fetching' /\ (kills = 0 => Matched')
  BY <1>2 DEF InOrder, Fetching, Changed, Matched, disk
<1> QED  BY <1>2, <1>5, <1>6 DEF InOrder

(***************************************************************************)
(* A step of the sync that writes no file: what remains to be shown.        *)
(***************************************************************************)
LEMMA SyncOnlyInOrder ==
    ASSUME Typed, InOrder, UNCHANGED <<upstream, disk, kills, cache, scan>>,
           sync'.since <= shown.listing /\ sync'.since <= shown.export,
           Fetching', kills = 0 => Matched', lag = {} => Ordered'
    PROVE  InOrder'
<1>1. InTime'
  BY DEF InOrder, InTime, upstream
<1>2. kills = 0 /\ lag = {} => Fresh'
  BY DEF InOrder, Fresh, upstream, disk
<1> QED  BY <1>1, <1>2 DEF InOrder, upstream

LEMMA SyncStartInOrder ==
    ASSUME Typed, InOrder, SyncStart
    PROVE  InOrder'
<1>1. PICK force \in BOOLEAN :
        sync' = [AtRest(IF Previous(force) = None THEN "whole" ELSE "list")
                   EXCEPT !.previous = Previous(force), !.updating = Previous(force) # None,
                          !.since = IF shown.listing < shown.export
                                    THEN shown.listing ELSE shown.export]
  BY DEF SyncStart
<1> DEFINE since == IF shown.listing < shown.export THEN shown.listing ELSE shown.export
           pc == IF Previous(force) = None THEN "whole" ELSE "list"
<1>2. /\ sync'.pc = pc /\ sync'.since = since /\ sync'.previous = Previous(force)
  BY <1>1 DEF AtRest
<1>3. UNCHANGED <<upstream, disk, kills, cache, scan>>
  BY DEF SyncStart
<1>4. since <= shown.listing /\ since <= shown.export
  BY ShownIsTyped DEF Typed
<1>5. Previous(force) # None => zip # None /\ Previous(force) = meta
  BY PreviousIsTyped DEF Typed
<1>6. pc \in {"whole", "list"} /\ sync.pc \in Resting
  BY DEF SyncStart
<1> HIDE DEF pc, since
<1>7. Fetching'
  BY <1>2, <1>6 DEF Fetching
<1>8. kills = 0 => Matched'
  BY <1>2, <1>3, <1>5, <1>6 DEF InOrder, Matched, upstream, disk, Resting
<1>9. lag = {} => Ordered'
  BY <1>2, <1>3, <1>5, <1>6 DEF InOrder, Ordered, upstream, disk
<1> QED  BY <1>2, <1>3, <1>4, <1>7, <1>8, <1>9, SyncOnlyInOrder

LEMMA FailInOrder ==
    ASSUME Typed, InOrder, Fallback \/ WholeFailed
    PROVE  InOrder'
<1>1. UNCHANGED <<upstream, disk, kills, cache, scan>>
  BY DEF Fallback, WholeFailed
<1>2. sync \in Syncs
  BY DEF Typed, TypeOK, Syncs
<1>3. /\ sync'.since = sync.since /\ sync'.pc \in {"whole", "failed"}
      /\ sync'.previous = sync.previous \/ sync'.previous = None
      /\ sync.pc \in {"list", "fetch", "whole"}
  <2>1. CASE Fallback
    BY <1>2, <2>1 DEF Fallback, Syncs
  <2>2. CASE WholeFailed
    BY <2>2 DEF WholeFailed, AtRest
  <2> QED  BY <2>1, <2>2
<1>4. sync'.since <= shown.listing /\ sync'.since <= shown.export
  BY <1>3 DEF InOrder, InTime
<1>5. Fetching'
  BY <1>3 DEF Fetching
<1>6. kills = 0 => Matched'
  BY <1>1, <1>3 DEF InOrder, Matched, upstream, disk
<1>7. lag = {} => Ordered'
  BY <1>1, <1>3 DEF InOrder, Ordered, upstream, disk
<1> QED  BY <1>1, <1>4, <1>5, <1>6, <1>7, SyncOnlyInOrder

(***************************************************************************)
(* Data found unchanged goes on to the metadata: it is as new as what       *)
(* osv.dev showed when the sync began.                                      *)
(***************************************************************************)
LEMMA WriteNextInOrder ==
    ASSUME Typed, InOrder, UNCHANGED <<upstream, disk, kills, cache, scan>>,
           kills = 0 \/ lag = {} => zip # None, sync.pc \in {"list", "whole"},
           NEW m \in Metas, NEW i \in Indexes \cup {None}, sync' = WriteNext(m, i),
           kills = 0 => /\ m.sha = zip /\ MetaOf(story, m) /\ Since(story, zip, sync.since)
                        /\ (i # None => IndexOf(story, i)),
           lag = {} => /\ Since(story, zip, sync.since) /\ MetaBelow(story, zip, m)
                       /\ (i # None => IndexBelow(story, zip, i))
    PROVE  InOrder'
<1>1. sync \in Syncs
  BY DEF Typed, TypeOK, Syncs
<1>2. /\ sync'.pc = "meta" /\ sync'.since = sync.since /\ sync'.previous = sync.previous
      /\ sync'.newMeta = m /\ sync'.newIndex = i
  BY <1>1 DEF WriteNext, Syncs
<1>3. sync'.since <= shown.listing /\ sync'.since <= shown.export
  BY <1>2 DEF InOrder, InTime
<1>4. Fetching'
  BY <1>2 DEF Fetching
<1>5. kills = 0 => Matched'
  BY <1>2 DEF InOrder, Matched, upstream, disk
<1>6. lag = {} => Ordered'
  BY <1>2 DEF InOrder, Ordered, upstream, disk
<1> QED  BY <1>3, <1>4, <1>5, <1>6, SyncOnlyInOrder

LEMMA ListingUnchangedInOrder ==
    ASSUME Typed, InOrder, ListingUnchanged
    PROVE  InOrder'
<1>1. UNCHANGED <<upstream, disk, kills, cache, scan>>
      /\ sync.pc = "list" /\ sync' = WriteNext(sync.previous, None)
      /\ index # None /\ index.sha = sync.previous.sha /\ index.etag = Listing
  BY DEF ListingUnchanged, ReadIndex, Touched
<1>2. zip # None /\ sync.previous # None /\ sync.previous \in Metas
  BY <1>1 DEF Typed, SyncHolds, TypeOK
<1>3. /\ Len(story) \in Nat \ {0} /\ Listing = story[shown.listing]
      /\ shown.listing \in sync.since .. Len(story) /\ sync.since \in Nat \ {0}
  BY ShownIsTyped, BoundsAssumption DEF Typed, TypeOK, InOrder, InTime, Moments, Listing
<1>4. ASSUME NEW a, Follows(story, a, Listing) PROVE Since(story, a, sync.since)
  BY <1>3, <1>4, MomentIsSince, FollowsSince, SinceEarlier
<1>5. kills = 0 => /\ sync.previous.sha = zip /\ MetaOf(story, sync.previous)
                   /\ Since(story, zip, sync.since)
  BY <1>1, <1>2, <1>4 DEF InOrder, Matched, IndexOf
<1>6. lag = {} => /\ Since(story, zip, sync.since) /\ MetaBelow(story, zip, sync.previous)
  BY <1>1, <1>2, <1>4 DEF InOrder, Ordered, IndexBelow
<1> QED  BY <1>1, <1>2, <1>5, <1>6, WriteNextInOrder

LEMMA ListingReadInOrder ==
    ASSUME Typed, InOrder, ListingRead
    PROVE  InOrder'
<1> DEFINE known == ReadIndex(sync.previous)
           have == IF known # None THEN known.modified ELSE zip
           updated == [Touched(sync.previous) EXCEPT !.lm = shown.listing]
           i == [sha |-> updated.sha, etag |-> Listing, modified |-> have]
<1>1. UNCHANGED <<upstream, disk, kills, cache, scan>> /\ sync.pc = "list"
  BY DEF ListingRead
<1>2. /\ zip # None /\ sync.previous # None /\ sync.previous \in Metas /\ sync \in Syncs
      /\ zip \in Exports
  BY <1>1 DEF Typed, SyncHolds, TypeOK, Syncs
<1>3. /\ Len(story) \in Nat \ {0} /\ Listing = story[shown.listing] /\ Listing \in Exports
      /\ shown.listing \in sync.since .. Len(story) /\ sync.since \in Nat \ {0}
      /\ shown.listing \in Moments /\ shown.listing \in 1 .. Len(story)
  BY ShownIsTyped, BoundsAssumption DEF Typed, TypeOK, InOrder, InTime, Moments, Listing
<1>4. known # None => known = index /\ index # None /\ index.sha = sync.previous.sha /\ index \in Indexes
  BY DEF ReadIndex, Typed, TypeOK
<1>5. have \in Exports
  BY <1>2, <1>4 DEF Indexes
<1>6. kills = 0 => have = zip /\ MetaOf(story, sync.previous) /\ sync.previous.sha = zip
  BY <1>1, <1>2, <1>4 DEF InOrder, Matched, IndexOf
<1>7. lag = {} => /\ Shown(story, have) /\ Follows(story, zip, have) /\ Follows(story, Listing, zip)
                  /\ Shown(story, zip) /\ MetaBelow(story, zip, sync.previous)
  <2> SUFFICES ASSUME lag = {} PROVE /\ Shown(story, have) /\ Follows(story, zip, have)
                                     /\ Follows(story, Listing, zip)
                                     /\ Shown(story, zip) /\ MetaBelow(story, zip, sync.previous)
    OBVIOUS
  <2>1. Shown(story, zip) /\ MetaBelow(story, zip, sync.previous)
    BY <1>2 DEF InOrder, Ordered
  <2>2. Listing = story[Len(story)]
    BY <1>3 DEF InOrder, InTime
  <2>3. Follows(story, Listing, zip)
    BY <1>3, <2>2, PresentFollows
  <2>4. CASE known = None
    BY <1>3, <2>1, <2>3, <2>4, FollowsSelf
  <2>5. CASE known # None
    BY <1>2, <1>4, <2>1, <2>3, <2>5 DEF InOrder, Ordered, IndexBelow
  <2> QED  BY <2>4, <2>5
<1>8. ASSUME NEW a, Follows(story, a, Listing)
      PROVE  Since(story, a, shown.listing) /\ Since(story, a, sync.since)
  BY <1>3, <1>8, MomentIsSince, FollowsSince, SinceEarlier
<1>9. Shown(story, Listing)
  BY <1>3 DEF Shown
<1>10. updated \in Metas /\ updated.lm = shown.listing /\ updated.sha = sync.previous.sha
       /\ updated.etag = sync.previous.etag
  BY <1>2, <1>3 DEF Touched, Metas
<1>11. i \in Indexes /\ i # None /\ i.sha = sync.previous.sha /\ i.etag = Listing /\ i.modified = have
  BY <1>2, <1>3, <1>5, <1>10, NoneAssumption DEF Indexes, Metas
<1>12. \/ /\ Changed(have, Listing) \cup Removed(have, Listing) = {}
          /\ sync' = WriteNext(updated, i)
       \/ sync' = [sync EXCEPT !.pc = "fetch", !.changed = Changed(have, Listing),
                               !.want = Listing, !.have = have, !.lm = shown.listing]
  BY DEF ListingRead
<1> HIDE DEF known, have, updated, i
<1>13. CASE /\ Changed(have, Listing) \cup Removed(have, Listing) = {}
            /\ sync' = WriteNext(updated, i)
  <2>1. have = Listing
    <3>1. \A id \in Ids : have[id] = Listing[id]
      BY <1>13 DEF Changed, Removed
    <3> QED  BY <1>3, <1>5, <3>1 DEF Exports
  <2>2. kills = 0 => /\ updated.sha = zip /\ MetaOf(story, updated)
                     /\ Since(story, zip, sync.since) /\ IndexOf(story, i)
    BY <1>3, <1>6, <1>8, <1>9, <1>10, <1>11, <2>1, FollowsSelf DEF MetaOf, IndexOf
  <2>3. lag = {} => /\ Since(story, zip, sync.since) /\ MetaBelow(story, zip, updated)
                    /\ IndexBelow(story, zip, i)
    BY <1>7, <1>8, <1>9, <1>10, <1>11, <2>1 DEF MetaBelow, IndexBelow
  <2> QED  BY <1>1, <1>2, <1>10, <1>11, <1>13, <2>2, <2>3, WriteNextInOrder
<1>14. CASE sync' = [sync EXCEPT !.pc = "fetch", !.changed = Changed(have, Listing),
                                 !.want = Listing, !.have = have, !.lm = shown.listing]
  <2>1. /\ sync'.pc = "fetch" /\ sync'.changed = Changed(have, Listing) /\ sync'.want = Listing
        /\ sync'.have = have /\ sync'.lm = shown.listing
        /\ sync'.since = sync.since /\ sync'.previous = sync.previous
    BY <1>2, <1>14 DEF Syncs
  <2>2. Fetching'
    BY <1>1, <1>3, <2>1 DEF Fetching, Changed, upstream
  <2>3. kills = 0 => Matched'
    BY <1>1, <1>2, <1>6, <2>1 DEF InOrder, Matched, upstream, disk
  <2>4. lag = {} => Ordered'
    BY <1>1, <1>2, <1>7, <2>1 DEF InOrder, Ordered, upstream, disk
  <2>5. sync'.since <= shown.listing /\ sync'.since <= shown.export
    BY <2>1 DEF InOrder, InTime
  <2> QED  BY <1>1, <2>2, <2>3, <2>4, <2>5, SyncOnlyInOrder
<1> QED  BY <1>12, <1>13, <1>14

(***************************************************************************)
(* The rewritten export is at least as new as the listing it was made for:  *)
(* what was fetched is the present, and what was copied is no older than    *)
(* what was compared with the listing.                                      *)
(***************************************************************************)
LEMMA RewrittenFollows ==
    ASSUME Typed, InOrder, sync.pc = "fetch", Follows(story, zip, sync.have)
    PROVE  /\ Follows(story, Rewritten(zip), sync.want)
           /\ Follows(story, Rewritten(zip), Rewritten(sync.have))
           /\ Follows(story, sync.want, zip) => Follows(story, Rewritten(zip), zip)
<1>1. /\ Len(story) \in Nat \ {0} /\ Records = story[Len(story)]
      /\ sync.changed = {id \in Ids : sync.want[id] # 0 /\ sync.have[id] # sync.want[id]}
  BY ShownIsTyped DEF Typed, InOrder, Fetching, Changed, Moments, Records
<1>2. /\ \A id \in sync.changed : /\ Rewritten(zip)[id] = story[Len(story)][id]
                                  /\ Rewritten(sync.have)[id] = story[Len(story)][id]
      /\ \A id \in Ids \ sync.changed :
            \/ /\ sync.want[id] = 0
               /\ Rewritten(zip)[id] = sync.want[id] /\ Rewritten(sync.have)[id] = sync.want[id]
            \/ /\ sync.want[id] = sync.have[id]
               /\ Rewritten(zip)[id] = zip[id] /\ Rewritten(sync.have)[id] = sync.have[id]
  BY <1>1 DEF Rewritten, Retained
<1>3. ASSUME NEW id \in Ids, NEW k \in 1 .. Len(story), NEW a
      PROVE  /\ id \in sync.changed => \E l \in k .. Len(story) : story[l][id] = Rewritten(zip)[id]
             /\ story[k][id] = a[id] => \E l \in k .. Len(story) : story[l][id] = a[id]
  <2>1. Len(story) \in k .. Len(story) /\ k \in k .. Len(story)
    BY <1>1
  <2> QED  BY <1>2, <2>1
<1>4. \A id \in Ids : \A k \in 1 .. Len(story) :
        story[k][id] = sync.have[id] => \E l \in k .. Len(story) : story[l][id] = zip[id]
  BY DEF Follows
<1>5. Follows(story, Rewritten(zip), sync.want)
  <2> SUFFICES ASSUME NEW id \in Ids, NEW k \in 1 .. Len(story), story[k][id] = sync.want[id]
               PROVE  \E l \in k .. Len(story) : story[l][id] = Rewritten(zip)[id]
    BY DEF Follows
  <2>1. CASE id \in sync.changed
    BY <1>3, <2>1
  <2>2. CASE Rewritten(zip)[id] = sync.want[id]
    BY <1>3, <2>2
  <2>3. CASE sync.want[id] = sync.have[id] /\ Rewritten(zip)[id] = zip[id]
    BY <1>4, <2>3
  <2> QED  BY <1>2, <2>1, <2>2, <2>3
<1>6. Follows(story, Rewritten(zip), Rewritten(sync.have))
  <2> SUFFICES ASSUME NEW id \in Ids, NEW k \in 1 .. Len(story),
                      story[k][id] = Rewritten(sync.have)[id]
               PROVE  \E l \in k .. Len(story) : story[l][id] = Rewritten(zip)[id]
    BY DEF Follows
  <2>1. CASE Rewritten(zip)[id] = Rewritten(sync.have)[id]
    BY <1>3, <2>1
  <2>2. CASE Rewritten(zip)[id] = zip[id] /\ Rewritten(sync.have)[id] = sync.have[id]
    BY <1>4, <2>2
  <2> QED  BY <1>2, <2>1, <2>2
<1>7. ASSUME Follows(story, sync.want, zip)
      PROVE  Follows(story, Rewritten(zip), zip)
  <2> SUFFICES ASSUME NEW id \in Ids, NEW k \in 1 .. Len(story), story[k][id] = zip[id]
               PROVE  \E l \in k .. Len(story) : story[l][id] = Rewritten(zip)[id]
    BY DEF Follows
  <2>1. CASE id \in sync.changed
    BY <1>3, <2>1
  <2>2. CASE Rewritten(zip)[id] = sync.want[id]
    BY <1>7, <2>2 DEF Follows
  <2>3. CASE Rewritten(zip)[id] = zip[id]
    BY <1>3, <2>3
  <2> QED  BY <1>2, <2>1, <2>2, <2>3
<1> QED  BY <1>5, <1>6, <1>7

LEMMA FetchInOrder ==
    ASSUME Typed, InOrder, Fetch
    PROVE  InOrder'
<1> DEFINE new == Rewritten(zip)
           was == Rewritten(sync.have)
           m == [etag |-> None, lm |-> sync.lm, sha |-> new, size |-> Size(new)]
           i == [sha |-> new, etag |-> sync.want, modified |-> was]
<1>1. UNCHANGED <<upstream, disk, kills, cache, scan>> /\ sync.pc = "fetch"
      /\ sync' = [sync EXCEPT !.pc = "rename", !.new = new, !.newMeta = m, !.newIndex = i]
  BY DEF Fetch
<1>2. /\ zip # None /\ sync \in Syncs /\ sync.want \in Exports /\ sync.have \in Exports /\ sync.lm \in Moments
      /\ zip \in Exports
  BY <1>1 DEF Typed, SyncHolds, TypeOK, Syncs
<1>3. new \in Exports /\ was \in Exports
  BY <1>2, RewrittenIsTyped DEF Typed
<1>4. /\ Len(story) \in Nat \ {0} /\ sync.since \in Nat \ {0}
      /\ sync.lm \in sync.since .. Len(story) /\ sync.want = story[sync.lm]
      /\ sync.lm \in 1 .. Len(story)
  BY <1>1, <1>2, ShownIsTyped, BoundsAssumption DEF Typed, TypeOK, InOrder, Fetching, Moments, Syncs
<1>5. Shown(story, sync.want)
  BY <1>4 DEF Shown
<1>6. ASSUME NEW a, Follows(story, a, sync.want)
      PROVE  Since(story, a, sync.lm) /\ Since(story, a, sync.since) /\ Shown(story, a)
  <2>1. Since(story, a, sync.lm)
    BY <1>4, <1>6, MomentIsSince, FollowsSince
  <2>2. Since(story, a, sync.since) /\ Since(story, a, 1)
    BY <1>4, <2>1, SinceEarlier
  <2> QED  BY <2>1, <2>2 DEF Since, Shown
<1>7. Follows(story, zip, sync.have) => /\ Follows(story, new, sync.want) /\ Follows(story, new, was)
                                        /\ Follows(story, sync.want, zip) => Follows(story, new, zip)
  BY <1>1, RewrittenFollows
<1>8. lag = {} => Shown(story, was)
  <2> SUFFICES ASSUME lag = {}, NEW id \in Ids
               PROVE  \E k \in 1 .. Len(story) : story[k][id] = was[id]
    BY DEF Shown
  <2>1. Records = story[Len(story)] /\ Len(story) \in 1 .. Len(story)
    BY <1>4 DEF Records
  <2>2. was[id] \in {story[Len(story)][id], sync.want[id], sync.have[id]}
    <3>1. sync.want[id] = 0 => was[id] \in {story[Len(story)][id], sync.want[id]}
      BY <2>1 DEF Rewritten, Retained
    <3>2. sync.want[id] # 0 => was[id] \in {story[Len(story)][id], sync.have[id]}
      BY <2>1 DEF Rewritten, Retained
    <3> QED  BY <3>1, <3>2
  <2>3. Shown(story, sync.have)
    BY <1>1 DEF InOrder, Ordered
  <2> QED  BY <1>5, <2>1, <2>2, <2>3 DEF Shown
<1> HIDE DEF new, was
<1>9. /\ m \in Metas /\ m # None /\ m.lm = sync.lm /\ m.sha = new /\ m.etag = None
      /\ i \in Indexes /\ i # None /\ i.sha = new /\ i.etag = sync.want /\ i.modified = was
  BY <1>2, <1>3, NoneAssumption DEF Metas, Indexes
<1> HIDE DEF m, i
<1>10. /\ sync'.pc = "rename" /\ sync'.new = new /\ sync'.newMeta = m /\ sync'.newIndex = i
       /\ sync'.since = sync.since /\ sync'.previous = sync.previous
  BY <1>1, <1>2 DEF Syncs
<1>11. Fetching'
  BY <1>10 DEF Fetching
<1>12. kills = 0 => Matched'
  <2> SUFFICES ASSUME kills = 0, Matched PROVE Matched'
    BY DEF InOrder
  <2>1. sync.have = zip /\ meta # None /\ meta.sha = zip
    BY <1>1, <1>2 DEF Matched
  <2>2. Follows(story, new, sync.want) /\ was = new
    BY <1>4, <1>7, <2>1, FollowsSelf DEF new, was
  <2>3. MetaOf(story, m) /\ Since(story, new, sync.since)
    BY <1>6, <1>9, <2>2 DEF MetaOf
  <2>4. IndexOf(story, i)
    BY <1>5, <1>9, <2>2 DEF IndexOf
  <2> QED  BY <1>1, <1>2, <1>9, <1>10, <2>1, <2>3, <2>4 DEF Matched, upstream, disk
<1>13. lag = {} => Ordered'
  <2> SUFFICES ASSUME lag = {}, Ordered PROVE Ordered'
    BY DEF InOrder
  <2>1. Follows(story, zip, sync.have) /\ Follows(story, sync.want, zip)
    BY <1>1 DEF Ordered
  <2>2. Follows(story, new, sync.want) /\ Follows(story, new, was) /\ Follows(story, new, zip)
    BY <1>7, <2>1
  <2>3. Shown(story, new) /\ Since(story, new, sync.since) /\ MetaBelow(story, new, m)
    BY <1>6, <1>9, <2>2 DEF MetaBelow
  <2>4. IndexBelow(story, new, i)
    BY <1>5, <1>8, <1>9, <2>2 DEF IndexBelow
  <2> QED  BY <1>1, <1>2, <1>10, <2>2, <2>3, <2>4 DEF Ordered, upstream, disk
<1>14. sync'.since <= shown.listing /\ sync'.since <= shown.export
  BY <1>10 DEF InOrder, InTime
<1> QED  BY <1>1, <1>11, <1>12, <1>13, <1>14, SyncOnlyInOrder

LEMMA WholeInOrder ==
    ASSUME Typed, InOrder, WholeUnchanged \/ WholeFetched
    PROVE  InOrder'
<1>1. UNCHANGED <<upstream, disk, kills, cache, scan>> /\ sync.pc = "whole"
  BY DEF WholeUnchanged, WholeFetched
<1>2. sync \in Syncs
  BY DEF Typed, TypeOK, Syncs
<1>3. /\ Len(story) \in Nat \ {0} /\ Export = story[shown.export] /\ Export \in Exports
      /\ shown.export \in sync.since .. Len(story) /\ sync.since \in Nat \ {0}
      /\ shown.export \in Moments /\ shown.export \in 1 .. Len(story)
  BY ShownIsTyped, BoundsAssumption DEF Typed, TypeOK, InOrder, InTime, Moments, Export
<1>4. ASSUME NEW a, Follows(story, a, Export)
      PROVE  Since(story, a, shown.export) /\ Since(story, a, sync.since)
  BY <1>3, <1>4, MomentIsSince, FollowsSince, SinceEarlier
<1>5. Follows(story, Export, Export) /\ Shown(story, Export)
  BY <1>3, FollowsSelf DEF Shown
<1>6. CASE WholeUnchanged
  <2>1. /\ sync' = WriteNext(sync.previous, None)
        /\ sync.previous # None /\ sync.previous \in Metas /\ sync.previous.etag = Export
        /\ sync.previous.etag # None
    BY <1>2, <1>3, <1>6, NoneAssumption DEF WholeUnchanged, Touched, Syncs
  <2>2. kills = 0 => /\ zip # None /\ sync.previous.sha = zip /\ MetaOf(story, sync.previous)
                     /\ Since(story, zip, sync.since)
    <3> SUFFICES ASSUME kills = 0, Matched
                 PROVE  /\ zip # None /\ sync.previous.sha = zip /\ MetaOf(story, sync.previous)
                        /\ Since(story, zip, sync.since)
      BY DEF InOrder
    <3>1. zip # None /\ sync.previous.sha = zip /\ MetaOf(story, sync.previous)
      BY <1>1, <2>1 DEF Matched
    <3>2. zip = Export
      BY <2>1, <3>1 DEF MetaOf
    <3> QED  BY <1>4, <1>5, <3>1, <3>2
  <2>3. lag = {} => zip # None /\ Since(story, zip, sync.since) /\ MetaBelow(story, zip, sync.previous)
    BY <1>4, <2>1 DEF InOrder, Ordered, MetaBelow
  <2> QED  BY <1>1, <2>1, <2>2, <2>3, WriteNextInOrder
<1>7. CASE WholeFetched
  <2> DEFINE m == [etag |-> Export, lm |-> shown.export, sha |-> Export, size |-> Size(Export)]
  <2>1. m \in Metas /\ m.etag = Export /\ m.lm = shown.export /\ m.sha = Export
    BY <1>3 DEF Metas
  <2>2. sync' = [sync EXCEPT !.pc = "rename", !.new = Export, !.newMeta = m, !.newIndex = None]
    BY <1>7 DEF WholeFetched
  <2> HIDE DEF m
  <2>3. /\ sync'.pc = "rename" /\ sync'.new = Export /\ sync'.newMeta = m /\ sync'.newIndex = None
        /\ sync'.since = sync.since /\ sync'.previous = sync.previous
    BY <1>2, <2>2 DEF Syncs
  <2>4. Fetching'
    BY <2>3 DEF Fetching
  <2>5. kills = 0 => Matched'
    BY <1>1, <1>4, <1>5, <2>1, <2>3 DEF InOrder, Matched, MetaOf, upstream, disk
  <2>6. lag = {} => Ordered'
    <3> SUFFICES ASSUME lag = {}, Ordered PROVE Ordered'
      BY DEF InOrder
    <3>1. Export = story[Len(story)]
      BY <1>3 DEF InOrder, InTime
    <3>2. Follows(story, Export, zip)
      BY <1>3, <3>1, PresentFollows
    <3>3. MetaBelow(story, Export, m) /\ Since(story, Export, sync.since)
      BY <1>4, <1>5, <2>1 DEF MetaBelow
    <3> QED  BY <1>1, <1>5, <2>3, <3>2, <3>3 DEF Ordered, upstream, disk
  <2>7. sync'.since <= shown.listing /\ sync'.since <= shown.export
    BY <2>3 DEF InOrder, InTime
  <2> QED  BY <1>1, <2>4, <2>5, <2>6, <2>7, SyncOnlyInOrder
<1> QED  BY <1>6, <1>7

\* What data follows has its metadata below it as well.
LEMMA MetaFollows ==
    ASSUME Len(story) \in Nat, NEW a, NEW b, Follows(story, a, b), NEW m \in Metas, MetaBelow(story, b, m)
    PROVE  MetaBelow(story, a, m)
<1>1. m.lm \in Nat \ {0}
  BY BoundsAssumption DEF Metas, Moments
<1>2. PICK id \in Ids : TRUE
  BY IdsAssumption
<1>3. \E k \in m.lm .. Len(story) : story[k][id] = b[id]
  BY <1>2 DEF MetaBelow, Since
<1>4. m.lm \in 1 .. Len(story)
  BY <1>1, <1>3
<1> QED  BY <1>4, BelowFollows

LEMMA RenameInOrder ==
    ASSUME Typed, InOrder, Rename
    PROVE  InOrder'
<1>1. /\ sync.pc = "rename" /\ zip' = sync.new /\ sync' = [sync EXCEPT !.pc = "meta"]
      /\ UNCHANGED <<upstream, meta, index, kills, cache, scan>>
  BY DEF Rename
<1>2. /\ sync \in Syncs /\ meta \in Metas \cup {None} /\ sync.new # None /\ sync.newMeta # None
      /\ sync.previous \in Metas \cup {None} /\ Len(story) \in Nat
  BY <1>1, ShownIsTyped DEF Typed, TypeOK, Syncs, SyncHolds
<1>3. /\ sync'.pc = "meta" /\ sync'.new = sync.new /\ sync'.newMeta = sync.newMeta
      /\ sync'.newIndex = sync.newIndex /\ sync'.since = sync.since /\ sync'.previous = sync.previous
  BY <1>1, <1>2 DEF Syncs
<1>4. InTime' /\ Fetching'
  BY <1>1, <1>3 DEF InOrder, InTime, Fetching, upstream
<1>5. kills = 0 => Matched'
  <2> SUFFICES ASSUME Matched PROVE Matched'
    BY DEF InOrder
  <2>1. /\ sync.newMeta.sha = sync.new
        /\ MetaOf(story, sync.newMeta) /\ Since(story, sync.newMeta.sha, sync.since)
        /\ sync.newIndex # None => IndexOf(story, sync.newIndex)
    BY <1>1 DEF Matched
  <2>2. (meta # None => MetaOf(story, meta)) /\ (index # None => IndexOf(story, index))
    BY DEF Matched
  <2> QED  BY <1>1, <1>2, <1>3, <2>1, <2>2 DEF Matched, upstream
<1>6. lag = {} => Ordered'
  <2> SUFFICES ASSUME Ordered PROVE Ordered'
    BY DEF InOrder
  <2>1. /\ Shown(story, sync.new) /\ (zip # None => Follows(story, sync.new, zip))
        /\ MetaBelow(story, sync.new, sync.newMeta) /\ Since(story, sync.new, sync.since)
        /\ sync.newIndex # None => IndexBelow(story, sync.new, sync.newIndex)
    BY <1>1 DEF Ordered
  <2>2. /\ meta # None => MetaBelow(story, sync.new, meta)
        /\ sync.previous # None => MetaBelow(story, sync.new, sync.previous)
        /\ index # None => IndexBelow(story, sync.new, index)
    BY <1>2, <2>1, MetaFollows, FollowsTrans DEF Ordered, IndexBelow
  <2> QED  BY <1>1, <1>2, <1>3, <2>1, <2>2 DEF Ordered, upstream
<1>7. kills = 0 /\ lag = {} => Fresh'
  <2> SUFFICES ASSUME Ordered, Fresh PROVE Fresh'
    BY DEF InOrder
  <2>1. zip # None => Follows(story, sync.new, zip)
    BY <1>1 DEF Ordered
  <2>2. meta # None => zip # None /\ Shown(story, meta.sha) /\ Follows(story, sync.new, meta.sha)
    BY <1>2, <2>1, FollowsTrans DEF Ordered, Fresh
  <2>3. scan.pc = "load" => Follows(story, sync.new, scan.key)
    BY <1>2, <2>1, FollowsTrans DEF Fresh, Typed, ScanHolds
  <2> QED  BY <1>1, <2>2, <2>3 DEF Fresh, upstream
<1> QED  BY <1>1, <1>4, <1>5, <1>6, <1>7 DEF InOrder, upstream

LEMMA WriteMetaInOrder ==
    ASSUME Typed, InOrder, WriteMeta
    PROVE  InOrder'
<1>1. /\ sync.pc = "meta" /\ meta' = sync.newMeta
      /\ sync' = IF sync.newIndex = None THEN AtRest("ok") ELSE [sync EXCEPT !.pc = "index"]
      /\ UNCHANGED <<upstream, zip, index, kills, cache, scan>>
  BY DEF WriteMeta
<1>2. sync \in Syncs /\ sync.newMeta # None /\ Len(story) \in Nat
  BY <1>1, ShownIsTyped DEF Typed, TypeOK, Syncs, SyncHolds
<1>3. /\ sync'.since = sync.since
      /\ \/ sync'.pc = "ok" /\ sync'.previous = None /\ sync'.newIndex = None
         \/ sync'.pc = "index" /\ sync'.previous = sync.previous /\ sync'.newIndex = sync.newIndex
  <2>1. CASE sync.newIndex = None
    BY <1>1, <2>1 DEF AtRest
  <2>2. CASE sync.newIndex # None
    BY <1>1, <1>2, <2>2 DEF Syncs
  <2> QED  BY <2>1, <2>2
<1>4. InTime' /\ Fetching'
  BY <1>1, <1>3 DEF InOrder, InTime, Fetching, upstream
<1>5. kills = 0 => Matched'
  <2> SUFFICES ASSUME Matched PROVE Matched'
    BY DEF InOrder
  <2>1. /\ zip # None /\ sync.newMeta.sha = zip
        /\ MetaOf(story, sync.newMeta) /\ Since(story, sync.newMeta.sha, sync.since)
        /\ sync.newIndex # None => IndexOf(story, sync.newIndex)
        /\ index # None => IndexOf(story, index)
    BY <1>1 DEF Matched
  <2> QED  BY <1>1, <1>2, <1>3, <2>1 DEF Matched, upstream
<1>6. lag = {} => Ordered'
  <2> SUFFICES ASSUME Ordered PROVE Ordered'
    BY DEF InOrder
  <2>1. /\ zip # None /\ Shown(story, zip) /\ Since(story, zip, sync.since)
        /\ MetaBelow(story, zip, sync.newMeta)
        /\ sync.newIndex # None => IndexBelow(story, zip, sync.newIndex)
        /\ index # None => IndexBelow(story, zip, index)
        /\ sync.previous # None => MetaBelow(story, zip, sync.previous)
    BY <1>1 DEF Ordered
  <2> QED  BY <1>1, <1>2, <1>3, <2>1 DEF Ordered, upstream
<1>7. kills = 0 /\ lag = {} => Fresh'
  <2> SUFFICES ASSUME Matched, Ordered, Fresh PROVE Fresh'
    BY DEF InOrder
  <2>1. zip # None /\ sync.newMeta.sha = zip /\ Shown(story, zip) /\ Follows(story, zip, zip)
    BY <1>1, <1>2, FollowsSelf DEF Matched, Ordered
  <2> QED  BY <1>1, <2>1 DEF Fresh, upstream
<1> QED  BY <1>1, <1>4, <1>5, <1>6, <1>7 DEF InOrder, upstream

LEMMA WriteIndexInOrder ==
    ASSUME Typed, InOrder, WriteIndex
    PROVE  InOrder'
<1>1. /\ sync.pc = "index" /\ index' = sync.newIndex /\ sync' = AtRest("ok")
      /\ UNCHANGED <<upstream, zip, meta, kills, cache, scan>>
  BY DEF WriteIndex
<1>2. sync.newIndex # None
  BY <1>1 DEF Typed, SyncHolds
<1>3. sync'.since = sync.since /\ sync'.pc = "ok" /\ sync'.previous = None /\ sync'.newIndex = None
  BY <1>1 DEF AtRest
<1>4. InTime' /\ Fetching'
  BY <1>1, <1>3 DEF InOrder, InTime, Fetching, upstream
<1>5. kills = 0 => Matched'
  <2> SUFFICES ASSUME Matched PROVE Matched'
    BY DEF InOrder
  <2>1. /\ zip # None /\ Since(story, zip, sync.since) /\ meta # None /\ meta.sha = zip
        /\ MetaOf(story, meta) /\ IndexOf(story, sync.newIndex)
    BY <1>1, <1>2 DEF Matched
  <2> QED  BY <1>1, <1>3, <2>1 DEF Matched, upstream
<1>6. lag = {} => Ordered'
  <2> SUFFICES ASSUME Ordered PROVE Ordered'
    BY DEF InOrder
  <2>1. /\ zip # None /\ Shown(story, zip) /\ Since(story, zip, sync.since)
        /\ IndexBelow(story, zip, sync.newIndex)
        /\ meta # None => MetaBelow(story, zip, meta)
    BY <1>1, <1>2 DEF Ordered
  <2> QED  BY <1>1, <1>3, <2>1 DEF Ordered, upstream
<1>7. kills = 0 /\ lag = {} => Fresh'
  BY <1>1 DEF InOrder, Fresh, upstream
<1> QED  BY <1>1, <1>4, <1>5, <1>6, <1>7 DEF InOrder, upstream

\* A killed sync leaves data that is at least as new as what is said of it, if nothing lags.
LEMMA KillInOrder ==
    ASSUME Typed, InOrder, Kill
    PROVE  InOrder'
<1>1. /\ meta' \in {meta, None} /\ kills' = kills + 1
      /\ UNCHANGED <<upstream, zip, index, cache, scan>>
  BY DEF Kill
<1>2. sync \in Syncs /\ kills \in Nat
  BY BoundsAssumption DEF Typed, TypeOK, Syncs
<1>3. /\ sync'.since = sync.since
      /\ \/ sync'.pc = "failed" /\ sync'.previous = None
         \/ sync'.pc = "whole" /\ sync'.previous = sync.previous
  <2>1. CASE sync' = AtRest("failed")
    BY <2>1 DEF AtRest
  <2>2. CASE sync' = [sync EXCEPT !.pc = "whole", !.updating = FALSE]
    BY <1>2, <2>2 DEF Syncs
  <2> QED  BY <2>1, <2>2 DEF Kill
<1>4. InTime' /\ Fetching'
  BY <1>1, <1>3 DEF InOrder, InTime, Fetching, upstream
<1>5. kills' # 0
  BY <1>1, <1>2
<1>6. lag = {} => Ordered'
  <2> SUFFICES ASSUME Ordered PROVE Ordered'
    BY DEF InOrder
  <2>1. /\ meta # None \/ index # None \/ sync.previous # None => zip # None
        /\ zip # None =>
             /\ Shown(story, zip)
             /\ meta # None => MetaBelow(story, zip, meta)
             /\ index # None => IndexBelow(story, zip, index)
             /\ sync.previous # None => MetaBelow(story, zip, sync.previous)
    BY DEF Ordered
  <2> QED  BY <1>1, <1>3, <2>1 DEF Ordered, upstream
<1> QED  BY <1>1, <1>4, <1>5, <1>6 DEF InOrder, upstream

(***************************************************************************)
(* A scan takes what is stored under the key of the data, or what it loads  *)
(* later: either is at least as new.                                        *)
(***************************************************************************)
LEMMA ScanInOrder ==
    ASSUME Typed, InOrder, ScanBegins \/ Load \/ Store \/ ScanEnds
    PROVE  InOrder'
<1>1. UNCHANGED <<upstream, disk, sync, kills>>
  BY DEF ScanBegins, Load, Store, ScanEnds
<1>2. /\ InTime' /\ Fetching' /\ (kills = 0 => Matched') /\ (lag = {} => Ordered')
  BY <1>1 DEF InOrder, InTime, Fetching, Changed, Matched, Ordered, upstream, disk
<1>3. /\ scan \in Scans /\ Len(story) \in Nat \ {0}
      /\ meta \in Metas \cup {None}
  BY ShownIsTyped DEF Typed, TypeOK, Scans, Moments
<1>4. ASSUME kills = 0, lag = {}
      PROVE  Fresh'
  <2>1. Matched /\ Ordered /\ Fresh
    BY <1>4 DEF InOrder
  <2>2. zip # None /\ meta # None => Shown(story, meta.sha) /\ Follows(story, zip, meta.sha)
    BY <2>1 DEF Fresh
  <2>3. cache # None => /\ Shown(story, cache.key) /\ Shown(story, cache.data)
                        /\ Follows(story, cache.data, cache.key)
    BY <2>1 DEF Fresh
  <2>4. CASE ScanBegins
    <3>1. zip # None /\ cache' = cache /\ Shown(story, zip) /\ Follows(story, zip, zip)
      BY <1>3, <2>1, <2>4, FollowsSelf DEF ScanBegins, Ordered
    <3>2. Shown(story, DataIdentity) /\ Follows(story, zip, DataIdentity)
      BY <2>2, <3>1 DEF DataIdentity
    <3>3. meta # None => Since(story, DataIdentity, meta.lm)
      BY <2>1, <3>1 DEF DataIdentity, Matched, MetaOf, Ordered, MetaBelow
    <3>4. CASE Stored(DataIdentity)
      <4> DEFINE claimed == IF meta = None THEN 1 ELSE meta.lm
      <4>1. /\ scan'.pc = "reused" /\ scan'.data = cache.data /\ scan'.claimed = claimed
        BY <2>4, <3>4 DEF ScanBegins
      <4>2. cache # None /\ Shown(story, cache.data) /\ Follows(story, cache.data, DataIdentity)
        BY <2>3, <3>4 DEF Stored
      <4>3. Since(story, DataIdentity, claimed) /\ claimed \in Nat \ {0}
        BY <1>3, <3>2, <3>3, BoundsAssumption DEF Shown, Since, Metas, Moments
      <4>4. PICK id \in Ids : \E k \in claimed .. Len(story) : story[k][id] = DataIdentity[id]
        BY <4>3, IdsAssumption DEF Since
      <4>5. claimed \in 1 .. Len(story)
        BY <1>3, <4>3, <4>4
      <4> HIDE DEF claimed
      <4>6. Since(story, cache.data, claimed)
        BY <1>3, <4>2, <4>3, <4>5, FollowsSince
      <4> QED  BY <1>1, <2>2, <2>3, <3>1, <4>1, <4>6 DEF Fresh, upstream, disk
    <3>5. CASE ~Stored(DataIdentity)
      <4>1. scan'.pc = "load" /\ scan'.key = DataIdentity
        BY <2>4, <3>5 DEF ScanBegins
      <4> QED  BY <1>1, <2>2, <2>3, <3>1, <3>2, <4>1 DEF Fresh, upstream, disk
    <3> QED  BY <3>4, <3>5
  <2>5. CASE Load
    <3>1. /\ scan.pc = "load" /\ scan'.pc = "store" /\ scan'.data = zip /\ scan'.key = scan.key
          /\ cache' = cache /\ zip # None
      BY <1>3, <2>5 DEF Load, Scans, Typed, ScanHolds
    <3>2. Shown(story, scan.key) /\ Follows(story, zip, scan.key) /\ Shown(story, zip)
      BY <2>1, <3>1 DEF Fresh, Ordered
    <3> QED  BY <1>1, <2>2, <2>3, <3>1, <3>2 DEF Fresh, upstream, disk
  <2>6. CASE Store
    <3>1. /\ scan.pc = "store" /\ scan'.pc = "idle"
          /\ cache'.key = scan.key /\ cache'.data = scan.data
      BY <1>3, <2>6 DEF Store, Scans
    <3>2. Shown(story, scan.key) /\ Shown(story, scan.data) /\ Follows(story, scan.data, scan.key)
      BY <2>1, <3>1 DEF Fresh
    <3> QED  BY <1>1, <2>2, <3>1, <3>2 DEF Fresh, upstream, disk
  <2>7. CASE ScanEnds
    <3>1. scan'.pc = "idle" /\ cache' = cache
      BY <2>7 DEF ScanEnds
    <3> QED  BY <1>1, <2>2, <2>3, <3>1 DEF Fresh, upstream, disk
  <2> QED  BY <2>4, <2>5, <2>6, <2>7
<1> QED  BY <1>1, <1>2, <1>4 DEF InOrder, upstream

LEMMA InOrderStep ==
    ASSUME Typed, InOrder, [Next]_vars
    PROVE  InOrder'
<1>1. CASE UNCHANGED vars
  BY <1>1 DEF vars, InOrder, InTime, Fetching, Changed, Matched, Ordered, Fresh
<1> QED  BY <1>1, ChangeInOrder, PublishInOrder, SyncStartInOrder, FailInOrder,
            ListingUnchangedInOrder, ListingReadInOrder, FetchInOrder, WholeInOrder,
            RenameInOrder, WriteMetaInOrder, WriteIndexInOrder, KillInOrder, ScanInOrder DEF Next

LEMMA AlwaysInOrder == Spec => [](Typed /\ InOrder)
<1>1. Init => Typed /\ InOrder
  BY InitTyped, InitInOrder
<1>2. Typed /\ InOrder /\ [Next]_vars => (Typed /\ InOrder)'
  BY TypedStep, InOrderStep
<1> QED  BY <1>1, <1>2, PTL DEF Spec

-----------------------------------------------------------------------------
(* What follows. *)

(***************************************************************************)
(* Neither a 304 nor an update nor a kill makes the data look younger than  *)
(* it is, which is what --max-db-age judges.                                *)
(***************************************************************************)
THEOREM AgeStaysHonest == Spec => []AgeIsHonest
<1>1. Typed /\ InOrder => AgeIsHonest
  <2> SUFFICES ASSUME Typed, InOrder, Orderly, zip # None, meta # None
               PROVE  AsNewAs(zip, meta.lm)
    BY DEF AgeIsHonest
  <2>1. CASE lag = {}
    BY <2>1 DEF InOrder, Ordered, MetaBelow, Since, AsNewAs
  <2>2. CASE kills = 0 /\ sync.pc # "meta"
    BY <2>2 DEF InOrder, Matched, MetaOf, Since, AsNewAs
  <2> QED  BY <2>1, <2>2 DEF Orderly
<1> QED  BY <1>1, AlwaysInOrder, PTL

(***************************************************************************)
(* A sync that succeeds leaves data at least as new as what osv.dev showed  *)
(* when it began, whichever way it went.                                    *)
(***************************************************************************)
THEOREM SyncsAreCurrent == Spec => []SyncedMeansCurrent
<1>1. Typed /\ InOrder => SyncedMeansCurrent
  <2> SUFFICES ASSUME Typed, InOrder, Orderly, sync.pc = "ok"
               PROVE  AsNewAs(zip, sync.since)
    BY DEF SyncedMeansCurrent
  <2>1. CASE lag = {}
    BY <2>1 DEF InOrder, Ordered, Since, AsNewAs
  <2>2. CASE kills = 0
    BY <2>2 DEF InOrder, Matched, Since, AsNewAs
  <2> QED  BY <2>1, <2>2 DEF Orderly
<1> QED  BY <1>1, AlwaysInOrder, PTL

(***************************************************************************)
(* A reused result comes from data at least as new as the metadata claims,  *)
(* though a sync may replace the data between the key and the load.         *)
(***************************************************************************)
THEOREM ReuseIsFresh == Spec => []ReusedIsFresh
<1>1. Typed /\ InOrder => ReusedIsFresh
  BY DEF InOrder, Fresh, ReusedIsFresh, Since, AsNewAs
<1> QED  BY <1>1, AlwaysInOrder, PTL
=============================================================================
