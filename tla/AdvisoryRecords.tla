-------------------------- MODULE AdvisoryRecords --------------------------
(***************************************************************************)
(* From an export's records to the findings on one installed version of a   *)
(* package: the organization's overlay, retractions, and the records that   *)
(* are one vulnerability under several ids (crates/core/src/osv.rs).        *)
(*                                                                          *)
(* A record has an id, other names (aliases), whether it is withdrawn, the  *)
(* versions it hits, a severity, and the rank its kind of id has.  Ids are  *)
(* numbers in the order of their text; a layer has one record per id.       *)
(*                                                                          *)
(* Abstracted: one ecosystem and package; titles and scores, which follow   *)
(* the severity; a record that cannot be read, which stops the load.        *)
(***************************************************************************)
EXTENDS Cases, Integers, Folds

Names(r) == {r.id} \cup r.aliases

(***************************************************************************)
(* Loading: an overlay record takes the place of the export's, and is then  *)
(* dropped like any other when it is withdrawn.                             *)
(***************************************************************************)
RecordIds(layer) == {r.id : r \in layer}
LoadedWithdrawnFirst(upstream, overlay) ==
    LET live == {r \in overlay : ~r.withdrawn}
    IN  {r \in upstream : ~r.withdrawn /\ r.id \notin RecordIds(live)} \cup live
Loaded(upstream, overlay) ==
    {r \in upstream : r.id \notin RecordIds(overlay) /\ ~r.withdrawn} \cup {r \in overlay : ~r.withdrawn}

\* The findings on a version; in the code, a list in the order of their ids.
Matches(records, v) == {r \in records : v \in r.hits}

(***************************************************************************)
(* The clusters: a union-find over the pairs of findings that share a name. *)
(* Halving a path moves no root and is left out.                            *)
(***************************************************************************)
Root(parent, x) ==
    LET root[y \in DOMAIN parent] == IF parent[y] = y THEN y ELSE root[parent[y]]
    IN  root[x]

\* The pairs that the two loops go through, and the one of some pairs that they come to last.
Pairs(out) == {p \in out \X out : p[1].id < p[2].id}
LastPair(pairs) ==
    CHOOSE p \in pairs : \A q \in pairs :
        q[1].id < p[1].id \/ (q[1].id = p[1].id /\ q[2].id <= p[2].id)
JoinedAtMember(parent, pair) ==
    IF Names(pair[1]) \cap Names(pair[2]) = {} THEN parent
    ELSE [parent EXCEPT ![pair[2]] = pair[1]]
Joined(parent, pair) ==
    IF Names(pair[1]) \cap Names(pair[2]) = {} THEN parent
    ELSE [parent EXCEPT ![Root(parent, pair[2])] = Root(parent, pair[1])]
Parents(out) ==
    MapThenFoldSet(LAMBDA pair, parent : Joined(parent, pair), [r \in out |-> r],
                   LAMBDA pair : pair, LastPair, Pairs(out))
Clusters(out) ==
    LET parent == Parents(out)
    IN  {{q \in out : Root(parent, q) = Root(parent, r)} : r \in out}

(***************************************************************************)
(* One finding per cluster: the record whose id ranks first, with the names *)
(* of all of them and the worst severity.                                   *)
(***************************************************************************)
RanksBefore(r, q) == r.rank < q.rank \/ (r.rank = q.rank /\ r.id <= q.id)
Representative(cluster) == CHOOSE r \in cluster : \A q \in cluster : RanksBefore(r, q)

AllNames(cluster) == UNION {Names(q) : q \in cluster}
Worst(cluster) ==
    CHOOSE s \in {q.severity : q \in cluster} : \A q \in cluster : q.severity <= s
Kept(cluster) ==
    LET r == Representative(cluster)
    IN  [id |-> r.id, severity |-> Worst(cluster), aliases |-> AllNames(cluster) \ {r.id}]

Reported(upstream, overlay, v) ==
    {Kept(cluster) : cluster \in Clusters(Matches(Loaded(upstream, overlay), v))}

(***************************************************************************)
(* Properties.                                                              *)
(***************************************************************************)
Says(r, v) == v \in r.hits /\ ~r.withdrawn
\* The record an organization has of an id: its own, or else the export's.
Speaks(upstream, overlay, id) ==
    IF id \in RecordIds(overlay) THEN {r \in overlay : r.id = id} ELSE {r \in upstream : r.id = id}
Found(v) ==
    IF case.of = "records" THEN Reported(case.upstream, case.overlay, v) ELSE {}
Speaking(v) ==
    IF case.of = "records"
    THEN {r \in UNION {Speaks(case.upstream, case.overlay, id) :
                         id \in RecordIds(case.upstream) \cup RecordIds(case.overlay)} : Says(r, v)}
    ELSE {}
CaseVersions == UNION {r.hits : r \in (IF case.of = "records" THEN case.upstream \cup case.overlay ELSE {})}

\* osv.rs:448 "a record with withdrawn set retracts the upstream record of that id": what is
\* reported on a version is named by a record that the organization has and that hits it, and a
\* record of that kind is named by a finding at least as severe: the overlay corrects both ways.
ReportedIsOnRecord ==
    \A v \in CaseVersions :
        /\ {f.id : f \in Found(v)} \subseteq RecordIds(Speaking(v))
        /\ \A r \in Speaking(v) :
             \E f \in Found(v) : Names(r) \subseteq Names(f) /\ f.severity >= r.severity

\* "one vulnerability published under several ids" is counted once: findings on a version share
\* no name, however long the chain of aliases that joins their records.
CountedOnce ==
    \A v \in CaseVersions : \A f \in Found(v), g \in Found(v) :
        f # g => Names(f) \cap Names(g) = {}
=============================================================================
