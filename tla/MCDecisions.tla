---------------------------- MODULE MCDecisions ----------------------------
(***************************************************************************)
(* The inputs that TLC puts to the pure algorithms, grown a fact at a time. *)
(***************************************************************************)
EXTENDS Reachability, FixPlan, AdvisoryRecords, ImageLayers, Versions, FiniteSets

CONSTANTS MaxFacts,     \* bound on the facts of a program
          MaxVersion,   \* bound on versions
          MaxRanges,    \* bound on the ranges and listed versions of a package's advisories
          MaxCopies,    \* bound on the fleet's copies of a package
          MaxRecords,   \* bound on the export's and the overlay's records of a package
          MaxEntries    \* bound on the entries of an image's layers

(***************************************************************************)
(* Programs of main and two more functions, the last one the advisory's, in *)
(* one, two or three crates.                                                *)
(***************************************************************************)
Functions == {"main", "helper", "sink"}
CrateMaps ==
    {[main |-> "app", helper |-> h, sink |-> s] : h \in {"app", "dep"}, s \in {"app", "dep", "vuln"}}
Unary == {"pointer", "dispatch", "implements", "foreign", "exported", "generic"}
Bodily == {"pointer", "dispatch", "foreign"}
Binary == {"calls", "drops", "takes", "coerces", "constant"}
\* Left out is what the advisory's function does, which is after what is asked.
Facts == {[kind |-> k, from |-> f, to |-> f] : k \in Unary \ Bodily, f \in Functions}
         \cup {[kind |-> k, from |-> f, to |-> f] : k \in Bodily, f \in {"main", "helper"}}
         \cup {[kind |-> k, from |-> f, to |-> g] :
                 k \in Binary, f \in {"main", "helper"}, g \in Functions}

Programs ==
    {[functions |-> Functions, crate |-> crate, facts |-> {}, main |-> "main", sink |-> "sink",
      lib |-> lib, primary |-> "app", public |-> Functions,
      scanned |-> {"app", "dep", "vuln"} \ unscanned] :
        crate \in CrateMaps, lib \in BOOLEAN, unscanned \in {{}, {"dep"}}}
ProgramsTried == {p \in Programs : {"app", "dep", "vuln"} \ p.scanned \subseteq Range(p.crate)}

AddFact ==
    /\ case.of = "reachability"
    /\ Cardinality(case.program.facts) < MaxFacts
    /\ \E fact \in Facts \ case.program.facts :
         /\ fact.kind \in Binary => fact.from # fact.to
         /\ case' = [case EXCEPT !.program.facts = @ \cup {fact}]
         /\ WellFormed(case'.program)

(***************************************************************************)
(* Two advisories on a package, two repos.                                  *)
(***************************************************************************)
Versions == 0..MaxVersion
At(kind, v) == [kind |-> kind, at |-> v]
Ranges ==
    {<<At("introduced", 0)>>, <<At("introduced", 2)>>}
    \cup {<<At("fixed", 2)>>, <<At("garbled", 0), At("fixed", 2)>>}
    \cup {<<At("introduced", 0), At("last_affected", a)>> : a \in {1, 2}}
    \cup {<<At("introduced", a), At("fixed", b)>> : a \in Versions, b \in Versions}
    \cup {<<At("introduced", a), At("fixed", b), At("introduced", c)>> :
            a \in Versions, b \in Versions, c \in Versions}
    \cup {<<At("introduced", a), At("fixed", b), At("introduced", c), At("fixed", d)>> :
            a \in Versions, b \in Versions, c \in Versions, d \in Versions}
OrderedRanges == {r \in Ranges : \A i \in DOMAIN r, j \in DOMAIN r : i < j => r[i].at < r[j].at}

Situations ==
    {[advisories |-> [id \in {"A", "B"} |-> [ranges |-> {}, versions |-> {}]],
      fleet |-> {}, dead |-> dead, allowBreaking |-> allow] :
        dead \in {{}, {"A"}}, allow \in BOOLEAN}
SituationsTried == {s \in Situations : s.allowBreaking => s.dead = {}}
RangesOf(s) ==
    Cardinality(s.advisories["A"].ranges) + Cardinality(s.advisories["A"].versions)
    + Cardinality(s.advisories["B"].ranges) + Cardinality(s.advisories["B"].versions)

\* Advisories and repos are alike, so B and r2 are used after A and r1 only, r2 for the higher
\* versions.
AddRange ==
    /\ case.of = "plan" /\ case.situation.fleet = {} /\ RangesOf(case.situation) < MaxRanges
    /\ \E id \in {"A", "B"}, r \in OrderedRanges :
         /\ id = "B" => RangesOf(case.situation) > 0
         /\ case' = [case EXCEPT !.situation.advisories[id].ranges = @ \cup {r}]
AddListedVersion ==
    /\ case.of = "plan" /\ case.situation.fleet = {} /\ RangesOf(case.situation) < MaxRanges
    /\ \E id \in {"A", "B"}, v \in {1, 3} :
         /\ id = "B" => RangesOf(case.situation) > 0
         /\ case' = [case EXCEPT !.situation.advisories[id].versions = @ \cup {v}]
AddCopy ==
    /\ case.of = "plan" /\ Cardinality(case.situation.fleet) < MaxCopies
    /\ \E repo \in {"r1", "r2"}, v \in Versions :
         /\ repo = "r2" => case.situation.fleet # {}
                           /\ \A c \in case.situation.fleet : c.version <= v
         /\ case' = [case EXCEPT !.situation.fleet = @ \cup {[repo |-> repo, version |-> v]}]

(***************************************************************************)
(* Records with three ids of different rank, which name each other or a CVE *)
(* that is none of theirs (0).                                              *)
(***************************************************************************)
RecordIdsTried == 1..3
RankOf == <<1, 0, 2>>
AddRecord ==
    /\ case.of = "records"
    /\ Cardinality(case.upstream) + Cardinality(case.overlay) < MaxRecords
    /\ \E id \in RecordIdsTried, withdrawn \in BOOLEAN, hits \in {{1}, {1, 2}} :
         \E aliases \in {{}} \cup {{a} : a \in {0} \cup (RecordIdsTried \ {id})}, severity \in 1..2 :
           LET record == [id |-> id, aliases |-> aliases, withdrawn |-> withdrawn, hits |-> hits,
                          severity |-> severity, rank |-> RankOf[id]]
           IN  /\ withdrawn => hits = {1, 2} /\ aliases = {} /\ severity = 1
               /\ \/ /\ id \notin RecordIds(case.upstream)
                     /\ case' = [case EXCEPT !.upstream = @ \cup {record}]
                  \/ /\ id \notin RecordIds(case.overlay)
                     /\ case' = [case EXCEPT !.overlay = @ \cup {record}]

(***************************************************************************)
(* Layers with a directory, its sibling that sorts before what is in it,    *)
(* and a file in it, in every order of the entries.                         *)
(***************************************************************************)
Texts == <<<<"a">>, <<"a-b">>, <<"a", "x">>>>
ArchiveEntries ==
    {[path |-> path, kind |-> kind] : path \in Range(Texts), kind \in {"dir", "binary", "whiteout"}}
    \cup {[path |-> <<"a">>, kind |-> kind] : kind \in {"file", "opaque"}}
    \cup {[path |-> <<"a", "x">>, kind |-> "file"]}
AddEntry ==
    /\ case.of = "image"
    /\ Len(FlattenSeq(case.layers)) < MaxEntries
    /\ \E entry \in ArchiveEntries, fresh \in BOOLEAN :
         LET layers == IF fresh THEN Append(case.layers, <<>>) ELSE case.layers
         IN  /\ ~fresh => case.layers # <<>>
             /\ case' = [case EXCEPT !.layers = [layers EXCEPT ![Len(layers)] = Append(@, entry)]]
             /\ WellFormedLayer(Last(case'.layers))

(***************************************************************************)
(* Versions: a few runs with what each order treats in its own way.         *)
(***************************************************************************)
UpTo(n, S) == UNION {[1..k -> S] : k \in 0..n}
Concats(S, T) == {s \o t : s \in S, t \in T}
Gems ==
    {Canonicalize(s) : s \in Concats({<<Number(0)>>, <<Number(1)>>},
                                    UpTo(2, {Number(0), Number(1), Word(1), Word(2)}))}
\* dev, alpha and patch; a word without a rank ties with every number.
Composers ==
    {PadCore(s) : s \in Concats({<<Number(1)>>,
                                 <<Number(1), Number(0), Number(0), Number(0), Number(1)>>},
                                UpTo(2, {Number(2), Word(-6), Word(-5), Word(1)}))}
IdLists == UpTo(2, {Number(1), Number(2), Word(1)})
NuGets ==
    {[nums |-> WithoutTrailing(nums, 0), pre |-> pre] :
        nums \in {<<1>>, <<1, 0>>, <<1, 0, 0, 1>>}, pre \in IdLists}
Julias ==
    {[nums |-> nums, pre |-> pre, build |-> build] :
        nums \in {<<1, 0, 0>>}, pre \in UpTo(1, {Number(1), Word(1)}),
        build \in IdLists}
Texts1 == UpTo(2, {[kind |-> "~", value |-> 0], [kind |-> "^", value |-> 0],
                   [kind |-> "letters", value |-> 1], [kind |-> "digits", value |-> 1],
                   [kind |-> "digits", value |-> 2]})
Rpms ==
    {[epoch |-> 0, version |-> t, release |-> {}] : t \in Texts1 \ {<<>>}}
    \cup {[epoch |-> 0, version |-> <<[kind |-> "digits", value |-> 1]>>, release |-> {t}] :
             t \in Texts1 \ {<<>>}}
    \cup {[epoch |-> 1, version |-> <<[kind |-> "digits", value |-> 1]>>, release |-> {}]}
Chars == {[kind |-> "~", code |-> 0], [kind |-> "letter", code |-> 97], [kind |-> "other", code |-> 43]}
Pieces == {[text |-> t, number |-> 1] : t \in UpTo(2, Chars) \ {<<>>}}
          \cup {[text |-> <<c>>, number |-> 0] : c \in Chars}
Debs ==
    LET one == [text |-> <<>>, number |-> 1]
    IN  {[epoch |-> 0, upstream |-> <<one>> \o s, revision |-> <<>>] : s \in UpTo(1, Pieces)}
        \cup {[epoch |-> 0, upstream |-> <<p, one>>, revision |-> <<>>] : p \in Pieces}
        \cup {[epoch |-> 0, upstream |-> <<one>>, revision |-> <<p>>] : p \in Pieces \cup {one}}
        \cup {[epoch |-> 1, upstream |-> <<one>>, revision |-> <<>>]}
Apks ==
    {<<Token(Tok.digit, 1)>> \o part \o letter \o suffix \o revision :
        part \in {<<>>, AfterDot(0, 5), AfterDot(1, 0), AfterDot(2, 5)},
        letter \in {<<>>, <<Token(Tok.letter, 97)>>},
        suffix \in {<<>>, <<Token(Tok.suffix, -4)>>, <<Token(Tok.suffix, 4)>>,
                    <<Token(Tok.suffix, -4), Token(Tok.suffixNo, 1)>>},
        revision \in {<<>>, <<Token(Tok.revisionNo, 0)>>}}
\* alpha, sp and an unknown word.  A word between a dot and another separator and a zero that
\* begins a list are left out: with them ComparableVersion itself has cycles, such as
\* 1 < 1-sp < 1-0-alpha < 1 and 1 < 1-jre < 1.0.rc.1 < 1.
MavenRuns == {[sep |-> sep, word |-> FALSE, value |-> v] : sep \in {".", "-", ""}, v \in {0, 1}}
        \cup {[sep |-> sep, word |-> TRUE, value |-> v] : sep \in {".", "-", ""}, v \in {0, 6, 7}}
MavenTexts ==
    {t \in {<<[sep |-> "", word |-> FALSE, value |-> 1]>> \o s :
              s \in UpTo(2, MavenRuns)} :
       \A i \in DOMAIN t \ {1} :
         /\ t[i].sep = "" => t[i].word # t[i - 1].word
         /\ (t[i].word /\ t[i].sep = ".") => (i = Len(t) \/ t[i + 1].sep = "")
         /\ (~t[i].word /\ t[i].value = 0) => t[i].sep = "."}
Mavens == {ParseItems(t) : t \in MavenTexts}
Tried == [gem |-> Gems, composer |-> Composers, nuget |-> NuGets, julia |-> Julias,
          rpm |-> Rpms, deb |-> Debs, apk |-> Apks, maven |-> Mavens]
NoVersions == [order \in DOMAIN Tried |-> {}]

Init == case \in {[of |-> "reachability", program |-> p] : p \in ProgramsTried}
                 \cup {[of |-> "plan", situation |-> s] : s \in SituationsTried}
                 \cup {[of |-> "records", upstream |-> {}, overlay |-> {}]}
                 \cup {[of |-> "image", layers |-> <<>>]}
                 \cup UNION {{[of |-> "versions", order |-> order, left |-> a, right |-> b] :
                                a \in Sample[order], b \in Sample[order]} : order \in DOMAIN Sample}
Next == AddFact \/ AddRange \/ AddListedVersion \/ AddCopy \/ AddRecord \/ AddEntry
Spec == Init /\ [][Next]_case
=============================================================================
