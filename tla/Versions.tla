------------------------------ MODULE Versions ------------------------------
(***************************************************************************)
(* The version orders that ranges are read by: Maven's ComparableVersion,   *)
(* Composer, RubyGems, NuGet, Julia, rpm, dpkg and apk (version.rs of       *)
(* crates/maven, packagist, rubygems, nuget and julia; rpmver.rs, dpkgver.rs *)
(* and apkver.rs of crates/os).                                             *)
(*                                                                          *)
(* Abstracted: a version's text is its runs of digits and of letters, with  *)
(* what is between them where it matters.  A run of letters is a number in  *)
(* the order of the texts, or its rank where words have ranks; a version    *)
(* that does not parse is none.  -1, 0 and 1 are less, equal and greater.   *)
(***************************************************************************)
EXTENDS Cases, Integers, SequencesExt

CONSTANT Sample    \* name of an order -> versions, as parsed, to try it with

Sign(x, y) == IF x < y THEN -1 ELSE IF x > y THEN 1 ELSE 0
AndThen(x, y) == IF x # 0 THEN x ELSE y

\* What comes first decides.
First(Compare(_), places) ==
    LET differing == {i \in places : Compare(i) # 0}
    IN  IF differing = {} THEN 0 ELSE Compare(Min(differing))
\* The first place where two sequences differ decides; the shorter one goes on as `pad`.
FirstDifference(Compare(_, _), a, b, pad) ==
    LET at(s, i) == IF i \in DOMAIN s THEN s[i] ELSE pad
    IN  First(LAMBDA i : Compare(at(a, i), at(b, i)), DOMAIN a \cup DOMAIN b)

Number(n) == [word |-> FALSE, value |-> n]
Word(w) == [word |-> TRUE, value |-> w]
FirstWord(s) == Min({i \in DOMAIN s : s[i].word} \cup {Len(s) + 1})
WithoutTrailing(s, zero) == SubSeq(s, 1, Max({i \in DOMAIN s : s[i] # zero} \cup {0}))

(***************************************************************************)
(* RubyGems: the zeros before the first word and at the end do not count; a *)
(* word is below a number.                                                  *)
(***************************************************************************)
Canonicalize(segments) ==
    WithoutTrailing(SubSeq(segments, 1, FirstWord(segments) - 1), Number(0))
    \o WithoutTrailing(SubSeq(segments, FirstWord(segments), Len(segments)), Number(0))
SegmentOrder(x, y) ==
    IF x.word = y.word THEN Sign(x.value, y.value) ELSE IF x.word THEN -1 ELSE 1
GemOrder(a, b) == FirstDifference(SegmentOrder, a, b, Number(0))

(***************************************************************************)
(* Composer: four numbers, then words by stability (a word's value is its   *)
(* rank, 0 for an unknown one) and numbers, which rank as stable.           *)
(***************************************************************************)
PadCore(tokens) ==
    LET core == FirstWord(tokens) - 1
    IN  SubSeq(tokens, 1, core)
        \o [i \in 1 .. (IF core < 4 THEN 4 - core ELSE 0) |-> Number(0)]
        \o SubSeq(tokens, core + 1, Len(tokens))
OrderOf(token) == IF token.word THEN token.value ELSE 0
TokenOrder(x, y) ==
    IF ~x.word /\ ~y.word THEN Sign(x.value, y.value) ELSE Sign(OrderOf(x), OrderOf(y))
ComposerOrder(a, b) == FirstDifference(TokenOrder, a, b, Number(0))

\* A release's introduced bound takes in its prereleases.
IsPrerelease(v) == FirstWord(v) <= Len(v) /\ v[FirstWord(v)].value < 0
ReleaseCore(v) == WithoutTrailing(SubSeq(v, 1, FirstWord(v) - 1), Number(0))
AtOrAfterIntroduced(v, bound) ==
    \/ ComposerOrder(v, bound) >= 0
    \/ ~IsPrerelease(bound) /\ IsPrerelease(v) /\ ReleaseCore(v) = ReleaseCore(bound)

(***************************************************************************)
(* NuGet and Julia: numbers, then lists of identifiers in which a number is *)
(* below a word and a list above its beginning.  A prerelease is below its  *)
(* release; a build of Julia's is above the version without one.            *)
(***************************************************************************)
IdOrder(x, y) ==
    IF x.word = y.word THEN Sign(x.value, y.value) ELSE IF x.word THEN 1 ELSE -1
IdentCmp(a, b) ==
    LET common == Min({Len(a), Len(b)})
    IN  AndThen(FirstDifference(IdOrder, SubSeq(a, 1, common), SubSeq(b, 1, common), Number(0)),
                Sign(Len(a), Len(b)))
PreOrder(a, b) ==
    IF (a = <<>>) # (b = <<>>) THEN (IF a = <<>> THEN 1 ELSE -1) ELSE IdentCmp(a, b)
NumsOrder(a, b) == FirstDifference(Sign, a, b, 0)
NuGetOrder(a, b) == AndThen(NumsOrder(a.nums, b.nums), PreOrder(a.pre, b.pre))
JuliaOrder(a, b) == AndThen(NuGetOrder(a, b), IdentCmp(a.build, b.build))

(***************************************************************************)
(* rpm: runs of digits and of letters, "~" before the end of the text and   *)
(* "^" after it.  A run is a record of its kind and value.                  *)
(***************************************************************************)
RunOrder(x, y) ==
    LET either(kind) == kind \in {x.kind, y.kind}
    IN  IF x.kind = y.kind THEN Sign(x.value, y.value)
        ELSE IF either("~") THEN (IF x.kind = "~" THEN -1 ELSE 1)
        ELSE IF either("end") THEN (IF x.kind = "end" THEN -1 ELSE 1)
        ELSE IF either("^") THEN (IF x.kind = "^" THEN -1 ELSE 1)
        ELSE IF x.kind = "digits" THEN 1 ELSE -1
Rpmvercmp(a, b) == FirstDifference(RunOrder, a, b, [kind |-> "end", value |-> 0])

\* A release is a set of one text, or empty when there is none.
RpmOrder(a, b) ==
    AndThen(Sign(a.epoch, b.epoch),
    AndThen(Rpmvercmp(a.version, b.version),
            IF a.release # {} /\ b.release # {}
            THEN Rpmvercmp(CHOOSE r \in a.release : TRUE, CHOOSE r \in b.release : TRUE)
            ELSE Sign(Cardinality(a.release), Cardinality(b.release))))

(***************************************************************************)
(* dpkg: what is not a digit goes by character, "~" before the end of the   *)
(* text and letters before the rest; then a number, 0 where there is none.  *)
(***************************************************************************)
Weight(char) ==
    CASE char.kind = "~" -> -1
      [] char.kind = "end" -> 0
      [] char.kind = "letter" -> char.code
      [] OTHER -> char.code + 256
CharOrder(x, y) == Sign(Weight(x), Weight(y))
PieceOrder(x, y) ==
    AndThen(FirstDifference(CharOrder, x.text, y.text, [kind |-> "end", code |-> 0]),
            Sign(x.number, y.number))
Verrevcmp(a, b) == FirstDifference(PieceOrder, a, b, [text |-> <<>>, number |-> 0])
DebOrder(a, b) ==
    AndThen(Sign(a.epoch, b.epoch),
            AndThen(Verrevcmp(a.upstream, b.upstream), Verrevcmp(a.revision, b.revision)))

(***************************************************************************)
(* apk: a stream of typed tokens, whose types have an order of their own.   *)
(* After a dot, each zero that leads a number beyond the first counts       *)
(* against it, and the rest of the digits is a token of its own.            *)
(***************************************************************************)
Tok == [digitOrZero |-> 1, digit |-> 2, letter |-> 3, suffix |-> 4, suffixNo |-> 5,
        revisionNo |-> 6, end |-> 7]
Token(type, value) == [type |-> type, value |-> value]
AfterDot(zeros, value) ==
    IF zeros = 0 THEN <<Token(Tok.digitOrZero, value)>>
    ELSE <<Token(Tok.digitOrZero, 1 - zeros), Token(Tok.digit, value)>>
PreSuffix(token) == token.type = Tok.suffix /\ token.value < 0
\* Mutant: only the first version's suffix is looked at.
TypedOrderOfFirst(x, y) ==
    IF x.type = y.type THEN Sign(x.value, y.value)
    ELSE IF PreSuffix(x) THEN -1 ELSE Sign(y.type, x.type)
TypedOrder(x, y) ==
    IF x.type = y.type THEN Sign(x.value, y.value)
    ELSE IF PreSuffix(x) THEN -1 ELSE IF PreSuffix(y) THEN 1 ELSE Sign(y.type, x.type)
ApkOrder(a, b) == FirstDifference(TypedOrder, a, b, Token(Tok.end, 0))

(***************************************************************************)
(* Maven: numbers, words and nested lists.  A word's value is its index     *)
(* among the qualifiers, the release's being 5; unknown words come after.   *)
(* A list is the last item of the one it is in, so that a version is its    *)
(* items in a row, with an item where a list opens: what follows is in it.  *)
(***************************************************************************)
ReleaseIndex == 5
IntItem(n) == [kind |-> "int", value |-> n]
StrItem(q) == [kind |-> "str", value |-> q]
ListItem == [kind |-> "list", value |-> 0]

\* An item against null: a list is what its first item that is not null is.
NullSign(item) ==
    CASE item.kind = "int" -> Sign(item.value, 0)
      [] item.kind = "str" -> Sign(item.value, ReleaseIndex)
      [] item.kind = "list" -> 0
NullOrder(v, i) ==
    IF v[i].kind = "list" THEN First(LAMBDA j : NullSign(v[j]), i .. Len(v)) ELSE NullSign(v[i])
Rank(item) == [int |-> 2, list |-> 1, str |-> 0][item.kind]
\* Two lists at one place are compared by what follows.
ItemOrder(a, b, i) ==
    IF i \notin DOMAIN a THEN -NullOrder(b, i)
    ELSE IF i \notin DOMAIN b THEN NullOrder(a, i)
    ELSE IF a[i].kind # b[i].kind THEN Sign(Rank(a[i]), Rank(b[i]))
    ELSE Sign(a[i].value, b[i].value)
MavenOrder(a, b) == First(LAMBDA i : ItemOrder(a, b, i), DOMAIN a \cup DOMAIN b)

\* Null items go from the end of a list, and from before the list in it, which goes when empty.
WithoutNulls(list) == SubSeq(list, 1, Max({i \in DOMAIN list : NullSign(list[i]) # 0} \cup {0}))
Normalized(list, inner) ==
    WithoutNulls(list) \o (IF inner = <<>> THEN <<>> ELSE <<ListItem>> \o inner)

\* A text is its runs, each a number or a word, after a ".", a "-" or nothing.  A list opens
\* after "-", between digits and letters, and before a word that a digit or nothing follows.
Opened(lists, text, i) ==
    LET follows == IF i = Len(text) THEN "end" ELSE text[i + 1].sep
        item == IF text[i].word THEN StrItem(text[i].value) ELSE IntItem(text[i].value)
        before == text[i].word /\ follows \in {"", "end"} /\ Last(lists) # <<>>
        with == IF before THEN Append(lists, <<item>>)
                ELSE [lists EXCEPT ![Len(lists)] = Append(@, item)]
    IN  IF follows \in {"-", ""} THEN Append(with, <<>>) ELSE with
ParseItems(text) ==
    LET lists == FoldLeft(LAMBDA acc, i : Opened(acc, text, i), << <<>> >>,
                          [i \in DOMAIN text |-> i])
    IN  FoldRight(Normalized, lists, <<>>)

(***************************************************************************)
(* What the versions of each order are.  A gem version has no zero at its   *)
(* end.  A word of Composer's without a rank ties with every number, and    *)
(* Maven's order has cycles where a list begins with one, or where a word   *)
(* is not first in its list: these are left out.                            *)
(***************************************************************************)
Segments == [word : BOOLEAN, value : Int]
IsGem(v) == v \in Seq(Segments) /\ (v # <<>> => Last(v) # Number(0))
IsComposer(v) ==
    v \in Seq(Segments) /\ \A i \in DOMAIN v : IF v[i].word THEN v[i].value # 0 ELSE v[i].value >= 0

NuGetVersions == [nums : Seq(Nat), pre : Seq(Segments)]
JuliaVersions == [nums : Seq(Nat), pre : Seq(Segments), build : Seq(Segments)]

RpmRuns == [kind : {"~", "^", "letters", "digits"}, value : Int]
IsRpm(v) ==
    /\ v \in [epoch : Int, version : Seq(RpmRuns), release : SUBSET Seq(RpmRuns)]
    /\ \A r, s \in v.release : r = s

DebChars == [kind : {"~", "letter", "other"}, code : Int]
DebPieces == [text : Seq(DebChars), number : Int]
DebVersions == [epoch : Int, upstream : Seq(DebPieces), revision : Seq(DebPieces)]

ApkVersions == Seq([type : Int, value : Int])

MavenItems == [kind : {"int", "str", "list"}, value : Int]
IsMaven(v) ==
    /\ v \in Seq(MavenItems)
    /\ \A i \in DOMAIN v :
        /\ v[i].kind = "int" => v[i].value >= 0
        /\ v[i].kind = "str" => i = 1 \/ v[i - 1].kind = "list"
        /\ v[i].kind = "list" => i > 1 /\ v[i - 1].kind # "list" /\ i < Len(v) /\ v[i].value = 0
        \* what is null is before something in its list that is not
        /\ v[i].kind # "list" /\ NullSign(v[i]) = 0 =>
             \E j \in (i + 1) .. Len(v) :
               v[j].value # 0 /\ \A k \in (i + 1) .. j : v[k].kind = "int"

IsVersion(order, v) ==
    CASE order = "gem" -> IsGem(v)
      [] order = "composer" -> IsComposer(v)
      [] order = "nuget" -> v \in NuGetVersions
      [] order = "julia" -> v \in JuliaVersions
      [] order = "rpm" -> IsRpm(v)
      [] order = "deb" -> v \in DebVersions
      [] order = "apk" -> v \in ApkVersions
      [] order = "maven" -> IsMaven(v)
      [] OTHER -> FALSE

ASSUME SampleAssumption == \A order \in DOMAIN Sample : \A v \in Sample[order] : IsVersion(order, v)

(***************************************************************************)
(* Properties.                                                              *)
(***************************************************************************)
Order(order, a, b) ==
    CASE order = "gem" -> GemOrder(a, b)
      [] order = "composer" -> ComposerOrder(a, b)
      [] order = "nuget" -> NuGetOrder(a, b)
      [] order = "julia" -> JuliaOrder(a, b)
      [] order = "rpm" -> RpmOrder(a, b)
      [] order = "deb" -> DebOrder(a, b)
      [] order = "apk" -> ApkOrder(a, b)
      [] order = "maven" -> MavenOrder(a, b)

\* Each comparator is the Ord of its versions, which the walk over a range's bounds, the choice
\* of a fix and sorting rely on: versions can be told apart in one direction only, and what is
\* not above what is not above a third is not above it either, equal ones included.  Composer's
\* introduced bounds are open upwards.
OrdersAreTotal ==
    case.of = "versions" =>
      LET order == case.order
          a == case.left
          b == case.right
      IN  /\ Order(order, a, b) = -Order(order, b, a)
          /\ Order(order, a, b) <= 0 =>
               \A c \in Sample[order] :
                 /\ Order(order, b, c) <= 0 => Order(order, a, c) <= 0
                 /\ order = "composer" /\ (IsPrerelease(c) \/ FirstWord(c) > Len(c))
                      /\ AtOrAfterIntroduced(a, c) => AtOrAfterIntroduced(b, c)
          /\ order = "gem" => ((Order(order, a, b) = 0) = (a = b))
=============================================================================
