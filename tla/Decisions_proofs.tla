-------------------------- MODULE Decisions_proofs --------------------------
(***************************************************************************)
(* Proofs about fleetreach's pure decisions, for inputs of every size: the  *)
(* verdicts of static reachability are sound for every program, within what *)
(* Covered says; what `fix plan` says of its targets and of what it leaves, *)
(* for every set of advisories and every fleet; which records are one       *)
(* vulnerability, for every export and overlay; what the view of an image   *)
(* holds, for all layers; and that eight ecosystems' comparators are orders *)
(* of all their versions.                                                   *)
(***************************************************************************)
EXTENDS Reachability, FixPlan, AdvisoryRecords, ImageLayers, Versions, FiniteSetTheorems, WellFoundedInduction, TLAPS

-----------------------------------------------------------------------------
(***************************************************************************)
(* Static reachability.                                                     *)
(***************************************************************************)
\* The functions that some scanned crate compiles.
Compiled(p, own) == {f \in p.functions : \E c \in p.scanned : f \in own[c]}

(***************************************************************************)
(* A crate compiles its functions that are not generic.                     *)
(***************************************************************************)
LEMMA OwnFunctions ==
    ASSUME NEW p, NEW f \in p.functions, p.crate[f] \in p.scanned, ~Is(p, "generic", f)
    PROVE  f \in Instances(p)[p.crate[f]]
<1>1. \A S \in SUBSET p.functions : InstanceClosed(p, p.crate[f], S) => f \in S
  BY DEF InstanceClosed
<1> QED  BY <1>1 DEF Instances

(***************************************************************************)
(* A crate that compiles a function compiles the generic ones it uses.      *)
(***************************************************************************)
LEMMA OwnGenerics ==
    ASSUME NEW p, NEW c \in p.scanned, NEW f \in Instances(p)[c], NEW g \in p.functions,
           Is(p, "generic", g), Uses(p, f, g)
    PROVE  g \in Instances(p)[c]
<1>1. f \in p.functions /\ \A S \in SUBSET p.functions : InstanceClosed(p, c, S) => f \in S
  BY DEF Instances
<1>2. \A S \in SUBSET p.functions : InstanceClosed(p, c, S) => g \in S
  BY <1>1 DEF InstanceClosed
<1> QED  BY <1>2 DEF Instances

(***************************************************************************)
(* What a compiled function uses is compiled.                               *)
(***************************************************************************)
LEMMA UsedIsCompiled ==
    ASSUME NEW p, NEW f \in Compiled(p, Instances(p)), NEW g \in p.functions,
           Covered(p, Instances(p)), Uses(p, f, g)
    PROVE  g \in Compiled(p, Instances(p))
<1>1. PICK c \in p.scanned : f \in Instances(p)[c]
  BY DEF Compiled
<1>2. p.crate[g] \in p.scanned
  BY DEF Covered
<1>3. CASE Is(p, "generic", g)
  <2>1. g \in Instances(p)[c]
    BY <1>1, <1>3, OwnGenerics
  <2> QED  BY <2>1 DEF Compiled
<1>4. CASE ~Is(p, "generic", g)
  <2>1. g \in Instances(p)[p.crate[g]]
    BY <1>2, <1>4, OwnFunctions
  <2> QED  BY <1>2, <2>1 DEF Compiled
<1> QED  BY <1>3, <1>4

(***************************************************************************)
(* So is whatever compiled functions run.                                   *)
(***************************************************************************)
LEMMA RunIsCompiled ==
    ASSUME NEW p, WellFormed(p), Covered(p, Instances(p)),
           NEW S \in SUBSET Compiled(p, Instances(p)),
           NEW f \in S, NEW g \in p.functions, Runs(p, S, f, g)
    PROVE  g \in Compiled(p, Instances(p))
<1>1. CASE \E h \in S : Uses(p, h, g)
  <2>1. PICK h \in S : Uses(p, h, g)
    BY <1>1
  <2>2. h \in Compiled(p, Instances(p))
    OBVIOUS
  <2> QED  BY <2>1, <2>2, UsedIsCompiled
<1>2. CASE Is(p, "exported", g)
  <2>1. ~Is(p, "generic", g) /\ p.crate[g] \in p.scanned
    BY <1>2 DEF WellFormed, Covered
  <2>2. g \in Instances(p)[p.crate[g]]
    BY <2>1, OwnFunctions
  <2> QED  BY <2>1, <2>2 DEF Compiled
<1>3. (\E h \in S : Uses(p, h, g)) \/ Is(p, "exported", g)
  BY DEF Runs, Uses
<1> QED  BY <1>1, <1>2, <1>3

(***************************************************************************)
(* A program starts with what is compiled.                                  *)
(***************************************************************************)
LEMMA EntriesAreCompiled ==
    ASSUME NEW p, WellFormed(p), Covered(p, Instances(p)), NEW f \in Entries(p)
    PROVE  f \in Compiled(p, Instances(p)) /\ f \in Roots(p, Instances(p))
<1>1. f \in p.functions
  BY DEF Entries, WellFormed
<1>2. p.crate[f] \in p.scanned /\ ~Is(p, "generic", f)
  BY <1>1 DEF Covered
<1>3. f \in Instances(p)[p.crate[f]]
  BY <1>1, <1>2, OwnFunctions
<1> QED  BY <1>1, <1>2, <1>3 DEF Compiled, Roots

(***************************************************************************)
(* Each step of the program from compiled functions is an edge of the       *)
(* merged graph, perhaps across opaque code.                                *)
(***************************************************************************)
LEMMA RunIsAnEdge ==
    ASSUME NEW p, WellFormed(p), Covered(p, Instances(p)),
           NEW S \in SUBSET Compiled(p, Instances(p)),
           NEW c \in p.scanned, NEW f \in S, f \in Instances(p)[c],
           NEW g \in p.functions, Runs(p, S, f, g)
    PROVE  Edge(p, Instances(p), c, f, g) \/ OpaqueEdge(p, Instances(p), c, f, g)
<1> DEFINE own == Instances(p)
<1>1. g \in Compiled(p, own) /\ f \in p.functions
  BY RunIsCompiled DEF Compiled
<1>2. \A h \in S : \E d \in p.scanned : h \in own[d]
  BY DEF Compiled
<1>3. CASE Has(p, "calls", f, g)
  BY <1>3 DEF Edge
<1>4. CASE Has(p, "drops", f, g)
  BY <1>1, <1>4 DEF Covered
<1>5. CASE Is(p, "pointer", f) /\ \E h \in S : Has(p, "takes", h, g)
  <2>1. PICK d \in p.scanned : g \in Taken(p, own, d)
    BY <1>2, <1>5 DEF Taken
  <2>2. CASE Taken(p, own, c) = {}
    BY <1>5, <2>1, <2>2 DEF OpaqueEdge, OpaqueSite, Escaped
  <2>3. CASE Taken(p, own, c) # {}
    <3>1. Taken(p, own, d) \subseteq Taken(p, own, c)
      BY <1>5, <2>3 DEF Covered
    <3> QED  BY <1>5, <2>1, <3>1 DEF Edge
  <2> QED  BY <2>2, <2>3
<1>6. CASE /\ Is(p, "dispatch", f) /\ Is(p, "implements", g)
           /\ \E h \in S : Has(p, "coerces", h, g) \/ Has(p, "constant", h, g)
  <2>1. KeepImpl(p, own, g)
    BY <1>2, <1>6 DEF KeepImpl, Coerced
  <2>2. \E d \in p.scanned : g \in own[d]
    BY <1>1 DEF Compiled
  <2> QED  BY <1>6, <2>1, <2>2 DEF Edge
<1>7. CASE Is(p, "foreign", f) /\ (Is(p, "exported", g) \/ \E h \in S : Has(p, "takes", h, g))
  <2>1. \E d \in p.scanned : g \in Escaped(p, own, d)
    BY <1>1, <1>2, <1>7 DEF Escaped, Taken, Compiled
  <2> QED  BY <1>7, <2>1 DEF OpaqueEdge, OpaqueSite
<1> QED  BY <1>3, <1>4, <1>5, <1>6, <1>7 DEF Runs

(***************************************************************************)
(* What the search that crosses opaque code does not reach cannot run.      *)
(***************************************************************************)
LEMMA UnreachedCannotRun ==
    ASSUME NEW p, WellFormed(p), Covered(p, Instances(p)), NEW g,
           ~Reached(p, Instances(p), TRUE, g)
    PROVE  ~CanRun(p, g)
<1> DEFINE own == Instances(p)
<1>1. PICK G \in SUBSET p.functions : SearchClosed(p, own, TRUE, G) /\ g \notin G
  BY DEF Reached
<1> DEFINE S == G \cap Compiled(p, own)
<1>2. Entries(p) \subseteq S
  BY <1>1, EntriesAreCompiled DEF SearchClosed
<1>3. ASSUME NEW f \in S, NEW h \in p.functions, Runs(p, S, f, h)
      PROVE  h \in S
  <2>1. S \in SUBSET Compiled(p, own)
    OBVIOUS
  <2>2. h \in Compiled(p, own)
    BY <1>3, <2>1, RunIsCompiled
  <2>3. PICK c \in p.scanned : f \in own[c]
    BY DEF Compiled
  <2>4. Edge(p, own, c, f, h) \/ OpaqueEdge(p, own, c, f, h)
    BY <1>3, <2>1, <2>3, RunIsAnEdge
  <2>5. h \in G
    BY <1>1, <2>3, <2>4 DEF SearchClosed
  <2> QED  BY <2>2, <2>5
<1>4. RunClosed(p, S)
  BY <1>2, <1>3 DEF RunClosed
<1>5. S \in SUBSET p.functions /\ g \notin S
  BY <1>1
<1> QED  BY <1>4, <1>5 DEF CanRun

(***************************************************************************)
(* A function of the program that is no node of the merged graph cannot run.*)
(***************************************************************************)
LEMMA UncompiledCannotRun ==
    ASSUME NEW p, WellFormed(p), Covered(p, Instances(p)), NEW g,
           g \notin Nodes(p, Instances(p))
    PROVE  ~CanRun(p, g)
<1> DEFINE own == Instances(p)
           S == Compiled(p, own)
<1>1. Entries(p) \subseteq S
  BY EntriesAreCompiled
<1>2. \A f \in S, h \in p.functions : Runs(p, S, f, h) => h \in S
  BY RunIsCompiled
<1>3. RunClosed(p, S)
  BY <1>1, <1>2 DEF RunClosed
<1>4. S \in SUBSET p.functions /\ g \notin S
  BY DEF Compiled, Nodes
<1> QED  BY <1>3, <1>4 DEF CanRun

(***************************************************************************)
(* For every program: a function that the analysis calls NotReachable is    *)
(* one the program cannot run, where Covered holds (analyze, merge and the  *)
(* driver together).                                                        *)
(***************************************************************************)
THEOREM CoveredVerdictsAreSound ==
    (case.of = "reachability" => WellFormed(case.program)) => CoveredVerdictIsSound
<1> DEFINE p == case.program
           own == Instances(p)
<1> SUFFICES ASSUME case.of = "reachability", WellFormed(p), Covered(p, own),
                    Verdict(p, own, p.sink) = "NotReachable"
             PROVE  ~CanRun(p, p.sink)
  BY DEF CoveredVerdictIsSound, Sound
<1>1. CASE p.sink \in Nodes(p, own)
  <2>1. ~Reached(p, own, TRUE, p.sink)
    BY <1>1 DEF Verdict
  <2> QED  BY <2>1, UnreachedCannotRun
<1>2. CASE p.sink \notin Nodes(p, own)
  BY <1>2, UncompiledCannotRun
<1> QED  BY <1>1, <1>2

-----------------------------------------------------------------------------
(***************************************************************************)
(* The fix plan.                                                            *)
(***************************************************************************)
WellFormedRanges(ranges) ==
    \A events \in ranges : \A i \in DOMAIN events : events[i].at \in Nat
WellFormedSituation(s) ==
    /\ \A id \in Ids(s) : WellFormedRanges(s.advisories[id].ranges)
    /\ \A c \in s.fleet : c.version \in Nat

(***************************************************************************)
(* A range that affects w affects every version w has passed no opening of  *)
(* the range since: the deciding event of w decides there too.              *)
(***************************************************************************)
LEMMA AffectedSince ==
    ASSUME NEW events, \A i \in DOMAIN events : events[i].at \in Nat,
           NEW w \in Nat, NEW b \in Nat, b <= w, InRange(events, w),
           \A i \in DOMAIN events :
               events[i].kind = "introduced" /\ events[i].at <= w => events[i].at <= b
    PROVE  InRange(events, b)
<1> DEFINE D(v) == {i \in DOMAIN events : Passed(events[i], v)}
<1>1. D(b) \subseteq D(w)
  BY DEF Passed
<1>2. CASE D(w) = {}
  <2>1. D(b) = {}
    BY <1>1, <1>2
  <2> QED  BY <1>2, <2>1 DEF InRange
<1>3. CASE D(w) # {}
  <2>1. PICK i \in D(w) : Opening(events[i]) /\ \A j \in D(w) : j <= i
    BY <1>3 DEF InRange
  <2>2. i \in D(b)
    BY <2>1 DEF Passed, Opening
  <2>3. \A j \in D(b) : j <= i
    BY <1>1, <2>1
  <2> QED  BY <2>1, <2>2, <2>3 DEF InRange
<1> QED  BY <1>2, <1>3

(***************************************************************************)
(* osv.rs, safe_intervals: no version of a safe interval is affected.       *)
(***************************************************************************)
THEOREM SafeIntervalsAreSafe ==
    ASSUME NEW ranges, WellFormedRanges(ranges), NEW v \in Nat,
           NEW interval \in SafeIntervals(ranges, v), NEW w \in Nat, Covers(interval, w)
    PROVE  ~Affected(ranges, w)
<1> DEFINE bad == {b \in Bounds(ranges, v) : Affected(ranges, b)}
           from == interval.from
<1>1. /\ from \in Bounds(ranges, v) /\ ~Affected(ranges, from)
      /\ interval.until = {a \in bad : from < a}
  <2>1. PICK b \in Bounds(ranges, v) \ bad : interval = [from |-> b, until |-> {a \in bad : b < a}]
    BY Zenon DEF SafeIntervals
  <2> QED  BY <2>1
<1>2. from \in Nat /\ v < from
  BY <1>1 DEF Bounds, WellFormedRanges
<1>3. from <= w /\ \A u \in interval.until : w < u
  BY DEF Covers
<1> SUFFICES ASSUME NEW events \in ranges, InRange(events, w) PROVE FALSE
  BY DEF Affected
<1>4. \A i \in DOMAIN events : events[i].at \in Nat
  BY DEF WellFormedRanges
<1>5. CASE \A i \in DOMAIN events :
             events[i].kind = "introduced" /\ events[i].at <= w => events[i].at <= from
  <2>1. InRange(events, from)
    BY <1>2, <1>3, <1>4, <1>5, AffectedSince
  <2> QED  BY <1>1, <2>1 DEF Affected
\* Otherwise some opening lies between the start and w; the range's verdict at the one that
\* decides for w is that it is affected, so the interval ends there or before.
<1>6. CASE \E i \in DOMAIN events :
             events[i].kind = "introduced" /\ events[i].at <= w /\ from < events[i].at
  <2> DEFINE D(x) == {i \in DOMAIN events : Passed(events[i], x)}
  <2>1. D(w) # {}
    BY <1>6 DEF Passed
  <2>2. PICK i \in D(w) : Opening(events[i]) /\ \A j \in D(w) : j <= i
    BY <2>1 DEF InRange
  <2>3. CASE events[i].kind = "introduced" /\ from < events[i].at
    <3> DEFINE a == events[i].at
    <3>1. a \in Nat /\ a <= w
      BY <1>4, <2>2, <2>3 DEF Passed
    <3>2. D(a) \subseteq D(w) /\ i \in D(a)
      BY <1>4, <2>2, <2>3, <3>1 DEF Passed
    <3>3. InRange(events, a)
      BY <2>2, <3>2 DEF InRange
    <3>4. EventAt(ranges, {"introduced", "fixed"}, a)
      BY <2>2, <2>3 DEF EventAt
    <3>5. a \in Bounds(ranges, v)
      BY <1>2, <2>2, <2>3, <3>1, <3>4 DEF Bounds
    <3>6. a \in bad /\ from < a
      BY <2>3, <3>3, <3>5 DEF Affected
    <3>7. a \in interval.until
      BY <1>1, <3>6
    <3> QED  BY <1>3, <3>1, <3>7
  <2>4. CASE ~(events[i].kind = "introduced" /\ from < events[i].at)
    <3>1. i \in D(from)
      BY <1>2, <1>4, <2>2, <2>4 DEF Passed, Opening
    <3>2. D(from) \subseteq D(w)
      BY <1>2, <1>3, <1>4 DEF Passed
    <3>3. InRange(events, from)
      BY <2>2, <3>1, <3>2 DEF InRange
    <3> QED  BY <1>1, <3>3 DEF Affected
  <2> QED  BY <2>3, <2>4
<1> QED  BY <1>2, <1>4, <1>5, <1>6

(***************************************************************************)
(* A version that satisfies a finding's safe intervals is in none of its    *)
(* ranges, and the start of an interval satisfies them.                     *)
(***************************************************************************)
LEMMA SatisfiedIsUnaffected ==
    ASSUME NEW s, WellFormedSituation(s), NEW id \in Ids(s), NEW t \in Nat, Satisfied(s, id, t)
    PROVE  ~Affected(s.advisories[id].ranges, t)
<1>1. PICK i \in Patched(s, id) : Covers(i, t)
  BY DEF Satisfied
<1>2. PICK v \in Installed(s, {id}) : i \in SafeIntervals(s.advisories[id].ranges, v)
  BY DEF Patched
<1>3. v \in Nat
  BY DEF Installed, Occurrences, WellFormedSituation
<1>4. WellFormedRanges(s.advisories[id].ranges)
  BY DEF WellFormedSituation
<1> QED  BY <1>1, <1>2, <1>3, <1>4, SafeIntervalsAreSafe

LEMMA FloorIsSatisfied ==
    ASSUME NEW s, WellFormedSituation(s), NEW id \in Ids(s), NEW t \in Floors(s, id)
    PROVE  t \in Nat /\ Satisfied(s, id, t)
<1>1. PICK i \in Patched(s, id) : t = i.from
  BY DEF Floors
<1>2. PICK v \in Installed(s, {id}) : i \in SafeIntervals(s.advisories[id].ranges, v)
  BY <1>1 DEF Patched
<1> DEFINE ranges == s.advisories[id].ranges
           bad == {b \in Bounds(ranges, v) : Affected(ranges, b)}
<1>3. PICK b \in Bounds(ranges, v) \ bad : i = [from |-> b, until |-> {a \in bad : b < a}]
  BY <1>2, Zenon DEF SafeIntervals
<1>4. bad \subseteq Nat /\ b \in Nat
  BY DEF Bounds, WellFormedSituation, WellFormedRanges
<1>5. i.from = b /\ i.until = {a \in bad : b < a}
  BY <1>3
<1>6. Covers(i, b)
  BY <1>4, <1>5 DEF Covers
<1> QED  BY <1>1, <1>4, <1>5, <1>6 DEF Satisfied

(***************************************************************************)
(* What an item groups are advisories of the situation.                     *)
(***************************************************************************)
LEMMA ItemAdvisories ==
    ASSUME NEW s, NEW item \in Items(s)
    PROVE  item.advisories \subseteq Ids(s)
<1>1. Findings(s) \subseteq Ids(s) /\ Fixable(s) \subseteq Ids(s)
  BY DEF Findings, Fixable
<1>2. CASE item = [advisories |-> Findings(s) \ Fixable(s), to |-> {}]
  BY <1>1, <1>2
<1>3. CASE item = [advisories |-> Fixable(s), to |-> CommonTarget(s)]
  BY <1>1, <1>3
<1>4. CASE \E x \in Fixable(s) :
             item = [advisories |-> {x}, to |-> Target(s, x, Greatest(Installed(s, {x})))]
  <2>1. PICK x \in Fixable(s) :
               item = [advisories |-> {x}, to |-> Target(s, x, Greatest(Installed(s, {x})))]
    BY <1>4
  <2>2. item.advisories = {x}
    BY <2>1
  <2> QED  BY <1>1, <2>2
<1> QED  BY <1>2, <1>3, <1>4, Zenon DEF Items

(***************************************************************************)
(* What an item upgrades to clears the advisories it groups.                *)
(***************************************************************************)
LEMMA ItemIsSatisfied ==
    ASSUME NEW s, WellFormedSituation(s), NEW item \in Items(s), NEW t \in item.to,
           NEW id \in item.advisories
    PROVE  id \in Ids(s) /\ t \in Nat /\ Satisfied(s, id, t)
<1> DEFINE stuck == Findings(s) \ Fixable(s)
<1>1. CASE \E ids \in {stuck} \ {{}} : item = [advisories |-> ids, to |-> {}]
  BY <1>1
<1>2. CASE item = [advisories |-> Fixable(s), to |-> CommonTarget(s)]
  <2>1. id \in Fixable(s) /\ t \in CommonTarget(s)
    BY <1>2
  <2>2. Satisfied(s, id, t)
    BY <2>1 DEF CommonTarget, Least
  <2>3. PICK other \in Fixable(s) : t \in Floors(s, other)
    BY <2>1 DEF CommonTarget, Least
  <2>4. id \in Ids(s) /\ other \in Ids(s)
    BY <2>1 DEF Fixable, Findings
  <2> QED  BY <2>2, <2>3, <2>4, FloorIsSatisfied
<1>3. CASE \E x \in Fixable(s) :
             item = [advisories |-> {x}, to |-> Target(s, x, Greatest(Installed(s, {x})))]
  <2>1. PICK x \in Fixable(s) :
               item = [advisories |-> {x}, to |-> Target(s, x, Greatest(Installed(s, {x})))]
    BY <1>3
  <2>2. id = x /\ t \in Target(s, x, Greatest(Installed(s, {x})))
    BY <2>1
  <2>3. t \in Floors(s, x)
    BY <2>2 DEF Target, Least, Greatest
  <2>4. x \in Ids(s)
    BY DEF Fixable, Findings
  <2> QED  BY <2>2, <2>3, <2>4, FloorIsSatisfied
<1> QED  BY <1>1, <1>2, <1>3, Zenon DEF Items

(***************************************************************************)
(* An alternative that clears all its line has clears each advisory there,  *)
(* and stays on the line.                                                   *)
(***************************************************************************)
LEMMA AlternativeIsSatisfied ==
    ASSUME NEW s, WellFormedSituation(s), NEW item \in Items(s),
           NEW a \in Alternatives(s, item), NEW t \in a.to
    PROVE  /\ Line(t) = a.line
           /\ \A id \in a.clears : id \in Ids(s) /\ t \in Nat /\ Satisfied(s, id, t)
<1> DEFINE on(k) == {v \in Installed(s, item.advisories) : Line(v) = k}
           here(k) == {id \in item.advisories : Installed(s, {id}) \cap on(k) # {}}
           fixes(k, id) == {b \in Floors(s, id) : Line(b) = k /\ \A v \in on(k) : v <= b}
           candidate(k) == Greatest(UNION {Least(fixes(k, id)) : id \in here(k)})
<1>1. PICK k : a = [line |-> k, to |-> candidate(k), here |-> here(k),
                    clears |-> {id \in here(k) : \E b \in candidate(k) : Satisfied(s, id, b)}]
  BY Zenon DEF Alternatives
<1>2. /\ a.line = k /\ a.to = candidate(k)
      /\ a.clears = {id \in here(k) : \E b \in candidate(k) : Satisfied(s, id, b)}
  BY <1>1
<1>3. \A b \in candidate(k) : \E id \in here(k) : b \in fixes(k, id)
  BY DEF Greatest, Least
<1>4. item.advisories \subseteq Ids(s)
  BY ItemAdvisories
<1>5. \A b \in candidate(k) : b \in Nat /\ Line(b) = k
  BY <1>3, <1>4, FloorIsSatisfied
<1>6. ASSUME NEW b \in candidate(k) PROVE b = t
  <2>1. b <= t /\ t <= b
    BY <1>2 DEF Greatest
  <2>2. b \in Nat /\ t \in Nat
    BY <1>2, <1>5
  <2> QED  BY <2>1, <2>2
<1>7. \A id \in a.clears : id \in Ids(s) /\ Satisfied(s, id, t)
  BY <1>2, <1>4, <1>6
<1> QED  BY <1>2, <1>5, <1>7

(***************************************************************************)
(* Each edit of a plan made from the report is an alternative's or an       *)
(* item's.                                                                  *)
(***************************************************************************)
Made(s, edit) ==
    \/ \E item \in Items(s) : \E a \in Alternatives(s, item) :
         /\ Takes(a, edit.from)
         /\ edit.to = a.to /\ edit.advisories = a.clears /\ ~edit.breaking
    \/ \E item \in Items(s) :
         /\ edit.to = item.to /\ edit.advisories = item.advisories
         /\ edit.breaking = Breaks(s, item, edit.from)

LEMMA EveryEditIsMade ==
    ASSUME NEW s, NEW edit \in BuildPlan(s)
    PROVE  /\ Made(s, edit)
           /\ edit.breaking /\ ~s.allowBreaking => edit.blocked
           /\ edit = [repo |-> edit.repo, from |-> edit.from, to |-> edit.to,
                      advisories |-> edit.advisories, breaking |-> edit.breaking,
                      blocked |-> edit.blocked]
<1>1. PICK item \in Items(s) : \E c \in Occurrences(s, item.advisories) : edit \in EditFor(s, item, c.repo)
  BY DEF BuildPlan
<1>4. PICK c \in Occurrences(s, item.advisories) : edit \in EditFor(s, item, c.repo)
  BY <1>1
<1> DEFINE repo == c.repo
<1> DEFINE from == {d.version : d \in {d \in Occurrences(s, item.advisories) : d.repo = repo}}
           taken == {a \in Alternatives(s, item) : Takes(a, from)}
           made(to, ids, breaking) ==
             [repo |-> repo, from |-> from, to |-> to, advisories |-> ids, breaking |-> breaking,
              blocked |-> to = {} \/ (breaking /\ ~s.allowBreaking)]
<1>2. CASE \E a \in taken : edit = made(a.to, a.clears, FALSE)
  <2>1. PICK a \in taken : edit = made(a.to, a.clears, FALSE)
    BY <1>2
  <2>2. edit.from = from /\ edit.to = a.to /\ edit.advisories = a.clears /\ edit.breaking = FALSE
    BY <2>1
  <2>3. Made(s, edit)
    BY <2>2, Zenon DEF Made
  <2> QED  BY <2>1, <2>2, <2>3
<1>3. CASE edit = made(item.to, item.advisories, Breaks(s, item, from))
  <2>1. /\ edit.from = from /\ edit.to = item.to /\ edit.advisories = item.advisories
        /\ edit.breaking = Breaks(s, item, from)
        /\ edit.blocked = (item.to = {} \/ (Breaks(s, item, from) /\ ~s.allowBreaking))
    BY <1>3
  <2>2. Made(s, edit)
    BY <2>1, Zenon DEF Made
  <2> QED  BY <1>3, <2>1, <2>2
<1> QED  BY <1>2, <1>3, <1>4, Zenon DEF EditFor

(***************************************************************************)
(* For every set of advisories and every fleet: an upgrade planned from the *)
(* report alone is in no range of an advisory it is for.                    *)
(***************************************************************************)
THEOREM UpgradesClear ==
    (case.of = "plan" => WellFormedSituation(case.situation)) => UpgradeClearsItsAdvisories
<1> DEFINE s == case.situation
<1> SUFFICES ASSUME case.of = "plan", WellFormedSituation(s), NEW edit \in BuildPlan(s),
                    NEW t \in edit.to, NEW id \in edit.advisories
             PROVE  ~Affected(s.advisories[id].ranges, t)
  BY DEF UpgradeClearsItsAdvisories, Planned
<1>1. Made(s, edit)
  BY EveryEditIsMade
<1>2. id \in Ids(s) /\ t \in Nat /\ Satisfied(s, id, t)
  <2>1. CASE \E item \in Items(s) : \E a \in Alternatives(s, item) :
               edit.to = a.to /\ edit.advisories = a.clears
    BY <2>1, AlternativeIsSatisfied
  <2>2. CASE \E item \in Items(s) : edit.to = item.to /\ edit.advisories = item.advisories
    BY <2>2, ItemIsSatisfied
  <2> QED  BY <1>1, <2>1, <2>2 DEF Made
<1> QED  BY <1>2, SatisfiedIsUnaffected

(***************************************************************************)
(* A settled edit is the planned one, or that one with its target moved.    *)
(***************************************************************************)
LEMMA SettledUnchangedOrMoved ==
    ASSUME NEW s, NEW e \in BuildPlan(s), NEW edit, edit = Settled(s, e), ~edit.blocked
    PROVE  /\ edit.from = e.from /\ edit.advisories = e.advisories /\ ~e.blocked
           /\ \/ edit = e /\ \A t \in e.to : \A id \in Counted(s, e) : ~Hits(s, id, t)
              \/ /\ edit.to = UNION {ClearAfter(s, e, t) : t \in e.to}
                 /\ \/ \A t \in edit.to, v \in e.from : Line(v) = Line(t)
                    \/ e.breaking \/ s.allowBreaking
<1> DEFINE to == UNION {ClearAfter(s, e, t) : t \in e.to}
           crosses == \E t \in to, v \in e.from : Line(v) # Line(t)
           moved == [e EXCEPT !.to = to, !.breaking = @ \/ crosses,
                              !.blocked = crosses /\ ~e.breaking /\ ~s.allowBreaking]
<1>1. e = [repo |-> e.repo, from |-> e.from, to |-> e.to, advisories |-> e.advisories,
           breaking |-> e.breaking, blocked |-> e.blocked]
  BY EveryEditIsMade
<1>2. CASE edit = e /\ (e.blocked \/ \A t \in e.to : \A id \in Counted(s, e) : ~Hits(s, id, t))
  BY <1>2
<1>3. CASE edit = [e EXCEPT !.blocked = TRUE]
  <2>1. edit.blocked = TRUE
    BY <1>1, <1>3
  <2> QED  BY <2>1
<1>4. CASE edit = moved /\ ~e.blocked
  <2>1. /\ edit.from = e.from /\ edit.advisories = e.advisories /\ edit.to = to
        /\ edit.blocked = (crosses /\ ~e.breaking /\ ~s.allowBreaking)
    BY <1>1, <1>4
  <2> QED  BY <1>4, <2>1
<1> QED  BY <1>2, <1>3, <1>4, Zenon DEF Settled

(***************************************************************************)
(* For every set of advisories and every fleet: a target that was checked   *)
(* has none of the advisories it is for and brings the repo no new one.     *)
(***************************************************************************)
THEOREM TargetsAddNothing == TargetAddsNothing
<1> DEFINE s == case.situation
<1> SUFFICES ASSUME case.of = "plan", NEW edit \in Plan(s), ~edit.blocked,
                    NEW t \in edit.to, NEW id \in Ids(s), Hits(s, id, t)
             PROVE  id \notin edit.advisories /\ \E v \in edit.from : Hits(s, id, v)
  BY DEF TargetAddsNothing, Final
<1>1. PICK e \in BuildPlan(s) : edit = Settled(s, e)
  BY DEF Plan
<1>2. id \notin Counted(s, e)
  <2>1. CASE edit = e /\ \A x \in e.to : \A i \in Counted(s, e) : ~Hits(s, i, x)
    BY <2>1
  <2>2. CASE edit.to = UNION {ClearAfter(s, e, x) : x \in e.to}
    BY <2>2 DEF ClearAfter, Least
  <2> QED  BY <1>1, <2>1, <2>2, SettledUnchangedOrMoved
<1>3. edit.from = e.from /\ edit.advisories = e.advisories
  BY <1>1, SettledUnchangedOrMoved
<1> QED  BY <1>2, <1>3 DEF Counted

(***************************************************************************)
(* For every set of advisories and every fleet: no copy crosses a line      *)
(* unasked.                                                                 *)
(***************************************************************************)
THEOREM NoMajorUnasked ==
    (case.of = "plan" => WellFormedSituation(case.situation)) => NoUnaskedMajor
<1> DEFINE s == case.situation
<1> SUFFICES ASSUME case.of = "plan", WellFormedSituation(s), NEW edit \in Plan(s), ~edit.blocked,
                    ~s.allowBreaking, NEW t \in edit.to, NEW v \in edit.from
             PROVE  Line(v) = Line(t)
  BY DEF NoUnaskedMajor, Final
<1>1. PICK e \in BuildPlan(s) : edit = Settled(s, e)
  BY DEF Plan
<1>2. /\ edit.from = e.from /\ ~e.blocked
      /\ edit = e \/ (\A x \in edit.to, w \in e.from : Line(w) = Line(x)) \/ e.breaking
  BY <1>1, SettledUnchangedOrMoved
<1>3. Made(s, e) /\ ~e.breaking
  BY <1>2, EveryEditIsMade
<1>4. CASE edit = e
  <2>1. CASE \E item \in Items(s) : \E a \in Alternatives(s, item) : Takes(a, e.from) /\ e.to = a.to
    <3>1. PICK item \in Items(s) :
                 \E a \in Alternatives(s, item) : Takes(a, e.from) /\ e.to = a.to
      BY <2>1
    <3>3. PICK a \in Alternatives(s, item) : Takes(a, e.from) /\ e.to = a.to
      BY <3>1
    <3>2. Line(t) = a.line
      BY <1>4, <3>3, AlternativeIsSatisfied
    <3> QED  BY <1>4, <3>2, <3>3 DEF Takes
  <2>2. CASE \E item \in Items(s) : e.to = item.to /\ e.breaking = Breaks(s, item, e.from)
    BY <1>3, <1>4, <2>2 DEF Breaks
  <2> QED  BY <1>3, <2>1, <2>2 DEF Made
<1> QED  BY <1>2, <1>3, <1>4

(***************************************************************************)
(* Checking a target never changes whom an edit is for: its repo, the       *)
(* copies it replaces and its advisories.                                   *)
(***************************************************************************)
LEMMA SettledKeepsItsFindings ==
    ASSUME NEW s, NEW e \in BuildPlan(s)
    PROVE  /\ Settled(s, e).repo = e.repo /\ Settled(s, e).from = e.from
           /\ Settled(s, e).advisories = e.advisories
<1> DEFINE to == UNION {ClearAfter(s, e, t) : t \in e.to}
           crosses == \E t \in to, v \in e.from : Line(v) # Line(t)
           moved == [e EXCEPT !.to = to, !.breaking = @ \/ crosses,
                              !.blocked = crosses /\ ~e.breaking /\ ~s.allowBreaking]
<1>1. e = [repo |-> e.repo, from |-> e.from, to |-> e.to, advisories |-> e.advisories,
           breaking |-> e.breaking, blocked |-> e.blocked]
  BY EveryEditIsMade
<1>2. Settled(s, e) \in {e, [e EXCEPT !.blocked = TRUE], moved}
  BY Zenon DEF Settled
<1>3. /\ [e EXCEPT !.blocked = TRUE].repo = e.repo /\ [e EXCEPT !.blocked = TRUE].from = e.from
      /\ [e EXCEPT !.blocked = TRUE].advisories = e.advisories
  BY <1>1
<1>4. moved.repo = e.repo /\ moved.from = e.from /\ moved.advisories = e.advisories
  BY <1>1
<1> QED  BY <1>2, <1>3, <1>4, Zenon

(***************************************************************************)
(* Each finding is in an item: with what cannot be fixed, in the batch, or  *)
(* on its own.                                                              *)
(***************************************************************************)
LEMMA EveryFindingHasAnItem ==
    ASSUME NEW s, NEW id \in Findings(s)
    PROVE  \E item \in Items(s) : id \in item.advisories
<1>1. CASE id \notin Fixable(s)
  <2> DEFINE item == [advisories |-> Findings(s) \ Fixable(s), to |-> {}]
  <2>1. id \in item.advisories
    BY <1>1
  <2>2. item \in Items(s)
    BY <1>1, <2>1, Zenon DEF Items
  <2> QED  BY <2>1, <2>2
<1>2. CASE id \in Fixable(s) /\ CommonTarget(s) # {}
  <2> DEFINE item == [advisories |-> Fixable(s), to |-> CommonTarget(s)]
  <2>1. item \in Items(s)
    BY <1>2, Zenon DEF Items
  <2> QED  BY <1>2, <2>1
<1>3. CASE id \in Fixable(s) /\ CommonTarget(s) = {}
  <2> DEFINE item == [advisories |-> {id}, to |-> Target(s, id, Greatest(Installed(s, {id})))]
  <2>1. item \in Items(s)
    BY <1>3, Zenon DEF Items
  <2> QED  BY <2>1
<1> QED  BY <1>1, <1>2, <1>3

(***************************************************************************)
(* An item's edit of a repo is for every advisory of the item that the repo *)
(* has: an alternative is taken only when it clears all that is on its      *)
(* line, and the whole repo is.                                             *)
(***************************************************************************)
LEMMA EditIsForWhatTheRepoHas ==
    ASSUME NEW s, NEW item \in Items(s), NEW c \in s.fleet, NEW id \in item.advisories,
           Hits(s, id, c.version)
    PROVE  \E edit \in EditFor(s, item, c.repo) :
               edit.repo = c.repo /\ id \in edit.advisories /\ c.version \in edit.from
<1> DEFINE from == {d.version : d \in {d \in Occurrences(s, item.advisories) : d.repo = c.repo}}
           taken == {a \in Alternatives(s, item) : Takes(a, from)}
           made(to, ids, breaking) ==
             [repo |-> c.repo, from |-> from, to |-> to, advisories |-> ids, breaking |-> breaking,
              blocked |-> to = {} \/ (breaking /\ ~s.allowBreaking)]
<1>1. c \in Occurrences(s, item.advisories) /\ c \in Occurrences(s, {id})
  BY DEF Occurrences
<1>2. c.version \in from
  BY <1>1
<1>3. c.version \in Installed(s, item.advisories) \cap Installed(s, {id})
  BY <1>1 DEF Installed
<1>4. CASE taken = {}
  <2> DEFINE edit == made(item.to, item.advisories, Breaks(s, item, from))
  <2>1. edit \in EditFor(s, item, c.repo)
    BY <1>4, Zenon DEF EditFor
  <2> QED  BY <1>2, <2>1
<1>5. ASSUME NEW a \in taken
      PROVE  \E edit \in EditFor(s, item, c.repo) :
                 edit.repo = c.repo /\ id \in edit.advisories /\ c.version \in edit.from
  <2> DEFINE on(k) == {v \in Installed(s, item.advisories) : Line(v) = k}
             here(k) == {x \in item.advisories : Installed(s, {x}) \cap on(k) # {}}
             fixes(k, x) == {b \in Floors(s, x) : Line(b) = k /\ \A v \in on(k) : v <= b}
             candidate(k) == Greatest(UNION {Least(fixes(k, x)) : x \in here(k)})
  <2>1. PICK k : a = [line |-> k, to |-> candidate(k), here |-> here(k),
                      clears |-> {x \in here(k) : \E b \in candidate(k) : Satisfied(s, x, b)}]
    BY Zenon DEF Alternatives
  <2>2. a.line = k /\ a.here = here(k)
    BY <2>1
  <2>3. a.clears = a.here /\ Line(c.version) = k
    BY <1>2, <2>2 DEF Takes
  <2>4. id \in a.clears
    BY <1>3, <2>2, <2>3
  <2> DEFINE edit == made(a.to, a.clears, FALSE)
  <2>5. edit \in EditFor(s, item, c.repo)
    BY Zenon DEF EditFor
  <2>6. edit.repo = c.repo /\ edit.advisories = a.clears /\ edit.from = from
    BY Zenon
  <2> QED  BY <1>2, <2>4, <2>5, <2>6
<1> QED  BY <1>4, <1>5

(***************************************************************************)
(* For every set of advisories and every fleet: a finding that may be       *)
(* reachable is in an edit of each repo that has it.                        *)
(***************************************************************************)
THEOREM FindingsArePlanned == EveryFindingPlanned
<1> DEFINE s == case.situation
<1> SUFFICES ASSUME case.of = "plan", NEW c \in s.fleet, NEW id \in Ids(s) \ s.dead,
                    Hits(s, id, c.version)
             PROVE  \E edit \in Plan(s) :
                        edit.repo = c.repo /\ id \in edit.advisories /\ c.version \in edit.from
  BY DEF EveryFindingPlanned, Final
<1>1. id \in Findings(s)
  BY DEF Findings, Occurrences
<1>2. PICK item \in Items(s) : id \in item.advisories
  BY <1>1, EveryFindingHasAnItem
<1>3. c \in Occurrences(s, item.advisories)
  BY <1>2 DEF Occurrences
<1>4. PICK e \in EditFor(s, item, c.repo) :
             e.repo = c.repo /\ id \in e.advisories /\ c.version \in e.from
  BY <1>2, EditIsForWhatTheRepoHas
<1>5. e \in BuildPlan(s)
  BY <1>2, <1>3 DEF BuildPlan
<1>6. Settled(s, e) \in Plan(s)
  BY <1>5 DEF Plan
<1> QED  BY <1>4, <1>5, <1>6, SettledKeepsItsFindings

-----------------------------------------------------------------------------
(***************************************************************************)
(* Records that are one vulnerability.  A fold and a choice are of a finite *)
(* set; an induction over one is by a set G of the subsets for which a fact *)
(* holds: a set whose proper subsets in G put it in G is in G.              *)
(***************************************************************************)

LEMMA SubsetInduction ==
    ASSUME NEW S, IsFiniteSet(S), NEW G,
           \A T \in SUBSET S : (\A U \in SUBSET T : U # T => U \in G) => T \in G
    PROVE  S \in G
<1> SUFFICES ASSUME S \notin G PROVE FALSE
  OBVIOUS
<1> DEFINE bad == {T \in SUBSET S : T \notin G}
<1>1. IsWellFoundedOn(StrictSubsetOrdering(S), SUBSET S)
  <2>1. IsWellFoundedOn(StrictSubsetOrdering(S), FiniteSubsetsOf(S))
    BY FS_StrictSubsetOrderingWellFounded
  <2>2. FiniteSubsetsOf(S) = SUBSET S
    BY FS_FiniteSubsetsOfFinite
  <2> QED
    BY <2>1, <2>2, Zenon
<1>2. bad # {} /\ bad \subseteq SUBSET S
  OBVIOUS
<1> HIDE DEF bad
<1>3. PICK T \in bad : \A U \in bad : <<U, T>> \notin StrictSubsetOrdering(S)
  BY <1>1, <1>2, WFMin
<1>4. \A U \in SUBSET T : U # T => U \in G
  BY <1>2, <1>3 DEF StrictSubsetOrdering, bad
<1> QED
  BY <1>3, <1>4 DEF bad


\* A finite set that R orders has a last element.
LEMMA LastExists ==
    ASSUME NEW S, IsFiniteSet(S), S # {}, NEW R,
           \A x, y \in S : <<x, y>> \in R \/ <<y, x>> \in R,
           \A x, y, z \in S : <<x, y>> \in R /\ <<y, z>> \in R => <<x, z>> \in R
    PROVE  \E x \in S : \A y \in S : <<y, x>> \in R
<1> DEFINE G == {T \in SUBSET S : T # {} => \E x \in T : \A y \in T : <<y, x>> \in R}
<1>1. ASSUME NEW T \in SUBSET S, \A U \in SUBSET T : U # T => U \in G
      PROVE  T \in G
  <2>1. SUFFICES ASSUME T # {} PROVE \E x \in T : \A y \in T : <<y, x>> \in R
    OBVIOUS
  <2>2. PICK x \in T : TRUE
    BY <2>1
  <2>3. T \ {x} \in G
    BY <1>1
  <2>4. CASE T \ {x} = {}
    BY <2>4
  <2>5. CASE T \ {x} # {}
    <3>1. PICK z \in T \ {x} : \A y \in T \ {x} : <<y, z>> \in R
      BY <2>3, <2>5
    <3>2. CASE <<x, z>> \in R
      BY <3>1, <3>2
    <3>3. CASE <<z, x>> \in R
      <4>1. \A y \in T : <<y, x>> \in R
        BY <3>1, <3>3
      <4> QED
        BY <4>1
    <3> QED
      BY <3>2, <3>3
  <2> QED
    BY <2>4, <2>5
<1> HIDE DEF G
<1>2. S \in G
  BY <1>1, SubsetInduction
<1> QED
  BY <1>2 DEF G

\* f folds the elements of T into b, and last[T] after the others of T.
FoldsInto(f, T, b, step, last) ==
    \A U \in SUBSET T : f[U] = IF U = {} THEN b ELSE step[<<f[U \ {last[U]}], last[U]>>]

LEMMA FoldsAgree ==
    ASSUME NEW S, IsFiniteSet(S), NEW R, NEW b, NEW step, NEW last,
           \A U \in SUBSET S : U # {} => last[U] \in U,
           NEW f, NEW g, FoldsInto(f, S, b, step, last), FoldsInto(g, R, b, step, last),
           NEW T, T \in SUBSET S, T \in SUBSET R
    PROVE  f[T] = g[T]
<1> DEFINE G == {U \in SUBSET T : f[U] = g[U]}
<1>1. ASSUME NEW U \in SUBSET T, \A V \in SUBSET U : V # U => V \in G PROVE U \in G
  <2>1. U \in SUBSET S /\ U \in SUBSET R
    OBVIOUS
  <2>2. f[U] = (IF U = {} THEN b ELSE step[<<f[U \ {last[U]}], last[U]>>])
    BY <2>1, Zenon DEF FoldsInto
  <2>3. g[U] = (IF U = {} THEN b ELSE step[<<g[U \ {last[U]}], last[U]>>])
    BY <2>1, Zenon DEF FoldsInto
  <2>4. U # {} => U \ {last[U]} \in G
    BY <1>1, <2>1
  <2>5. U # {} => f[U \ {last[U]}] = g[U \ {last[U]}]
    BY <2>4
  <2> QED
    BY <2>2, <2>3, <2>5
<1>2. IsFiniteSet(T)
  BY FS_Subset
<1>3. T \in G
  <2> HIDE DEF G
  <2> QED
    BY <1>1, <1>2, SubsetInduction
<1> QED
  BY <1>3

LEMMA FoldExists ==
    ASSUME NEW S, IsFiniteSet(S), NEW X, NEW b \in X, NEW step \in [X \X S -> X], NEW last,
           \A U \in SUBSET S : U # {} => last[U] \in U
    PROVE  \E f \in [SUBSET S -> X] : FoldsInto(f, S, b, step, last)
<1> DEFINE Folds(f, T) == f \in [SUBSET T -> X] /\ FoldsInto(f, T, b, step, last)
           F(T) == CHOOSE f : Folds(f, T)
           G == {T \in SUBSET S : \E f : Folds(f, T)}
<1>1. ASSUME NEW T \in SUBSET S, \A U \in SUBSET T : U # T => U \in G PROVE T \in G
  <2>1. \A U \in SUBSET T : U # T => Folds(F(U), U)
    <3> SUFFICES ASSUME NEW U \in SUBSET T, U # T PROVE Folds(F(U), U)
      OBVIOUS
    <3>1. \E f : Folds(f, U)
      BY <1>1
    <3> HIDE DEF Folds
    <3> QED
      BY <3>1
  <2> DEFINE val(U) == F(U)[U]
             top == step[<<val(T \ {last[T]}), last[T]>>]
             f == [U \in SUBSET T |-> IF U = {} THEN b ELSE IF U = T THEN top ELSE val(U)]
  <2>2. ASSUME NEW U \in SUBSET T, U # T PROVE val(U) \in X
    BY <2>1, <2>2
  <2>3. ASSUME NEW U \in SUBSET T, U # {}
        PROVE  last[U] \in U /\ U \ {last[U]} \in SUBSET T /\ U \ {last[U]} # T
    BY <2>3
  <2>4. ASSUME NEW U \in SUBSET T, U # T, U # {}
        PROVE  val(U) = step[<<val(U \ {last[U]}), last[U]>>]
    <3> DEFINE W == U \ {last[U]}
    <3>1. Folds(F(U), U) /\ Folds(F(W), W)
      BY <2>1, <2>3, <2>4
    <3>2. W \in SUBSET U /\ W \in SUBSET W /\ U \in SUBSET U /\ IsFiniteSet(U)
      BY FS_Subset
    <3>3. \A V \in SUBSET U : V # {} => last[V] \in V
      OBVIOUS
    <3>4. F(U)[U] = step[<<F(U)[W], last[U]>>]
      BY <2>4, <3>1, <3>2 DEF FoldsInto
    <3>5. F(U)[W] = F(W)[W]
      <4>1. FoldsInto(F(U), U, b, step, last) /\ FoldsInto(F(W), W, b, step, last)
        BY <3>1
      <4> HIDE DEF W, F
      <4> QED
        BY <3>2, <3>3, <4>1, FoldsAgree
    <3> QED
      BY <3>4, <3>5
  <2>5. T # {} => val({}) = b
    <3> SUFFICES ASSUME T # {} PROVE F({})[{}] = b
      OBVIOUS
    <3>1. Folds(F({}), {})
      BY <2>1
    <3> QED
      BY <3>1 DEF FoldsInto
  <2>6. ASSUME NEW U \in SUBSET T
        PROVE  f[U] = IF U = {} THEN b ELSE step[<<f[U \ {last[U]}], last[U]>>]
    <3>1. CASE U = {}
      BY <3>1
    <3>2. CASE U # {}
      <4> DEFINE W == U \ {last[U]}
      <4>1. f[W] = val(W)
        <5> HIDE DEF F
        <5> QED
          BY <2>3, <2>5, <3>2
      <4>2. f[U] = step[<<val(W), last[U]>>]
        <5> HIDE DEF F
        <5> QED
          BY <2>4, <3>2
      <4> HIDE DEF f
      <4> QED
        BY <3>2, <4>1, <4>2
    <3> QED
      BY <3>1, <3>2
  <2>7. \A U \in SUBSET T : f[U] \in X
    <3>1. T # {} => top \in X
      <4>1. T # {} => val(T \ {last[T]}) \in X /\ last[T] \in S
        BY <2>2, <2>3
      <4> HIDE DEF val
      <4> QED
        BY <4>1
    <3> HIDE DEF top, val
    <3> QED
      BY <2>2, <3>1
  <2>8. f \in [SUBSET T -> X]
    <3>1. f = [U \in SUBSET T |-> f[U]]
      OBVIOUS
    <3> HIDE DEF f
    <3> QED
      BY <2>7, <3>1
  <2>9. Folds(f, T)
    <3> HIDE DEF f
    <3> QED
      BY <2>6, <2>8 DEF FoldsInto
  <2> HIDE DEF f, Folds
  <2> QED
    BY <2>9
<1>2. S \in G
  <2> HIDE DEF G
  <2> QED
    BY <1>1, SubsetInduction
<1> QED
  BY <1>2

(***************************************************************************)
(* The union-find: parents that lead each record to a root.                 *)
(***************************************************************************)
Leads(p, r) == \A y \in DOMAIN p : r[y] = IF p[y] = y THEN y ELSE r[p[y]]
Forests(out) ==
    {p \in [out -> out] : /\ \E r \in [out -> out] : Leads(p, r)
                          /\ \A S \in SUBSET out : S # {} => \E y \in S : p[y] = y \/ p[y] \notin S}
RootOf(p) == CHOOSE root : root = [y \in DOMAIN p |-> IF p[y] = y THEN y ELSE root[p[y]]]

LEMMA RootIs ==
    ASSUME NEW out, NEW p \in Forests(out), NEW r \in [out -> out], Leads(p, r)
    PROVE  /\ \A x \in out : Root(p, x) = r[x]
           /\ \A x \in out : p[r[x]] = r[x]
<1>1. p \in [out -> out] /\ DOMAIN p = out
  BY DEF Forests
<1>2. \A S \in SUBSET out : S # {} => \E y \in S : p[y] = y \/ p[y] \notin S
  BY DEF Forests
<1>3. \A y \in out : r[y] = IF p[y] = y THEN y ELSE r[p[y]]
  BY <1>1 DEF Leads
<1>4. r = [y \in DOMAIN p |-> IF p[y] = y THEN y ELSE r[p[y]]]
  <2>1. r = [y \in out |-> r[y]]
    OBVIOUS
  <2> QED
    BY <1>1, <1>3, <2>1
<1>5. RootOf(p) = [y \in DOMAIN p |-> IF p[y] = y THEN y ELSE RootOf(p)[p[y]]]
  BY <1>4, Zenon DEF RootOf
<1>6. \A y \in out : RootOf(p)[y] = IF p[y] = y THEN y ELSE RootOf(p)[p[y]]
  <2> DEFINE g == RootOf(p)
  <2>1. g = [y \in out |-> IF p[y] = y THEN y ELSE g[p[y]]]
    BY <1>1, <1>5
  <2> HIDE DEF g
  <2>2. \A y \in out : g[y] = IF p[y] = y THEN y ELSE g[p[y]]
    BY <2>1
  <2> QED
    BY <2>2 DEF g
<1>7. \A y \in out : RootOf(p)[y] = r[y]
  <2> DEFINE S == {y \in out : RootOf(p)[y] # r[y]}
  <2>1. ASSUME NEW y \in S PROVE p[y] # y /\ p[y] \in S
    BY <1>1, <1>3, <1>6
  <2>2. S = {}
    <3> HIDE DEF S
    <3>1. S \in SUBSET out
      BY DEF S
    <3> QED
      BY <1>2, <2>1, <3>1
  <2> QED
    BY <2>2
<1>8. \A x \in out : p[r[x]] = r[x]
  <2> DEFINE S == {y \in out : p[r[y]] # r[y]}
  <2>1. ASSUME NEW y \in S PROVE p[y] # y /\ p[y] \in S
    BY <1>1, <1>3
  <2>2. S = {}
    <3> HIDE DEF S
    <3>1. S \in SUBSET out
      BY DEF S
    <3> QED
      BY <1>2, <2>1, <3>1
  <2> QED
    BY <2>2
<1>9. \A x \in out : Root(p, x) = RootOf(p)[x]
  BY DEF Root, RootOf
<1> QED
  BY <1>7, <1>8, <1>9

LEMMA RootKnown ==
    ASSUME NEW out, NEW p \in Forests(out), NEW x \in out PROVE Root(p, x) \in out
<1>1. PICK r \in [out -> out] : Leads(p, r)
  BY DEF Forests
<1> QED
  BY <1>1, RootIs

Linked(p, a, b) == [p EXCEPT ![Root(p, b)] = Root(p, a)]

\* A root that is put under another takes its tree along, and nothing else moves.
LEMMA RootsJoin ==
    ASSUME NEW out, NEW p \in Forests(out), NEW a \in out, NEW b \in out
    PROVE  /\ Linked(p, a, b) \in Forests(out)
           /\ \A x \in out : Root(Linked(p, a, b), x) =
                              IF Root(p, x) = Root(p, b) THEN Root(p, a) ELSE Root(p, x)
<1> DEFINE q == Linked(p, a, b)
<1>1. PICK r \in [out -> out] : Leads(p, r)
  BY DEF Forests
<1>2. /\ \A x \in out : Root(p, x) = r[x]
      /\ \A x \in out : p[r[x]] = r[x]
  BY <1>1, RootIs
<1>3. p \in [out -> out] /\ DOMAIN p = out
  BY DEF Forests
<1>4. \A S \in SUBSET out : S # {} => \E y \in S : p[y] = y \/ p[y] \notin S
  BY DEF Forests
<1>5. \A y \in out : r[y] = IF p[y] = y THEN y ELSE r[p[y]]
  BY <1>1, <1>3 DEF Leads
<1> DEFINE ra == r[a]
           rb == r[b]
           to == [x \in out |-> IF r[x] = rb THEN ra ELSE r[x]]
<1>6. ra \in out /\ rb \in out /\ p[ra] = ra /\ p[rb] = rb /\ r[ra] = ra /\ r[rb] = rb
  BY <1>2, <1>5
<1>7. q \in [out -> out] /\ q[rb] = ra /\ \A y \in out : y # rb => q[y] = p[y]
  BY <1>2, <1>3, <1>6 DEF Linked
<1>8. to \in [out -> out] /\ \A x \in out : to[x] = IF r[x] = rb THEN ra ELSE r[x]
  BY <1>6
<1> HIDE DEF to, ra, rb, q
<1>9. \A S \in SUBSET out : S # {} => \E y \in S : q[y] = y \/ q[y] \notin S
  <2> SUFFICES ASSUME NEW S \in SUBSET out, S # {}, \A y \in S : q[y] # y /\ q[y] \in S PROVE FALSE
    OBVIOUS
  <2>1. CASE rb \notin S
    BY <1>4, <1>7, <2>1
  <2>2. CASE rb \in S
    <3>1. ra \in S /\ ra # rb
      BY <1>7, <2>2
    <3> QED
      BY <1>6, <1>7, <3>1
  <2> QED
    BY <2>1, <2>2
<1>10. Leads(q, to)
  <2> SUFFICES ASSUME NEW y \in out PROVE to[y] = IF q[y] = y THEN y ELSE to[q[y]]
    BY <1>7 DEF Leads
  <2>1. CASE y = rb
    BY <1>6, <1>7, <1>8, <2>1
  <2>2. CASE y # rb /\ p[y] = y
    BY <1>5, <1>7, <1>8, <2>2
  <2>3. CASE y # rb /\ p[y] # y
    <3>1. p[y] \in out /\ r[y] = r[p[y]] /\ q[y] = p[y]
      BY <1>3, <1>5, <1>7, <2>3
    <3> QED
      BY <1>8, <2>3, <3>1
  <2> QED
    BY <2>1, <2>2, <2>3
<1>11. q \in Forests(out)
  BY <1>7, <1>8, <1>9, <1>10 DEF Forests
<1>12. \A x \in out : Root(q, x) = to[x]
  BY <1>8, <1>10, <1>11, RootIs
<1>13. Root(p, a) = ra /\ Root(p, b) = rb
  BY <1>2 DEF ra, rb
<1>14. \A x \in out : Root(q, x) = IF Root(p, x) = Root(p, b) THEN Root(p, a) ELSE Root(p, x)
  <2> SUFFICES ASSUME NEW x \in out
               PROVE  Root(q, x) = IF Root(p, x) = Root(p, b) THEN Root(p, a) ELSE Root(p, x)
    OBVIOUS
  <2>1. Root(q, x) = to[x] /\ to[x] = (IF r[x] = rb THEN ra ELSE r[x]) /\ Root(p, x) = r[x]
    BY <1>2, <1>8, <1>12
  <2> QED
    BY <1>13, <2>1, Zenon
<1> QED
  BY <1>11, <1>14 DEF q

LEMMA JoinedIsForest ==
    ASSUME NEW out, NEW p \in Forests(out), NEW pair \in out \X out
    PROVE  /\ Joined(p, pair) \in Forests(out)
           /\ \A x, y \in out : Root(p, x) = Root(p, y)
                                  => Root(Joined(p, pair), x) = Root(Joined(p, pair), y)
           /\ Names(pair[1]) \cap Names(pair[2]) # {}
                => Root(Joined(p, pair), pair[1]) = Root(Joined(p, pair), pair[2])
<1>1. CASE Names(pair[1]) \cap Names(pair[2]) = {}
  BY <1>1 DEF Joined
<1>2. CASE Names(pair[1]) \cap Names(pair[2]) # {}
  <2> DEFINE a == pair[1]
             b == pair[2]
             q == Linked(p, a, b)
  <2>1. Joined(p, pair) = q
    BY <1>2 DEF Joined, Linked
  <2>2. a \in out /\ b \in out
    OBVIOUS
  <2> HIDE DEF a, b
  <2>4. q \in Forests(out)
    BY <2>2, RootsJoin
  <2>5. \A x \in out : Root(q, x) = IF Root(p, x) = Root(p, b) THEN Root(p, a) ELSE Root(p, x)
    BY <2>2, RootsJoin
  <2> HIDE DEF q
  <2>6. \A x, y \in out : Root(p, x) = Root(p, y) => Root(q, x) = Root(q, y)
    BY <2>5
  <2>7. Root(q, a) = Root(q, b)
    BY <2>2, <2>5
  <2> QED
    BY <2>1, <2>4, <2>6, <2>7 DEF a, b
<1> QED
  BY <1>1, <1>2

\* At first each record is its own root.
LEMMA AloneAtFirst == ASSUME NEW out PROVE [r \in out |-> r] \in Forests(out)
<1> DEFINE p == [r \in out |-> r]
<1>1. p \in [out -> out] /\ DOMAIN p = out /\ \A y \in out : p[y] = y
  OBVIOUS
<1> HIDE DEF p
<1>2. Leads(p, p)
  BY <1>1 DEF Leads
<1>3. \A S \in SUBSET out : S # {} => \E y \in S : p[y] = y \/ p[y] \notin S
  BY <1>1
<1>4. p \in Forests(out)
  BY <1>1, <1>2, <1>3 DEF Forests
<1> QED
  BY <1>4 DEF p

(***************************************************************************)
(* What the loops make: a forest in which records that share a name have    *)
(* one root.                                                                *)
(***************************************************************************)
\* Records with an id each, and ids, ranks and severities that compare.
Layer(S) ==
    /\ IsFiniteSet(S)
    /\ \A r \in S : r.id \in Int /\ r.rank \in Int /\ r.severity \in Int
    /\ \A r, q \in S : r.id = q.id => r = q

LEMMA LastPairIsOne ==
    ASSUME NEW out, Layer(out), NEW T \in SUBSET Pairs(out), T # {} PROVE LastPair(T) \in T
<1> DEFINE After(p, q) == q[1].id < p[1].id \/ (q[1].id = p[1].id /\ q[2].id <= p[2].id)
           R == {x \in T \X T : After(x[2], x[1])}
<1>1. IsFiniteSet(T)
  <2>1. IsFiniteSet(out \X out)
    BY FS_Product DEF Layer
  <2> QED
    BY <2>1, FS_Subset DEF Pairs
<1>2. \A p \in T : p[1].id \in Int /\ p[2].id \in Int
  BY DEF Layer, Pairs
<1>3. \A p, q \in T : <<q, p>> \in R <=> After(p, q)
  OBVIOUS
<1>4. \A p, q \in T : After(p, q) \/ After(q, p)
  BY <1>2
<1>5. \A p, q, o \in T : After(p, q) /\ After(q, o) => After(p, o)
  BY <1>2
<1> HIDE DEF R
<1>6. \E p \in T : \A q \in T : <<q, p>> \in R
  <2> HIDE DEF After
  <2>1. \A x, y \in T : <<x, y>> \in R \/ <<y, x>> \in R
    BY <1>3, <1>4
  <2>2. \A x, y, z \in T : <<x, y>> \in R /\ <<y, z>> \in R => <<x, z>> \in R
    BY <1>3, <1>5
  <2> QED
    BY <1>1, <2>1, <2>2, LastExists
<1>7. \E p \in T : \A q \in T : After(p, q)
  <2> HIDE DEF After
  <2> QED
    BY <1>3, <1>6
<1> QED
  BY <1>7, Zenon DEF LastPair

Joining(out) ==
    CHOOSE iter : iter = [s \in SUBSET Pairs(out) |->
                            IF s = {} THEN [r \in out |-> r]
                            ELSE Joined(iter[s \ {LastPair(s)}], LastPair(s))]

LEMMA ParentsAre == ASSUME NEW out PROVE Parents(out) = Joining(out)[Pairs(out)]
BY DEF Parents, MapThenFoldSet, Joining

LEMMA JoiningIs ==
    ASSUME NEW out, Layer(out), NEW T \in SUBSET Pairs(out)
    PROVE  Joining(out)[T] = IF T = {} THEN [r \in out |-> r]
                             ELSE Joined(Joining(out)[T \ {LastPair(T)}], LastPair(T))
<1> DEFINE S == Pairs(out)
           X == Forests(out)
           b == [r \in out |-> r]
           step == [x \in X \X S |-> Joined(x[1], x[2])]
           last == [U \in SUBSET S |-> LastPair(U)]
           join(f, U) == IF U = {} THEN b ELSE Joined(f[U \ {LastPair(U)}], LastPair(U))
<1>1. IsFiniteSet(S)
  <2>1. IsFiniteSet(out \X out)
    BY FS_Product DEF Layer
  <2> QED
    BY <2>1, FS_Subset DEF Pairs
<1>2. b \in X
  BY AloneAtFirst
<1>3. step \in [X \X S -> X]
  <2>1. \A x \in X \X S : Joined(x[1], x[2]) \in X
    <3> SUFFICES ASSUME NEW x \in X \X S PROVE Joined(x[1], x[2]) \in X
      OBVIOUS
    <3>1. x[1] \in Forests(out) /\ x[2] \in out \X out
      BY DEF Pairs
    <3> QED
      BY <3>1, JoinedIsForest
  <2> QED
    BY <2>1
<1>4. \A U \in SUBSET S : U # {} => last[U] \in U
  BY LastPairIsOne
<1>5. \E f \in [SUBSET S -> X] : FoldsInto(f, S, b, step, last)
  <2> HIDE DEF S, X, b, step, last
  <2> QED
    BY <1>1, <1>2, <1>3, <1>4, FoldExists
<1>6. PICK f \in [SUBSET S -> X] : FoldsInto(f, S, b, step, last)
  BY <1>5
<1>7. \A U \in SUBSET S : f[U] = join(f, U)
  <2> SUFFICES ASSUME NEW U \in SUBSET S PROVE f[U] = join(f, U)
    OBVIOUS
  <2>1. f[U] = IF U = {} THEN b ELSE step[<<f[U \ {last[U]}], last[U]>>]
    BY <1>6, Zenon DEF FoldsInto
  <2>2. U # {} => step[<<f[U \ {last[U]}], last[U]>>] = Joined(f[U \ {LastPair(U)}], LastPair(U))
    <3> SUFFICES ASSUME U # {}
                 PROVE  step[<<f[U \ {last[U]}], last[U]>>] =
                          Joined(f[U \ {LastPair(U)}], LastPair(U))
      OBVIOUS
    <3>1. last[U] = LastPair(U) /\ LastPair(U) \in S
      BY <1>4
    <3>2. f[U \ {LastPair(U)}] \in X
      OBVIOUS
    <3> HIDE DEF X, S, last
    <3> QED
      BY <3>1, <3>2
  <2> HIDE DEF step, b, last
  <2> QED
    BY <2>1, <2>2
<1>8. f = [U \in SUBSET S |-> join(f, U)]
  <2>1. f = [U \in SUBSET S |-> f[U]]
    OBVIOUS
  <2> HIDE DEF join, S, X
  <2> QED
    BY <1>7, <2>1
<1>9. Joining(out) = [U \in SUBSET S |-> join(Joining(out), U)]
  BY <1>8, Zenon DEF Joining
<1>10. \A U \in SUBSET S : Joining(out)[U] = join(Joining(out), U)
  <2> DEFINE g == Joining(out)
  <2>1. g = [U \in SUBSET S |-> join(g, U)]
    BY <1>9
  <2> HIDE DEF g, join, S
  <2>2. \A U \in SUBSET S : g[U] = join(g, U)
    BY <2>1
  <2> QED
    BY <2>2 DEF g
<1> QED
  BY <1>10

Together(parent, pair) ==
    Names(pair[1]) \cap Names(pair[2]) # {} => Root(parent, pair[1]) = Root(parent, pair[2])

LEMMA SharersJoin ==
    ASSUME NEW out, Layer(out)
    PROVE  /\ Parents(out) \in Forests(out)
           /\ \A pair \in Pairs(out) : Together(Parents(out), pair)
<1> DEFINE S == Pairs(out)
           J(T) == Joining(out)[T]
           G == {T \in SUBSET S : J(T) \in Forests(out) /\ \A pair \in T : Together(J(T), pair)}
<1>1. ASSUME NEW T \in SUBSET S, \A U \in SUBSET T : U # T => U \in G
      PROVE  T \in G
  <2>1. CASE T = {}
    <3>1. J(T) = [r \in out |-> r]
      BY <2>1, JoiningIs
    <3>2. J(T) \in Forests(out)
      BY <3>1, AloneAtFirst
    <3> QED
      BY <2>1, <3>2
  <2>2. CASE T # {}
    <3> DEFINE l == LastPair(T)
               U == T \ {l}
    <3>1. l \in T
      BY <2>2, LastPairIsOne
    <3>2. U \in G
      BY <1>1, <3>1
    <3>3. J(T) = Joined(J(U), l)
      BY <2>2, JoiningIs
    <3>4. J(U) \in Forests(out) /\ \A pair \in U : Together(J(U), pair)
      BY <3>2
    <3>5. l \in out \X out /\ \A pair \in U : pair[1] \in out /\ pair[2] \in out
      BY <3>1 DEF Pairs
    <3> DEFINE p == J(U)
               q == J(T)
    <3>6. p \in Forests(out) /\ q = Joined(p, l) /\ \A pair \in U : Together(p, pair)
      BY <3>3, <3>4
    <3> HIDE DEF J, l, p, q
    <3>7. /\ q \in Forests(out)
          /\ \A x, y \in out : Root(p, x) = Root(p, y) => Root(q, x) = Root(q, y)
          /\ Names(l[1]) \cap Names(l[2]) # {} => Root(q, l[1]) = Root(q, l[2])
      BY <3>5, <3>6, JoinedIsForest
    <3>8. \A pair \in U : Together(q, pair)
      BY <3>5, <3>6, <3>7 DEF Together
    <3>9. Together(q, l)
      BY <3>7 DEF Together
    <3>10. \A pair \in T : Together(q, pair)
      BY <3>8, <3>9
    <3> USE DEF q
    <3> QED
      BY <3>7, <3>10
  <2> QED
    BY <2>1, <2>2
<1>2. IsFiniteSet(S)
  <2>1. IsFiniteSet(out \X out)
    BY FS_Product DEF Layer
  <2> QED
    BY <2>1, FS_Subset DEF Pairs
<1>3. S \in G
  <2> HIDE DEF G
  <2> QED
    BY <1>1, <1>2, SubsetInduction
<1> QED
  BY <1>3, ParentsAre

(***************************************************************************)
(* What is reported of a cluster.                                           *)
(***************************************************************************)
LEMMA ClustersAre ==
    ASSUME NEW out, Layer(out), NEW c \in Clusters(out)
    PROVE  c \in SUBSET out /\ c # {} /\ IsFiniteSet(c)
<1>1. PICK r \in out : c = {q \in out : Root(Parents(out), q) = Root(Parents(out), r)}
  BY DEF Clusters
<1>2. c \in SUBSET out /\ r \in c
  BY <1>1
<1> QED
  BY <1>2, FS_Subset DEF Layer

LEMMA RepresentativeIsOne ==
    ASSUME NEW out, Layer(out), NEW c \in SUBSET out, c # {} PROVE Representative(c) \in c
<1> DEFINE R == {x \in c \X c : RanksBefore(x[2], x[1])}
<1>1. IsFiniteSet(c)
  BY FS_Subset DEF Layer
<1>2. \A r \in c : r.rank \in Int /\ r.id \in Int
  BY DEF Layer
<1>3. \A r, q \in c : <<q, r>> \in R <=> RanksBefore(r, q)
  OBVIOUS
<1>4. \A r, q \in c : RanksBefore(r, q) \/ RanksBefore(q, r)
  BY <1>2 DEF RanksBefore
<1>5. \A r, q, o \in c : RanksBefore(r, q) /\ RanksBefore(q, o) => RanksBefore(r, o)
  BY <1>2 DEF RanksBefore
<1> HIDE DEF R
<1>6. \E r \in c : \A q \in c : <<q, r>> \in R
  <2>1. \A x, y \in c : <<x, y>> \in R \/ <<y, x>> \in R
    BY <1>3, <1>4
  <2>2. \A x, y, z \in c : <<x, y>> \in R /\ <<y, z>> \in R => <<x, z>> \in R
    BY <1>3, <1>5
  <2> QED
    BY <1>1, <2>1, <2>2, LastExists
<1>7. \E r \in c : \A q \in c : RanksBefore(r, q)
  BY <1>3, <1>6
<1> QED
  BY <1>7, Zenon DEF Representative

LEMMA WorstOfCluster ==
    ASSUME NEW out, Layer(out), NEW c \in SUBSET out, c # {}
    PROVE  \A q \in c : q.severity <= Kept(c).severity
<1> DEFINE S == {q.severity : q \in c}
           R == {x \in c \X c : x[1].severity <= x[2].severity}
<1>1. IsFiniteSet(c)
  BY FS_Subset DEF Layer
<1>2. \A q \in c : q.severity \in Int
  BY DEF Layer
<1>3. \A x, y \in c : <<x, y>> \in R <=> x.severity <= y.severity
  OBVIOUS
<1> HIDE DEF R
<1>4. \E r \in c : \A q \in c : q.severity <= r.severity
  <2>1. \A x, y \in c : x.severity <= y.severity \/ y.severity <= x.severity
    BY <1>2
  <2>2. \A x, y \in c : <<x, y>> \in R \/ <<y, x>> \in R
    BY <1>3, <2>1
  <2>3. \A x, y, z \in c : <<x, y>> \in R /\ <<y, z>> \in R => <<x, z>> \in R
    BY <1>2, <1>3
  <2>4. \E x \in c : \A y \in c : <<y, x>> \in R
    BY <1>1, <2>2, <2>3, LastExists
  <2> QED
    BY <1>3, <2>4
<1>5. \E x \in S : \A q \in c : q.severity <= x
  BY <1>4
<1>6. \A q \in c : q.severity <= Worst(c)
  BY <1>5, Zenon DEF Worst
<1> QED
  BY <1>6 DEF Kept

LEMMA KeptNames ==
    ASSUME NEW out, Layer(out), NEW c \in SUBSET out, c # {}
    PROVE  Names(Kept(c)) = AllNames(c) /\ \E r \in c : Kept(c).id = r.id
<1> DEFINE id == Representative(c).id
<1>1. Representative(c) \in c
  BY RepresentativeIsOne
<1>2. Kept(c).id = id /\ Kept(c).aliases = AllNames(c) \ {id}
  BY DEF Kept
<1>3. id \in AllNames(c)
  BY <1>1 DEF Names, AllNames
<1>4. Names(Kept(c)) = {Kept(c).id} \cup Kept(c).aliases
  BY DEF Names
<1> HIDE DEF id
<1>5. Names(Kept(c)) = AllNames(c)
  BY <1>2, <1>3, <1>4
<1> USE DEF id
<1> QED
  BY <1>1, <1>2, <1>5

LEMMA LoadedIsLayer ==
    ASSUME NEW upstream, NEW overlay, Layer(upstream), Layer(overlay), NEW v
    PROVE  Layer(Matches(Loaded(upstream, overlay), v))
<1>1. IsFiniteSet(upstream \cup overlay)
  BY FS_Union DEF Layer
<1>2. Matches(Loaded(upstream, overlay), v) \subseteq upstream \cup overlay
  BY DEF Matches, Loaded
<1>3. \A r, q \in Loaded(upstream, overlay) : r.id = q.id => r = q
  BY DEF Layer, Loaded, RecordIds
<1>4. Matches(Loaded(upstream, overlay), v) \subseteq Loaded(upstream, overlay)
  BY DEF Matches
<1>5. IsFiniteSet(Matches(Loaded(upstream, overlay), v))
  BY <1>1, <1>2, FS_Subset
<1> QED
  BY <1>2, <1>3, <1>4, <1>5 DEF Layer

\* The records of an export and of an overlay are layers.
RecordsAreLayers == case.of = "records" => Layer(case.upstream) /\ Layer(case.overlay)

\* "one vulnerability published under several ids" is counted once (collapse_alias_duplicates,
\* core/osv.rs:834), for any number of records and chains of aliases of any length.
THEOREM VulnerabilitiesCountOnce == ASSUME RecordsAreLayers PROVE CountedOnce
<1> SUFFICES ASSUME NEW v, NEW f \in Found(v), NEW g \in Found(v),
                    Names(f) \cap Names(g) # {}
             PROVE  f = g
  BY DEF CountedOnce
<1> DEFINE out == Matches(Loaded(case.upstream, case.overlay), v)
<1>1. case.of = "records" /\ Found(v) = {Kept(c) : c \in Clusters(out)}
  BY DEF Found, Reported
<1>2. Layer(out)
  BY <1>1, LoadedIsLayer DEF RecordsAreLayers
<1> HIDE DEF out
<1>3. PICK c \in Clusters(out), d \in Clusters(out) : f = Kept(c) /\ g = Kept(d)
  BY <1>1
<1>4. c \in SUBSET out /\ c # {} /\ d \in SUBSET out /\ d # {}
  BY <1>2, ClustersAre
<1>5. Names(f) = AllNames(c) /\ Names(g) = AllNames(d)
  BY <1>2, <1>3, <1>4, KeptNames
<1>6. PICK r \in c, q \in d : Names(r) \cap Names(q) # {}
  BY <1>5 DEF AllNames
<1> DEFINE root(x) == Root(Parents(out), x)
<1>7. root(r) = root(q)
  <2>1. r \in out /\ q \in out /\ r.id \in Int /\ q.id \in Int /\ (r.id = q.id => r = q)
    BY <1>2, <1>4 DEF Layer
  <2>2. CASE r.id < q.id
    <3>1. <<r, q>> \in Pairs(out)
      BY <2>1, <2>2 DEF Pairs
    <3> QED
      BY <1>2, <1>6, <3>1, SharersJoin DEF Together
  <2>3. CASE q.id < r.id
    <3>1. <<q, r>> \in Pairs(out)
      BY <2>1, <2>3 DEF Pairs
    <3> QED
      BY <1>2, <1>6, <3>1, SharersJoin DEF Together
  <2> QED
    BY <2>1, <2>2, <2>3
<1>8. c = {x \in out : root(x) = root(r)} /\ d = {x \in out : root(x) = root(q)}
  <2>1. PICK s \in out : c = {x \in out : root(x) = root(s)}
    BY DEF Clusters
  <2>2. PICK t \in out : d = {x \in out : root(x) = root(t)}
    BY DEF Clusters
  <2>3. root(r) = root(s) /\ root(q) = root(t)
    BY <2>1, <2>2
  <2> HIDE DEF root
  <2> QED
    BY <2>1, <2>2, <2>3
<1> QED
  BY <1>3, <1>7, <1>8

\* "a record with withdrawn set retracts the upstream record of that id" (core/osv.rs:448), and
\* no finding is dropped or softened by the collapse, for any export and any overlay.
THEOREM RecordsAreReported == ASSUME RecordsAreLayers PROVE ReportedIsOnRecord
<1> SUFFICES ASSUME NEW v \in CaseVersions
             PROVE  /\ {f.id : f \in Found(v)} \subseteq RecordIds(Speaking(v))
                    /\ \A r \in Speaking(v) :
                         \E f \in Found(v) : Names(r) \subseteq Names(f) /\ f.severity >= r.severity
  BY DEF ReportedIsOnRecord
<1>1. CASE case.of # "records"
  BY <1>1 DEF Found, Speaking
<1>2. CASE case.of = "records"
  <2> DEFINE out == Matches(Loaded(case.upstream, case.overlay), v)
  <2>1. Found(v) = {Kept(c) : c \in Clusters(out)}
    BY <1>2 DEF Found, Reported
  <2>2. Layer(out)
    BY <1>2, LoadedIsLayer DEF RecordsAreLayers
  <2>3. Speaking(v) = out
    BY <1>2 DEF Speaking, Speaks, Says, Matches, Loaded, RecordIds
  <2> HIDE DEF out
  <2>4. ASSUME NEW f \in Found(v) PROVE f.id \in RecordIds(Speaking(v))
    <3>1. PICK c \in Clusters(out) : f = Kept(c)
      BY <2>1
    <3>2. c \in SUBSET out /\ c # {}
      BY <2>2, ClustersAre
    <3>3. PICK r \in c : f.id = r.id
      BY <2>2, <3>1, <3>2, KeptNames
    <3> QED
      BY <2>3, <3>2, <3>3 DEF RecordIds
  <2>5. ASSUME NEW r \in Speaking(v)
        PROVE  \E f \in Found(v) : Names(r) \subseteq Names(f) /\ f.severity >= r.severity
    <3> DEFINE c == {q \in out : Root(Parents(out), q) = Root(Parents(out), r)}
               f == Kept(c)
    <3>1. r \in c /\ c \in Clusters(out) /\ c \in SUBSET out /\ c # {}
      BY <2>3 DEF Clusters
    <3> HIDE DEF c
    <3>2. f \in Found(v)
      BY <2>1, <3>1
    <3>3. Names(f) = AllNames(c)
      BY <2>2, <3>1, KeptNames
    <3>4. r.severity <= f.severity
      BY <2>2, <3>1, WorstOfCluster
    <3>5. Names(r) \subseteq Names(f)
      BY <3>1, <3>3 DEF AllNames
    <3>6. f.severity >= r.severity
      BY <3>4
    <3> HIDE DEF f
    <3> QED
      BY <3>2, <3>5, <3>6
  <2> QED
    BY <2>4, <2>5
<1> QED
  BY <1>1, <1>2

-----------------------------------------------------------------------------
(***************************************************************************)
(* The view of an image.  Paths and what is within them.                    *)
(***************************************************************************)
Paths == Range(TextOrder)

LEMMA PathsAre ==
    /\ \A p \in Paths : p \in Seq(STRING) /\ p # <<>>
    /\ \A p \in Paths : Place(p) \in DOMAIN TextOrder /\ TextOrder[Place(p)] = p
    /\ DOMAIN TextOrder \subseteq Nat
<1>1. TextOrder \in Seq(Seq(STRING) \ {<<>>})
  BY TextOrderAssumption
<1>2. DOMAIN TextOrder \subseteq Nat
  BY <1>1
<1>3. ASSUME NEW p \in Paths
      PROVE  /\ p \in Seq(STRING) /\ p # <<>>
             /\ Place(p) \in DOMAIN TextOrder /\ TextOrder[Place(p)] = p
  <2>1. PICK i \in DOMAIN TextOrder : TextOrder[i] = p
    BY DEF Paths, Range
  <2>2. TextOrder[i] \in Seq(STRING) \ {<<>>}
    BY <1>1
  <2>3. Place(p) \in DOMAIN TextOrder /\ TextOrder[Place(p)] = p
    BY <2>1, Zenon DEF Place
  <2> QED
    BY <2>1, <2>2, <2>3
<1> QED
  BY <1>2, <1>3

LEMMA PlaceTells ==
    ASSUME NEW p \in Paths, NEW q \in Paths, Place(p) = Place(q) PROVE p = q
BY PathsAre

LEMMA WithinIs ==
    ASSUME NEW p \in Seq(STRING), NEW d \in Seq(STRING)
    PROVE  Within(p, d) <=> Len(d) <= Len(p) /\ \A i \in 1..Len(d) : d[i] = p[i]
<1>1. ASSUME Len(d) <= Len(p)
      PROVE  /\ \A i \in 1..Len(d) : SubSeq(d, 1, Len(d))[i] = d[i] /\ SubSeq(p, 1, Len(d))[i] = p[i]
             /\ DOMAIN SubSeq(d, 1, Len(d)) = 1..Len(d) /\ DOMAIN SubSeq(p, 1, Len(d)) = 1..Len(d)
             /\ SubSeq(d, 1, Len(d)) \in Seq(STRING) /\ SubSeq(p, 1, Len(d)) \in Seq(STRING)
  BY <1>1
<1>2. ASSUME Len(d) <= Len(p), \A i \in 1..Len(d) : d[i] = p[i]
      PROVE  SubSeq(d, 1, Len(d)) = SubSeq(p, 1, Len(d))
  BY <1>1, <1>2
<1>3. ASSUME Len(d) <= Len(p), SubSeq(d, 1, Len(d)) = SubSeq(p, 1, Len(d))
      PROVE  \A i \in 1..Len(d) : d[i] = p[i]
  BY <1>1, <1>3
<1> QED
  BY <1>2, <1>3 DEF Within, IsPrefix

LEMMA WithinOrders ==
    /\ \A p \in Paths : Within(p, p)
    /\ \A p, q, o \in Paths : Within(p, q) /\ Within(q, o) => Within(p, o)
    /\ \A p, q \in Paths : Within(p, q) /\ Within(q, p) => p = q
<1>1. \A p, q \in Paths : Within(p, q) <=> Len(q) <= Len(p) /\ \A i \in 1..Len(q) : q[i] = p[i]
  BY PathsAre, WithinIs
<1>2. \A p \in Paths : p \in Seq(STRING) /\ Len(p) \in Nat
  BY PathsAre
<1>3. \A p \in Paths : Within(p, p)
  BY <1>1, <1>2
<1>4. \A p, q, o \in Paths : Within(p, q) /\ Within(q, o) => Within(p, o)
  <2> SUFFICES ASSUME NEW p \in Paths, NEW q \in Paths, NEW o \in Paths, Within(p, q), Within(q, o)
               PROVE  Within(p, o)
    OBVIOUS
  <2>1. Len(o) <= Len(q) /\ Len(q) <= Len(p) /\ Len(o) \in Nat /\ Len(q) \in Nat /\ Len(p) \in Nat
    BY <1>1, <1>2
  <2>2. \A i \in 1..Len(o) : o[i] = q[i] /\ i \in 1..Len(q)
    BY <1>1, <2>1
  <2>3. \A i \in 1..Len(q) : q[i] = p[i]
    BY <1>1
  <2> QED
    BY <1>1, <2>1, <2>2, <2>3
<1>5. \A p, q \in Paths : Within(p, q) /\ Within(q, p) => p = q
  <2> SUFFICES ASSUME NEW p \in Paths, NEW q \in Paths, Within(p, q), Within(q, p) PROVE p = q
    OBVIOUS
  <2>1. Len(p) = Len(q) /\ \A i \in 1..Len(q) : q[i] = p[i]
    BY <1>1, <1>2
  <2> QED
    BY <1>2, <2>1
<1> QED
  BY <1>3, <1>4, <1>5

\* What is in a directory has a parent in it, which comes before it.
LEMMA ParentIs ==
    ASSUME NEW p \in Paths, NEW d \in Paths, Within(p, d), p # d
    PROVE  /\ Front(p) \in Paths /\ Within(Front(p), d) /\ Within(p, Front(p))
           /\ Len(p) > 1 /\ Place(Front(p)) < Place(p)
<1>1. p \in Seq(STRING) /\ d \in Seq(STRING) /\ Len(p) \in Nat /\ Len(d) \in Nat /\ d # <<>>
  BY PathsAre
<1>2. Len(d) <= Len(p) /\ \A i \in 1..Len(d) : d[i] = p[i]
  BY <1>1, WithinIs
<1>3. Len(d) # Len(p) /\ Len(d) # 0
  BY <1>1, <1>2
<1>4. Len(p) > 1
  BY <1>1, <1>2, <1>3
<1>5. Front(p) \in Seq(STRING) /\ Len(Front(p)) = Len(p) - 1
      /\ \A i \in 1..(Len(p) - 1) : Front(p)[i] = p[i]
  BY <1>1, <1>4 DEF Front
<1>6. PICK n \in 1..(Place(p) - 1) : TextOrder[n] = Front(p)
  BY <1>4, PathsAre, TextOrderAssumption
<1>7. Place(p) \in DOMAIN TextOrder /\ DOMAIN TextOrder = 1..Len(TextOrder) /\ Len(TextOrder) \in Nat
  BY PathsAre, TextOrderAssumption
<1>8. n \in DOMAIN TextOrder
  BY <1>6, <1>7
<1>9. Front(p) \in Paths
  BY <1>6, <1>8 DEF Paths, Range
<1>10. Place(Front(p)) = n
  BY <1>6, <1>8, <1>9, PathsAre, TextOrderAssumption
<1>11. Place(Front(p)) < Place(p)
  BY <1>6, <1>7, <1>10
<1>12. Within(Front(p), d)
  <2>1. Len(d) <= Len(p) - 1
    BY <1>1, <1>2, <1>3
  <2>2. \A i \in 1..Len(d) : d[i] = Front(p)[i]
    BY <1>1, <1>2, <1>5, <2>1
  <2>3. Len(d) <= Len(Front(p))
    BY <1>5, <2>1
  <2> QED
    BY <1>1, <1>5, <2>2, <2>3, WithinIs
<1>13. Within(p, Front(p))
  <2>1. Len(Front(p)) <= Len(p) /\ \A i \in 1..Len(Front(p)) : Front(p)[i] = p[i]
    BY <1>1, <1>5
  <2> QED
    BY <1>1, <1>5, <2>1, WithinIs
<1> QED
  BY <1>4, <1>9, <1>11, <1>12, <1>13

(***************************************************************************)
(* What an entry does to the view.                                          *)
(***************************************************************************)
Kinds == {"dir", "file", "binary", "opaque", "whiteout"}
Entry == [path : Paths, kind : Kinds]
Views == UNION {[D -> [layer : Nat, kind : Kinds]] : D \in SUBSET Paths}
Puts(e) == e.kind \notin {"opaque", "whiteout"}

Gone(fs, layer, e) ==
    {k \in DOMAIN fs :
        \/ e.kind = "opaque" /\ Within(k, e.path) /\ k # e.path /\ fs[k].layer < layer
        \/ e.kind = "whiteout" /\ k \in Walked(fs, e.path) /\ fs[k].layer < layer
        \/ /\ e.kind \in {"file", "binary"} /\ e.path \in DOMAIN fs /\ fs[e.path].kind = "dir"
           /\ k \in Walked(fs, e.path) /\ fs[k].layer < layer + 1}

LEMMA ViewIs ==
    ASSUME NEW fs
    PROVE  fs \in Views <=> fs \in [DOMAIN fs -> [layer : Nat, kind : Kinds]] /\ DOMAIN fs \subseteq Paths
BY DEF Views

LEMMA ApplyIs ==
    ASSUME NEW fs \in Views, NEW layer \in Nat, NEW e \in Entry
    PROVE  /\ DOMAIN Apply(fs, layer, e) =
                (DOMAIN fs \ Gone(fs, layer, e)) \cup (IF Puts(e) THEN {e.path} ELSE {})
           /\ \A p \in DOMAIN Apply(fs, layer, e) :
                Apply(fs, layer, e)[p] =
                  IF Puts(e) /\ p = e.path THEN [layer |-> layer, kind |-> e.kind] ELSE fs[p]
<1> DEFINE t == Apply(fs, layer, e)
<1>1. e.kind \in Kinds
  BY DEF Entry
<1>2. \A doomed : /\ DOMAIN Without(fs, doomed) = DOMAIN fs \ doomed
                  /\ \A p \in DOMAIN fs \ doomed : Without(fs, doomed)[p] = fs[p]
  BY DEF Without
<1>3. CASE e.kind = "opaque"
  <2>1. t = RemoveChildren(fs, e.path, layer)
    BY <1>3 DEF Apply
  <2>2. t = Without(fs, Gone(fs, layer, e))
    BY <1>3, <2>1 DEF RemoveChildren, Gone
  <2> HIDE DEF t
  <2>3. DOMAIN t = DOMAIN fs \ Gone(fs, layer, e) /\ \A p \in DOMAIN t : t[p] = fs[p]
    BY <1>2, <2>2
  <2>4. ~Puts(e)
    BY <1>3 DEF Puts
  <2>5. /\ DOMAIN t = (DOMAIN fs \ Gone(fs, layer, e)) \cup (IF Puts(e) THEN {e.path} ELSE {})
        /\ \A p \in DOMAIN t : t[p] = IF Puts(e) /\ p = e.path THEN [layer |-> layer, kind |-> e.kind] ELSE fs[p]
    BY <2>3, <2>4
  <2> QED
    BY <2>5 DEF t
<1>4. CASE e.kind = "whiteout"
  <2>1. t = RemoveTree(fs, e.path, layer)
    BY <1>4 DEF Apply
  <2>2. {k \in Walked(fs, e.path) : fs[k].layer < layer} = Gone(fs, layer, e)
    BY <1>4 DEF Gone, Walked
  <2>3. t = Without(fs, Gone(fs, layer, e))
    BY <2>1, <2>2 DEF RemoveTree
  <2> HIDE DEF t
  <2>4. DOMAIN t = DOMAIN fs \ Gone(fs, layer, e) /\ \A p \in DOMAIN t : t[p] = fs[p]
    BY <1>2, <2>3
  <2>5. ~Puts(e)
    BY <1>4 DEF Puts
  <2>6. /\ DOMAIN t = (DOMAIN fs \ Gone(fs, layer, e)) \cup (IF Puts(e) THEN {e.path} ELSE {})
        /\ \A p \in DOMAIN t : t[p] = IF Puts(e) /\ p = e.path THEN [layer |-> layer, kind |-> e.kind] ELSE fs[p]
    BY <2>4, <2>5
  <2> QED
    BY <2>6 DEF t
<1>5. CASE Puts(e)
  <2> DEFINE replaces == e.kind # "dir" /\ e.path \in DOMAIN fs /\ fs[e.path].kind = "dir"
             under == IF replaces THEN RemoveTree(fs, e.path, layer + 1) ELSE fs
  <2>1. e.kind # "opaque" /\ e.kind # "whiteout"
    BY <1>5 DEF Puts
  <2>2. t = Put(under, e.path, layer, e.kind)
    BY <2>1 DEF Apply
  <2>3. DOMAIN under = DOMAIN fs \ Gone(fs, layer, e) /\ \A p \in DOMAIN under : under[p] = fs[p]
    <3>1. CASE replaces
      <4>1. {k \in Walked(fs, e.path) : fs[k].layer < layer + 1} = Gone(fs, layer, e)
        BY <1>1, <2>1, <3>1 DEF Gone, Walked, Kinds
      <4>2. under = Without(fs, Gone(fs, layer, e))
        BY <3>1, <4>1 DEF RemoveTree
      <4> HIDE DEF under
      <4> QED
        BY <1>2, <4>2
    <3>2. CASE ~replaces
      <4>1. Gone(fs, layer, e) = {}
        BY <2>1, <3>2 DEF Gone
      <4> QED
        BY <3>2, <4>1
    <3> QED
      BY <3>1, <3>2
  <2> HIDE DEF under, t
  <2>4. /\ DOMAIN t = DOMAIN under \cup {e.path}
        /\ \A p \in DOMAIN t : t[p] = IF p = e.path THEN [layer |-> layer, kind |-> e.kind] ELSE under[p]
    BY <2>2 DEF Put
  <2>5. /\ DOMAIN t = (DOMAIN fs \ Gone(fs, layer, e)) \cup (IF Puts(e) THEN {e.path} ELSE {})
        /\ \A p \in DOMAIN t : t[p] = IF Puts(e) /\ p = e.path THEN [layer |-> layer, kind |-> e.kind] ELSE fs[p]
    BY <1>5, <2>3, <2>4
  <2> QED
    BY <2>5 DEF t
<1> QED
  BY <1>1, <1>3, <1>4, <1>5 DEF Puts

LEMMA ApplyIsView ==
    ASSUME NEW fs \in Views, NEW layer \in Nat, NEW e \in Entry PROVE Apply(fs, layer, e) \in Views
<1> DEFINE t == Apply(fs, layer, e)
           Node == [layer : Nat, kind : Kinds]
<1>1. fs \in [DOMAIN fs -> Node] /\ DOMAIN fs \subseteq Paths
  BY ViewIs
<1>2. e.path \in Paths /\ [layer |-> layer, kind |-> e.kind] \in Node
  BY DEF Entry
<1>3. /\ DOMAIN t = (DOMAIN fs \ Gone(fs, layer, e)) \cup (IF Puts(e) THEN {e.path} ELSE {})
      /\ \A p \in DOMAIN t : t[p] = IF Puts(e) /\ p = e.path THEN [layer |-> layer, kind |-> e.kind] ELSE fs[p]
  BY ApplyIs
<1>4. t = [p \in DOMAIN t |-> t[p]]
  <2>1. CASE e.kind = "opaque"
    BY <2>1 DEF Apply, RemoveChildren, Without
  <2>2. CASE e.kind = "whiteout"
    BY <2>2 DEF Apply, RemoveTree, Without
  <2>3. CASE e.kind # "opaque" /\ e.kind # "whiteout"
    BY <2>3 DEF Apply, Put
  <2> QED
    BY <2>1, <2>2, <2>3
<1> HIDE DEF t, Node
<1>5. \A p \in DOMAIN t : t[p] \in Node
  BY <1>1, <1>2, <1>3
<1>6. DOMAIN t \subseteq Paths
  BY <1>1, <1>2, <1>3
<1>7. t \in [DOMAIN t -> Node]
  BY <1>4, <1>5
<1> QED
  BY <1>6, <1>7, ViewIs DEF t, Node

(***************************************************************************)
(* The walk of a removal reaches a path when, on the way up to where it     *)
(* starts, nothing that is not inside sorts between a path and its parent.  *)
(***************************************************************************)
Unforeign(fs, x) ==
    \A j \in DOMAIN fs : Place(j) \in Place(Front(x))..Place(x) => Within(j, Front(x))

LEMMA WalkReaches ==
    ASSUME NEW fs, DOMAIN fs \subseteq Paths, NEW w \in Paths, NEW k \in DOMAIN fs, Within(k, w),
           \A x \in Paths : Within(k, x) /\ Within(x, w) /\ x # w => Unforeign(fs, x)
    PROVE  k \in Walked(fs, w)
<1>1. k \in Paths /\ \A x \in Paths : Place(x) \in Nat
  BY PathsAre
<1> DEFINE between == {x \in Paths : Within(k, x) /\ Within(x, w) /\ x # w}
<1>2. \A x \in between : /\ Front(x) \in Paths /\ Within(Front(x), w)
                         /\ Place(Front(x)) < Place(x)
                         /\ Front(x) # w => Front(x) \in between
  <2> SUFFICES ASSUME NEW x \in between
               PROVE  /\ Front(x) \in Paths /\ Within(Front(x), w) /\ Place(Front(x)) < Place(x)
                      /\ Front(x) # w => Front(x) \in between
    OBVIOUS
  <2>1. Front(x) \in Paths /\ Within(Front(x), w) /\ Within(x, Front(x)) /\ Place(Front(x)) < Place(x)
    BY ParentIs
  <2>2. Within(k, Front(x))
    BY <1>1, <2>1, WithinOrders
  <2> QED
    BY <2>1, <2>2
<1>3. k # w => k \in between
  BY <1>1, WithinOrders
\* The least path of some that are all at or after a place has its parent before it.
<1>4. ASSUME NEW m \in Nat, k # w, m <= Place(k), m >= Place(w)
      PROVE  \E x \in between : Place(Front(x)) <= m /\ m <= Place(x)
  <2> DEFINE after == {i \in Nat : \E x \in between : Place(x) = i /\ m <= i}
  <2>1. Place(k) \in after
    BY <1>1, <1>3, <1>4
  <2>2. IsWellFoundedOn(OpToRel(<, Nat), Nat)
    BY NatLessThanWellFounded
  <2>3. PICK i \in after : \A j \in after : <<j, i>> \notin OpToRel(<, Nat)
    <3>1. after # {} /\ after \subseteq Nat
      BY <2>1
    <3> HIDE DEF after
    <3> QED
      BY <2>2, <3>1, WFMin
  <2>4. PICK x \in between : Place(x) = i /\ m <= i
    BY <2>3
  <2>5. Place(Front(x)) <= m
    <3>1. CASE Front(x) = w
      BY <1>4, <3>1
    <3>2. CASE Front(x) # w
      <4>1. Front(x) \in between /\ Place(Front(x)) < i /\ Place(Front(x)) \in Nat
        BY <1>1, <1>2, <2>4, <3>2
      <4>2. Place(Front(x)) \notin after
        <5>1. i \in Nat
          BY <2>3
        <5> HIDE DEF after
        <5> QED
          BY <2>3, <4>1, <5>1 DEF OpToRel
      <4> QED
        BY <1>4, <4>1, <4>2
    <3> QED
      BY <3>1, <3>2
  <2> QED
    BY <2>4, <2>5
<1>5. ASSUME NEW j \in DOMAIN fs, Place(j) \in Place(w)..Place(k) PROVE Within(j, w)
  <2>1. j \in Paths /\ Place(j) \in Nat /\ Place(w) \in Nat /\ Place(k) \in Nat
    BY <1>1
  <2>2. CASE k = w
    <3>1. Place(j) = Place(w)
      BY <1>5, <2>1, <2>2
    <3>2. j = w
      BY <2>1, <3>1, PlaceTells
    <3> QED
      BY <3>2, WithinOrders
  <2>3. CASE k # w
    <3>1. PICK x \in between : Place(Front(x)) <= Place(j) /\ Place(j) <= Place(x)
      BY <1>4, <1>5, <2>1, <2>3
    <3>2. Front(x) \in Paths /\ Within(Front(x), w) /\ Place(Front(x)) \in Nat /\ Place(x) \in Nat
      BY <1>1, <1>2
    <3>3. Within(j, Front(x))
      BY <2>1, <3>1, <3>2 DEF Unforeign
    <3> QED
      BY <2>1, <3>2, <3>3, WithinOrders
  <2> QED
    BY <2>2, <2>3
<1>6. Place(w) <= Place(k)
  <2>1. CASE k = w
    BY <1>1, <2>1
  <2>2. CASE k # w
    <3> DEFINE late == {i \in Nat : \E x \in between : Place(x) = i}
    <3>1. Place(k) \in late
      BY <1>1, <1>3, <2>2
    <3>2. PICK i \in late : \A j \in late : <<j, i>> \notin OpToRel(<, Nat)
      <4>1. late # {} /\ late \subseteq Nat
        BY <3>1
      <4> HIDE DEF late
      <4> QED
        BY <4>1, NatLessThanWellFounded, WFMin
    <3>3. PICK x \in between : Place(x) = i
      BY <3>2
    <3>4. i \in Nat
      BY <3>2
    <3>5. i <= Place(k)
      <4> HIDE DEF late
      <4>1. <<Place(k), i>> \notin OpToRel(<, Nat)
        BY <3>1, <3>2
      <4>2. Place(k) \in Nat
        BY <1>1
      <4> QED
        BY <3>4, <4>1, <4>2 DEF OpToRel
    <3>6. Front(x) = w
      <4> SUFFICES ASSUME Front(x) # w PROVE FALSE
        OBVIOUS
      <4>1. Front(x) \in between /\ Place(Front(x)) < i /\ Place(Front(x)) \in Nat
        BY <1>1, <1>2, <3>3
      <4>2. Place(Front(x)) \in late
        BY <4>1
      <4> HIDE DEF late
      <4> QED
        BY <3>2, <3>4, <4>1, <4>2 DEF OpToRel
    <3>7. Place(w) < i
      BY <1>2, <3>3, <3>6
    <3> QED
      BY <1>1, <3>4, <3>5, <3>7
  <2> QED
    BY <2>1, <2>2
<1> QED
  BY <1>5, <1>6 DEF Walked

(***************************************************************************)
(* What the view holds when some entries are done.  An entry is at a place  *)
(* <<layer, position>> of the layers; done is a set of these places.        *)
(***************************************************************************)
Spots(layers) == {at \in Nat \X Nat : at[1] \in DOMAIN layers /\ at[2] \in DOMAIN layers[at[1]]}
EntryAt(layers, at) == layers[at[1]][at[2]]
Overrides(e, path) ==
    \/ Puts(e) /\ e.path = path
    \/ Within(path, e.path) /\ (e.kind = "whiteout" \/ (e.kind \in {"opaque", "file", "binary"} /\ path # e.path))

\* Every path is there by an entry of its layer.
Entered(layers, done, fs) ==
    \A p \in DOMAIN fs : \E at \in done :
        /\ EntryAt(layers, at).path = p /\ Puts(EntryAt(layers, at))
        /\ fs[p] = [layer |-> at[1], kind |-> EntryAt(layers, at).kind]
\* What no later layer overrides is there.
Unopposed(layers, done, fs) ==
    \A at \in done :
        LET e == EntryAt(layers, at)
        IN  Puts(e) /\ (\A c \in done : c[1] > at[1] => ~Overrides(EntryAt(layers, c), e.path))
            => e.path \in DOMAIN fs /\ fs[e.path] = [layer |-> at[1], kind |-> e.kind]
\* What a later layer overrides is gone.
Cleared(layers, done, fs) ==
    \A p \in DOMAIN fs, c \in done : c[1] > fs[p].layer => ~Overrides(EntryAt(layers, c), p)
\* What is from below a layer has its directories.
Rooted(layer, fs) ==
    \A p \in DOMAIN fs, d \in Paths :
        fs[p].layer < layer /\ Within(p, d) /\ p # d => d \in DOMAIN fs /\ fs[d].kind = "dir"

\* The layers of an image: archives, each well formed.
Archives(layers) ==
    /\ layers \in Seq(Seq(Entry))
    /\ \A i \in DOMAIN layers : WellFormedLayer(layers[i])

\* An entry of the topmost layer so far, and all that is done before it.
ComesNext(layers, done, at) ==
    /\ done \subseteq Spots(layers) /\ at \in Spots(layers) \ done
    /\ \A d \in done : d[1] <= at[1]

LEMMA SpotsAre ==
    ASSUME NEW layers, Archives(layers), NEW at \in Spots(layers)
    PROVE  /\ at[1] \in Nat /\ at[2] \in Nat /\ at = <<at[1], at[2]>>
           /\ EntryAt(layers, at) \in Entry /\ EntryAt(layers, at) \in Range(layers[at[1]])
           /\ EntryAt(layers, at).path \in Paths /\ EntryAt(layers, at).kind \in Kinds
<1>1. at \in Nat \X Nat /\ at[1] \in DOMAIN layers /\ at[2] \in DOMAIN layers[at[1]]
  BY DEF Spots
<1>2. layers[at[1]] \in Seq(Entry)
  BY <1>1 DEF Archives
<1>3. layers[at[1]][at[2]] \in Entry
  BY <1>1, <1>2
<1>4. layers[at[1]][at[2]] \in Range(layers[at[1]])
  BY <1>1 DEF Range
<1> QED
  BY <1>1, <1>3, <1>4 DEF EntryAt, Entry

\* Within a layer, an entry that puts a path is not undone by what else is in it.
LEMMA OwnLayerIsSpared ==
    ASSUME NEW layers, Archives(layers), NEW a \in Spots(layers), NEW b \in Spots(layers), a # b,
           a[1] = b[1], Puts(EntryAt(layers, a)), Puts(EntryAt(layers, b))
    PROVE  /\ EntryAt(layers, a).path # EntryAt(layers, b).path
           /\ EntryAt(layers, b).kind \in {"file", "binary"} =>
                ~Within(EntryAt(layers, a).path, EntryAt(layers, b).path)
<1> DEFINE i == a[1]
           e == EntryAt(layers, a)
           f == EntryAt(layers, b)
<1>1. a[2] # b[2] /\ i \in DOMAIN layers /\ a[2] \in DOMAIN layers[i] /\ b[2] \in DOMAIN layers[i]
      /\ e = layers[i][a[2]] /\ f = layers[i][b[2]]
  BY SpotsAre DEF Spots, EntryAt
<1>2. e \in Range(layers[i]) /\ f \in Range(layers[i]) /\ e.path \in Paths /\ f.path \in Paths
  BY SpotsAre
<1>3. WellFormedLayer(layers[i])
  BY <1>1 DEF Archives
<1> HIDE DEF e, f, i
<1>4. e.path # f.path
  <2> SUFFICES ASSUME e.path = f.path PROVE FALSE
    OBVIOUS
  <2>1. {e.kind, f.kind} \cap {"whiteout", "opaque"} # {}
    BY <1>1, <1>3 DEF WellFormedLayer
  <2> QED
    BY <2>1 DEF Puts, e, f
<1>5. ASSUME f.kind \in {"file", "binary"} PROVE ~Within(e.path, f.path)
  <2>1. Holds(layers[i], e.path)
    BY <1>2 DEF Holds, Puts, e
  <2>2. ~\E g \in Range(layers[i]) : g.kind \in {"file", "binary"} /\ g.path # e.path /\ Within(e.path, g.path)
    BY <1>2, <1>3, <2>1 DEF WellFormedLayer, Paths
  <2> QED
    BY <1>2, <1>4, <1>5, <2>2
<1> QED
  BY <1>4, <1>5 DEF e, f

LEMMA GoneIsOverridden ==
    ASSUME NEW fs \in Views, NEW layer \in Nat, NEW e \in Entry, NEW k \in Gone(fs, layer, e)
    PROVE  /\ k \in DOMAIN fs /\ Overrides(e, k) /\ fs[k].layer <= layer
           /\ fs[k].layer = layer => e.kind \in {"file", "binary"} /\ Within(k, e.path)
<1>1. k \in Walked(fs, e.path) => Within(k, e.path)
  <2> SUFFICES ASSUME k \in Walked(fs, e.path) PROVE Within(k, e.path)
    OBVIOUS
  <2>1. k \in DOMAIN fs /\ k \in Paths /\ e.path \in Paths
    BY ViewIs DEF Walked, Entry
  <2>2. Place(k) \in Place(e.path)..Place(k)
    BY <2>1, PathsAre DEF Walked
  <2> QED
    BY <2>1, <2>2 DEF Walked
<1>2. k \in DOMAIN fs /\ fs[k].layer \in Nat
  BY ViewIs DEF Gone
<1>3. CASE e.kind = "opaque"
  BY <1>2, <1>3 DEF Gone, Overrides
<1>4. CASE e.kind = "whiteout"
  BY <1>1, <1>2, <1>4 DEF Gone, Overrides
<1>5. CASE e.kind \in {"file", "binary"}
  BY <1>1, <1>2, <1>5 DEF Gone, Overrides, Puts
<1>6. CASE e.kind = "dir"
  BY <1>6 DEF Gone
<1> QED
  BY <1>3, <1>4, <1>5, <1>6 DEF Entry, Kinds

LEMMA ViewEntry ==
    ASSUME NEW fs \in Views, NEW p \in DOMAIN fs
    PROVE  p \in Paths /\ fs[p].layer \in Nat /\ fs[p].kind \in Kinds
BY ViewIs

LEMMA EnteredKept ==
    ASSUME NEW layers, Archives(layers), NEW done, NEW at, ComesNext(layers, done, at), NEW fs \in Views,
           Entered(layers, done, fs)
    PROVE  Entered(layers, done \cup {at}, Apply(fs, at[1], EntryAt(layers, at)))
<1> DEFINE e == EntryAt(layers, at)
           t == Apply(fs, at[1], e)
<1>1. at[1] \in Nat /\ e \in Entry
  BY SpotsAre DEF ComesNext
<1>2. /\ DOMAIN t = (DOMAIN fs \ Gone(fs, at[1], e)) \cup (IF Puts(e) THEN {e.path} ELSE {})
      /\ \A p \in DOMAIN t : t[p] = IF Puts(e) /\ p = e.path THEN [layer |-> at[1], kind |-> e.kind] ELSE fs[p]
  <2> HIDE DEF e
  <2> QED
    BY <1>1, ApplyIs
<1> HIDE DEF t
<1>3. ASSUME NEW p \in DOMAIN t
      PROVE  \E a \in done \cup {at} :
                /\ EntryAt(layers, a).path = p /\ Puts(EntryAt(layers, a))
                /\ t[p] = [layer |-> a[1], kind |-> EntryAt(layers, a).kind]
  <2>1. CASE Puts(e) /\ p = e.path
    BY <1>2, <2>1
  <2>2. CASE ~(Puts(e) /\ p = e.path)
    <3>1. p \in DOMAIN fs /\ t[p] = fs[p]
      BY <1>2, <2>2
    <3> QED
      BY <3>1 DEF Entered
  <2> QED
    BY <2>1, <2>2
<1> QED
  BY <1>3 DEF Entered, t

LEMMA UnopposedKept ==
    ASSUME NEW layers, Archives(layers), NEW done, NEW at, ComesNext(layers, done, at), NEW fs \in Views,
           Unopposed(layers, done, fs)
    PROVE  Unopposed(layers, done \cup {at}, Apply(fs, at[1], EntryAt(layers, at)))
<1> DEFINE e == EntryAt(layers, at)
           t == Apply(fs, at[1], e)
<1>1. at[1] \in Nat /\ e \in Entry
  BY SpotsAre DEF ComesNext
<1>2. /\ DOMAIN t = (DOMAIN fs \ Gone(fs, at[1], e)) \cup (IF Puts(e) THEN {e.path} ELSE {})
      /\ \A p \in DOMAIN t : t[p] = IF Puts(e) /\ p = e.path THEN [layer |-> at[1], kind |-> e.kind] ELSE fs[p]
  <2> HIDE DEF e
  <2> QED
    BY <1>1, ApplyIs
<1>3. \A k \in Gone(fs, at[1], e) :
        /\ Overrides(e, k) /\ fs[k].layer <= at[1]
        /\ fs[k].layer = at[1] => e.kind \in {"file", "binary"} /\ Within(k, e.path)
  <2> HIDE DEF e
  <2> QED
    BY <1>1, GoneIsOverridden
<1> HIDE DEF t
<1>4. ASSUME NEW a \in done \cup {at}, Puts(EntryAt(layers, a)),
             \A c \in done \cup {at} : c[1] > a[1] => ~Overrides(EntryAt(layers, c), EntryAt(layers, a).path)
      PROVE  /\ EntryAt(layers, a).path \in DOMAIN t
             /\ t[EntryAt(layers, a).path] = [layer |-> a[1], kind |-> EntryAt(layers, a).kind]
  <2>1. CASE a = at
    BY <1>2, <1>4, <2>1
  <2>2. CASE a # at
    <3> DEFINE f == EntryAt(layers, a)
    <3>1. a \in done /\ a \in Spots(layers) /\ a[1] <= at[1] /\ a[1] \in Nat /\ at \in Spots(layers)
      BY <2>2, SpotsAre DEF ComesNext
    <3>2. f.path \in DOMAIN fs /\ fs[f.path] = [layer |-> a[1], kind |-> f.kind]
      BY <1>4, <3>1 DEF Unopposed
    <3>3. CASE a[1] = at[1]
      <4>1. Puts(e) => f.path # e.path /\ (e.kind \in {"file", "binary"} => ~Within(f.path, e.path))
        BY <1>4, <2>2, <3>1, <3>3, OwnLayerIsSpared
      <4>2. e.kind \in {"file", "binary"} => Puts(e)
        BY DEF Puts
      <4> HIDE DEF e, f
      <4>3. f.path \notin Gone(fs, at[1], e)
        BY <1>3, <3>2, <3>3, <4>1, <4>2
      <4>4. f.path \in DOMAIN t /\ t[f.path] = fs[f.path]
        BY <1>2, <3>2, <4>1, <4>3
      <4> QED
        BY <3>2, <4>4 DEF f
    <3>4. CASE a[1] # at[1]
      <4>1. ~Overrides(e, f.path)
        BY <1>1, <1>4, <3>1, <3>4
      <4>2. ~(Puts(e) /\ f.path = e.path)
        BY <4>1 DEF Overrides
      <4> HIDE DEF e, f
      <4>3. f.path \in DOMAIN t /\ t[f.path] = fs[f.path]
        BY <1>2, <1>3, <3>2, <4>1, <4>2
      <4> QED
        BY <3>2, <4>3 DEF f
    <3> QED
      BY <3>3, <3>4
  <2> QED
    BY <2>1, <2>2
<1> QED
  BY <1>4 DEF Unopposed, t

LEMMA ReachedBelow ==
    ASSUME NEW layers, Archives(layers), Plain(layers), NEW done \in SUBSET Spots(layers),
           NEW fs \in Views, Entered(layers, done, fs), NEW layer \in Nat, Rooted(layer, fs),
           NEW w \in Paths, NEW k \in DOMAIN fs, fs[k].layer < layer, Within(k, w)
    PROVE  k \in Walked(fs, w)
<1>1. DOMAIN fs \subseteq Paths
  BY ViewIs
<1>2. \A j \in DOMAIN fs : \E i \in DOMAIN layers : \E e \in Range(layers[i]) : e.path = j /\ Puts(e)
  <2> SUFFICES ASSUME NEW j \in DOMAIN fs
               PROVE  \E i \in DOMAIN layers : \E e \in Range(layers[i]) : e.path = j /\ Puts(e)
    OBVIOUS
  <2>1. PICK at \in done : EntryAt(layers, at).path = j /\ Puts(EntryAt(layers, at))
    BY DEF Entered
  <2>2. at[1] \in DOMAIN layers /\ EntryAt(layers, at) \in Range(layers[at[1]])
    BY SpotsAre DEF Spots
  <2> QED
    BY <2>1, <2>2
<1>3. ASSUME NEW x \in Paths, Within(k, x), Within(x, w), x # w PROVE Unforeign(fs, x)
  <2>1. x \in DOMAIN fs
    BY <1>3 DEF Rooted
  <2>2. Len(x) > 1
    BY <1>3, ParentIs
  <2>3. PICK i \in DOMAIN layers : \E e \in Range(layers[i]) : e.path = x
    BY <1>2, <2>1
  <2>4. PICK e \in Range(layers[i]) : e.path = x
    BY <2>3
  <2>5. ASSUME NEW j \in DOMAIN fs, Place(j) \in Place(Front(x))..Place(x) PROVE Within(j, Front(x))
    <3>1. PICK m \in DOMAIN layers : Holds(layers[m], j)
      BY <1>2 DEF Holds, Puts
    <3>2. j \in Range(TextOrder)
      BY <1>1 DEF Paths
    <3> QED
      BY <2>2, <2>4, <2>5, <3>1, <3>2 DEF Plain
  <2> QED
    BY <2>5 DEF Unforeign
<1> QED
  BY <1>1, <1>3, WalkReaches

LEMMA ClearedKept ==
    ASSUME NEW layers, Archives(layers), Plain(layers), NEW done, NEW at, ComesNext(layers, done, at),
           NEW fs \in Views, Entered(layers, done, fs), Cleared(layers, done, fs), Rooted(at[1], fs)
    PROVE  Cleared(layers, done \cup {at}, Apply(fs, at[1], EntryAt(layers, at)))
<1> DEFINE e == EntryAt(layers, at)
           t == Apply(fs, at[1], e)
<1>1. at[1] \in Nat /\ e \in Entry /\ e.path \in Paths /\ e.kind \in Kinds
  BY SpotsAre DEF ComesNext
<1>2. /\ DOMAIN t = (DOMAIN fs \ Gone(fs, at[1], e)) \cup (IF Puts(e) THEN {e.path} ELSE {})
      /\ \A p \in DOMAIN t : t[p] = IF Puts(e) /\ p = e.path THEN [layer |-> at[1], kind |-> e.kind] ELSE fs[p]
  <2> HIDE DEF e
  <2> QED
    BY <1>1, ApplyIs
<1> HIDE DEF t
<1>3. ASSUME NEW p \in DOMAIN t, NEW c \in done \cup {at}, c[1] > t[p].layer
      PROVE  ~Overrides(EntryAt(layers, c), p)
  <2>1. c[1] <= at[1] /\ c[1] \in Nat
    BY SpotsAre DEF ComesNext
  <2>2. ~(Puts(e) /\ p = e.path)
    <3> HIDE DEF e
    <3> QED
      BY <1>1, <1>2, <1>3, <2>1
  <2>3. p \in DOMAIN fs /\ p \notin Gone(fs, at[1], e) /\ t[p] = fs[p]
    <3> HIDE DEF e
    <3> QED
      BY <1>2, <2>2
  <2>4. CASE c \in done
    BY <1>3, <2>3, <2>4 DEF Cleared
  <2>5. CASE c = at
    <3>1. p \in Paths /\ fs[p].layer \in Nat /\ fs[p].layer < at[1]
      BY <1>1, <1>3, <2>3, <2>5, ViewEntry
    <3>2. Within(p, e.path) => p \in Walked(fs, e.path)
      <4>1. done \in SUBSET Spots(layers)
        BY DEF ComesNext
      <4> HIDE DEF e
      <4> QED
        BY <1>1, <2>3, <3>1, <4>1, ReachedBelow
    <3>3. Within(p, e.path) /\ p # e.path => e.path \in DOMAIN fs /\ fs[e.path].kind = "dir"
      BY <1>1, <2>3, <3>1 DEF Rooted
    <3> HIDE DEF e
    <3>4. ~Overrides(e, p)
      BY <1>1, <2>2, <2>3, <3>1, <3>2, <3>3 DEF Overrides, Gone
    <3> QED
      BY <2>5, <3>4 DEF e
  <2> QED
    BY <2>4, <2>5
<1> QED
  BY <1>3 DEF Cleared, t

LEMMA RootedKept ==
    ASSUME NEW layers, Archives(layers), NEW done, NEW at, ComesNext(layers, done, at),
           NEW fs \in Views, Rooted(at[1], fs),
           Cleared(layers, done \cup {at}, Apply(fs, at[1], EntryAt(layers, at)))
    PROVE  Rooted(at[1], Apply(fs, at[1], EntryAt(layers, at)))
<1> DEFINE e == EntryAt(layers, at)
           t == Apply(fs, at[1], e)
<1>1. at[1] \in Nat /\ e \in Entry /\ e.path \in Paths /\ e.kind \in Kinds
  BY SpotsAre DEF ComesNext
<1>2. /\ DOMAIN t = (DOMAIN fs \ Gone(fs, at[1], e)) \cup (IF Puts(e) THEN {e.path} ELSE {})
      /\ \A p \in DOMAIN t : t[p] = IF Puts(e) /\ p = e.path THEN [layer |-> at[1], kind |-> e.kind] ELSE fs[p]
  <2> HIDE DEF e
  <2> QED
    BY <1>1, ApplyIs
<1>3. \A p \in DOMAIN t : t[p].layer < at[1] => ~Overrides(e, p)
  BY <1>1 DEF Cleared
<1> HIDE DEF e, t
<1>4. ASSUME NEW p \in DOMAIN t, NEW d \in Paths, t[p].layer < at[1], Within(p, d), p # d
      PROVE  d \in DOMAIN t /\ t[d].kind = "dir"
  <2>1. ~(Puts(e) /\ p = e.path)
    BY <1>1, <1>2, <1>4
  <2>2. p \in DOMAIN fs /\ t[p] = fs[p] /\ p \in Paths
    BY <1>2, <2>1, ViewEntry
  <2>3. d \in DOMAIN fs /\ fs[d].kind = "dir"
    BY <1>4, <2>2 DEF Rooted
  <2>4. Within(d, e.path) => Within(p, e.path) /\ p # e.path
    BY <1>1, <1>4, <2>2, WithinOrders
  <2>5. Within(d, e.path) => e.kind = "dir"
    BY <1>1, <1>3, <1>4, <2>4 DEF Overrides, Kinds
  <2>6. d \notin Gone(fs, at[1], e)
    <3> SUFFICES ASSUME d \in Gone(fs, at[1], e) PROVE FALSE
      OBVIOUS
    <3>1. Overrides(e, d)
      BY <1>1, GoneIsOverridden
    <3>2. Within(d, e.path)
      BY <1>1, <3>1, WithinOrders DEF Overrides
    <3>3. e.kind = "dir"
      BY <2>5, <3>2
    <3> QED
      BY <3>3 DEF Gone
  <2>7. CASE Puts(e) /\ d = e.path
    <3>1. e.kind = "dir"
      BY <1>1, <2>5, <2>7, WithinOrders
    <3> QED
      BY <1>2, <2>7, <3>1
  <2>8. CASE ~(Puts(e) /\ d = e.path)
    BY <1>2, <2>3, <2>6, <2>8
  <2> QED
    BY <2>7, <2>8
<1> QED
  BY <1>4 DEF Rooted, t, e

\* The entries of the layers below one, and the first of its own.
Done(layers, layer, n) ==
    {at \in Spots(layers) : at[1] < layer \/ (at[1] = layer /\ at[2] <= n)}

\* What is under a directory of a plain image has an entry of each directory in its layer.
LEMMA LayerIsRooted ==
    ASSUME NEW layers, Archives(layers), Plain(layers), NEW layer \in DOMAIN layers, NEW fs \in Views,
           Entered(layers, Done(layers, layer, Len(layers[layer])), fs),
           Unopposed(layers, Done(layers, layer, Len(layers[layer])), fs), Rooted(layer, fs)
    PROVE  Rooted(layer + 1, fs)
<1> DEFINE done == Done(layers, layer, Len(layers[layer]))
<1>1. layer \in Nat /\ layers[layer] \in Seq(Entry)
  BY DEF Archives
<1>2. \A at \in done : at \in Spots(layers) /\ at[1] \in Nat /\ at[1] <= layer
  BY <1>1 DEF Done, Spots
<1>3. \A j \in DOMAIN layers[layer] : <<layer, j>> \in done
  BY <1>1 DEF Done, Spots
<1>4. WellFormedLayer(layers[layer])
  BY DEF Archives
<1> HIDE DEF done
<1>5. ASSUME NEW p \in DOMAIN fs, NEW d \in Paths, fs[p].layer < layer + 1, Within(p, d), p # d
      PROVE  d \in DOMAIN fs /\ fs[d].kind = "dir"
  <2>1. p \in Paths /\ fs[p].layer \in Nat
    BY ViewEntry
  <2>2. CASE fs[p].layer < layer
    BY <1>5, <2>2 DEF Rooted
  <2>3. CASE fs[p].layer = layer
    <3>1. PICK at \in done : /\ EntryAt(layers, at).path = p /\ Puts(EntryAt(layers, at))
                             /\ fs[p].layer = at[1]
      BY DEF Entered, done
    <3> DEFINE e == EntryAt(layers, at)
    <3>2. e \in Range(layers[layer])
      BY <1>2, <2>3, <3>1, SpotsAre
    <3>3. e.path = p /\ Puts(e)
      BY <3>1
    <3> HIDE DEF e
    <3>4. Holds(layers[layer], p)
      BY <3>2, <3>3 DEF Holds, Puts
    <3>5. Holds(layers[layer], d)
      BY <1>5, <3>2, <3>3 DEF Plain, Paths
    <3>6. PICK f \in Range(layers[layer]) : f.path = d /\ Puts(f)
      BY <3>5 DEF Holds, Puts
    <3>7. PICK j \in DOMAIN layers[layer] : f = layers[layer][j]
      BY <3>6 DEF Range
    <3> DEFINE b == <<layer, j>>
    <3>8. b \in done /\ b[1] = layer /\ EntryAt(layers, b) = f
      BY <1>3, <3>7 DEF EntryAt
    <3> HIDE DEF b
    <3>9. \A c \in done : ~(c[1] > b[1])
      BY <1>1, <1>2, <3>8
    <3>10. d \in DOMAIN fs /\ fs[d].kind = f.kind
      <4>1. Unopposed(layers, done, fs)
        BY DEF done
      <4> QED
        <5>1. Puts(f) /\ (\A c \in done : c[1] > b[1] => ~Overrides(EntryAt(layers, c), f.path))
              => f.path \in DOMAIN fs /\ fs[f.path] = [layer |-> b[1], kind |-> f.kind]
          BY <3>8, <4>1, Zenon DEF Unopposed
        <5> QED
          BY <3>6, <3>9, <5>1
    <3>11. f.kind \notin {"file", "binary"}
      BY <1>4, <1>5, <2>1, <3>4, <3>6 DEF WellFormedLayer, Paths
    <3>12. f.kind \in Kinds
      <4>1. f \in Entry
        BY <1>1, <3>7
      <4> QED
        BY <4>1 DEF Entry
    <3> QED
      BY <3>6, <3>10, <3>11, <3>12 DEF Puts, Kinds
  <2> QED
    BY <1>1, <1>5, <2>1, <2>2, <2>3
<1> QED
  BY <1>5 DEF Rooted

(***************************************************************************)
(* The folds over the entries of a layer and over the layers, as steps.     *)
(***************************************************************************)
LEMMA MaxIsOne ==
    ASSUME NEW n \in Nat, NEW T \in SUBSET (1..n), T # {} PROVE Max(T) \in T /\ \A i \in T : i <= Max(T)
<1> DEFINE R == {x \in T \X T : x[1] <= x[2]}
<1>1. IsFiniteSet(T)
  <2>1. IsFiniteSet(1..n)
    BY FS_Interval
  <2> QED
    BY <2>1, FS_Subset
<1>2. \A i \in T : i \in Int
  OBVIOUS
<1>3. \A i, j \in T : <<i, j>> \in R <=> i <= j
  OBVIOUS
<1> HIDE DEF R
<1>4. \A i, j \in T : <<i, j>> \in R \/ <<j, i>> \in R
  <2>1. \A i, j \in T : i <= j \/ j <= i
    BY <1>2
  <2> QED
    BY <1>3, <2>1
<1>5. \A i, j, k \in T : <<i, j>> \in R /\ <<j, k>> \in R => <<i, k>> \in R
  BY <1>2, <1>3
<1>6. \E i \in T : \A j \in T : <<j, i>> \in R
  BY <1>1, <1>4, <1>5, LastExists
<1>7. \E i \in T : \A j \in T : i >= j
  BY <1>2, <1>3, <1>6
<1>8. Max(T) \in T /\ \A j \in T : Max(T) >= j
  BY <1>7, Zenon DEF Max
<1> QED
  BY <1>2, <1>8

LEMMA LastOfInterval ==
    ASSUME NEW n \in Nat, NEW i \in 1..n
    PROVE  1..i \in SUBSET (1..n) /\ 1..i # {} /\ Max(1..i) = i /\ (1..i) \ {i} = 1..(i - 1)
<1>1. 1..i \in SUBSET (1..n) /\ i \in 1..i /\ i \in Nat
  OBVIOUS
<1>2. Max(1..i) \in 1..i /\ i <= Max(1..i)
  BY <1>1, MaxIsOne
<1>3. Max(1..i) = i
  BY <1>1, <1>2
<1>4. (1..i) \ {i} = 1..(i - 1)
  BY <1>1
<1> QED
  BY <1>1, <1>3, <1>4

\* A fold from the first to the last of n, step by step.
StepsOf(X, b, step, n) ==
    {t \in [0..n -> X] : t[0] = b /\ \A i \in 1..n : t[i] = step[<<t[i - 1], i>>]}

LEMMA IntervalFold ==
    ASSUME NEW n \in Nat, NEW X, NEW b \in X, NEW step \in [X \X (1..n) -> X]
    PROVE  \E f \in [SUBSET (1..n) -> X] :
              /\ \A U \in SUBSET (1..n) :
                   f[U] = IF U = {} THEN b ELSE step[<<f[U \ {Max(U)}], Max(U)>>]
              /\ [i \in 0..n |-> f[1..i]] \in StepsOf(X, b, step, n)
<1> DEFINE S == 1..n
           last == [U \in SUBSET S |-> Max(U)]
<1>1. IsFiniteSet(S)
  BY FS_Interval
<1>2. \A U \in SUBSET S : last[U] = Max(U) /\ (U # {} => last[U] \in U)
  BY MaxIsOne
<1>3. PICK f \in [SUBSET S -> X] : FoldsInto(f, S, b, step, last)
  <2> HIDE DEF S, last
  <2>1. step \in [X \X S -> X]
    BY DEF S
  <2> QED
    BY <1>1, <1>2, <2>1, FoldExists
<1>4. \A U \in SUBSET S : f[U] = IF U = {} THEN b ELSE step[<<f[U \ {Max(U)}], Max(U)>>]
  <2> HIDE DEF last, S
  <2> SUFFICES ASSUME NEW U \in SUBSET S
               PROVE  f[U] = IF U = {} THEN b ELSE step[<<f[U \ {Max(U)}], Max(U)>>]
    OBVIOUS
  <2>1. f[U] = IF U = {} THEN b ELSE step[<<f[U \ {last[U]}], last[U]>>]
    BY <1>3, Zenon DEF FoldsInto
  <2> QED
    BY <1>2, <2>1
<1> DEFINE t == [i \in 0..n |-> f[1..i]]
<1>5. t \in [0..n -> X] /\ \A i \in 0..n : t[i] = f[1..i]
  <2>1. \A i \in 0..n : 1..i \in SUBSET S
    OBVIOUS
  <2>2. \A i \in 0..n : f[1..i] \in X
    BY <2>1
  <2> QED
    BY <2>2
<1>6. t[0] = b
  <2>1. 1..0 = {} /\ 0 \in 0..n
    OBVIOUS
  <2> HIDE DEF t
  <2>2. t[0] = f[{}]
    BY <1>5, <2>1
  <2> QED
    BY <1>4, <2>2
<1>7. ASSUME NEW i \in 1..n PROVE t[i] = step[<<t[i - 1], i>>]
  <2>1. 1..i \in SUBSET S /\ 1..i # {} /\ Max(1..i) = i /\ (1..i) \ {i} = 1..(i - 1)
    BY LastOfInterval
  <2>2. f[1..i] = step[<<f[(1..i) \ {Max(1..i)}], Max(1..i)>>]
    <3> HIDE DEF S
    <3> QED
      BY <1>4, <2>1
  <2>3. i \in 0..n /\ i - 1 \in 0..n
    OBVIOUS
  <2>4. f[(1..i) \ {Max(1..i)}] = f[1..(i - 1)]
    BY <2>1
  <2> HIDE DEF t
  <2>5. t[i] = f[1..i] /\ t[i - 1] = f[1..(i - 1)]
    BY <1>5, <2>3
  <2> QED
    BY <2>1, <2>2, <2>4, <2>5
<1>8. t \in StepsOf(X, b, step, n)
  <2> HIDE DEF t
  <2> QED
    BY <1>5, <1>6, <1>7 DEF StepsOf
<1> QED
  BY <1>4, <1>8

\* Two functions that go from a set to the next in the same way end the same.
LEMMA IntervalAgree ==
    ASSUME NEW n \in Nat, NEW f, NEW g, f[{}] = g[{}],
           \A U \in SUBSET (1..n) :
             U # {} /\ f[U \ {Max(U)}] = g[U \ {Max(U)}] => f[U] = g[U]
    PROVE  f[1..n] = g[1..n]
<1> DEFINE S == 1..n
           G == {U \in SUBSET S : f[U] = g[U]}
<1>1. ASSUME NEW U \in SUBSET S, \A V \in SUBSET U : V # U => V \in G PROVE U \in G
  <2>1. U # {} => Max(U) \in U
    BY MaxIsOne
  <2>2. U # {} => f[U \ {Max(U)}] = g[U \ {Max(U)}]
    BY <1>1, <2>1
  <2> QED
    BY <2>2
<1>2. IsFiniteSet(S)
  BY FS_Interval
<1>3. S \in G
  <2> HIDE DEF S, G
  <2> QED
    BY <1>1, <1>2, SubsetInduction
<1> QED
  BY <1>3

Applying(fs, layer, entries) ==
    CHOOSE iter : iter = [s \in SUBSET DOMAIN entries |->
                            IF s = {} THEN fs
                            ELSE Apply(iter[s \ {Max(s)}], layer, entries[Max(s)])]

LEMMA ApplyLayerIs ==
    ASSUME NEW fs, NEW layer, NEW entries
    PROVE  ApplyLayer(fs, layer, entries) = Applying(fs, layer, entries)[DOMAIN entries]
BY DEF ApplyLayer, FoldLeft, MapThenFoldSet, Applying

\* The views between the entries of a layer.
EntrySteps(fs, layer, entries) ==
    {t \in [0..Len(entries) -> Views] :
        /\ t[0] = fs
        /\ \A i \in 1..Len(entries) : t[i] = Apply(t[i - 1], layer, entries[i])
        /\ t[Len(entries)] = ApplyLayer(fs, layer, entries)}

LEMMA LayerInSteps ==
    ASSUME NEW fs \in Views, NEW layer \in Nat, NEW entries \in Seq(Entry)
    PROVE  EntrySteps(fs, layer, entries) # {}
<1> DEFINE n == Len(entries)
           step == [x \in Views \X (1..n) |-> Apply(x[1], layer, entries[x[2]])]
           body(f, U) == IF U = {} THEN fs ELSE Apply(f[U \ {Max(U)}], layer, entries[Max(U)])
<1>1. n \in Nat /\ DOMAIN entries = 1..n
  OBVIOUS
<1>2. \A x \in Views \X (1..n) : Apply(x[1], layer, entries[x[2]]) \in Views
  <2> SUFFICES ASSUME NEW x \in Views \X (1..n) PROVE Apply(x[1], layer, entries[x[2]]) \in Views
    OBVIOUS
  <2>1. x[1] \in Views /\ entries[x[2]] \in Entry
    BY <1>1
  <2> QED
    BY <2>1, ApplyIsView
<1>3. step \in [Views \X (1..n) -> Views]
  BY <1>2
<1>4. PICK f \in [SUBSET (1..n) -> Views] :
        /\ \A U \in SUBSET (1..n) :
             f[U] = IF U = {} THEN fs ELSE step[<<f[U \ {Max(U)}], Max(U)>>]
        /\ [i \in 0..n |-> f[1..i]] \in StepsOf(Views, fs, step, n)
  <2> HIDE DEF n, step
  <2> QED
    BY <1>1, <1>3, IntervalFold
<1>5. \A U \in SUBSET (1..n) : f[U] = body(f, U)
  <2> SUFFICES ASSUME NEW U \in SUBSET (1..n) PROVE f[U] = body(f, U)
    OBVIOUS
  <2>1. U # {} => Max(U) \in 1..n /\ f[U \ {Max(U)}] \in Views
    <3> HIDE DEF n
    <3> QED
      BY <1>1, MaxIsOne
  <2>2. U # {} => step[<<f[U \ {Max(U)}], Max(U)>>] = Apply(f[U \ {Max(U)}], layer, entries[Max(U)])
    <3> HIDE DEF n
    <3> QED
      BY <2>1
  <2> HIDE DEF step, n
  <2> QED
    BY <1>4, <2>2
<1>6. f = [U \in SUBSET (1..n) |-> body(f, U)]
  <2>1. f = [U \in SUBSET (1..n) |-> f[U]]
    OBVIOUS
  <2> HIDE DEF body, n
  <2> QED
    BY <1>5, <2>1
<1> DEFINE g == Applying(fs, layer, entries)
<1>7. g = [U \in SUBSET (1..n) |-> body(g, U)]
  <2>1. f = [U \in SUBSET DOMAIN entries |->
               IF U = {} THEN fs ELSE Apply(f[U \ {Max(U)}], layer, entries[Max(U)])]
    BY <1>1, <1>6
  <2>2. g = [U \in SUBSET DOMAIN entries |->
               IF U = {} THEN fs ELSE Apply(g[U \ {Max(U)}], layer, entries[Max(U)])]
    BY <2>1, Zenon DEF Applying
  <2> HIDE DEF g
  <2> QED
    BY <1>1, <2>2
<1>8. \A U \in SUBSET (1..n) : g[U] = body(g, U)
  <2> HIDE DEF g, body, n
  <2> QED
    BY <1>7
<1> DEFINE t == [i \in 0..n |-> f[1..i]]
<1>9. t \in [0..n -> Views] /\ t[0] = fs /\ \A i \in 1..n : t[i] = Apply(t[i - 1], layer, entries[i])
  <2>1. /\ t \in [0..n -> Views] /\ t[0] = fs
        /\ \A i \in 1..n : t[i] = step[<<t[i - 1], i>>]
    <3> HIDE DEF t, step, n
    <3>1. t \in StepsOf(Views, fs, step, n)
      BY <1>4 DEF t
    <3> QED
      BY <3>1 DEF StepsOf
  <2>2. ASSUME NEW i \in 1..n PROVE t[i] = Apply(t[i - 1], layer, entries[i])
    <3>1. i - 1 \in 0..n
      BY <1>1
    <3> HIDE DEF t, n
    <3>2. t[i - 1] \in Views
      BY <2>1, <3>1
    <3>3. step[<<t[i - 1], i>>] = Apply(t[i - 1], layer, entries[i])
      BY <3>2
    <3> HIDE DEF step
    <3> QED
      BY <2>1, <3>3
  <2> QED
    BY <2>1, <2>2
<1>10. f[1..n] = g[1..n]
  <2>1. f[{}] = g[{}]
    <3> HIDE DEF g, n
    <3> QED
      BY <1>5, <1>8
  <2>2. ASSUME NEW U \in SUBSET (1..n), U # {}, f[U \ {Max(U)}] = g[U \ {Max(U)}]
        PROVE  f[U] = g[U]
    <3>1. body(f, U) = body(g, U)
      <4> HIDE DEF g, n
      <4> QED
        BY <2>2
    <3> HIDE DEF body, g, n
    <3> QED
      BY <1>5, <1>8, <3>1
  <2> HIDE DEF g, n
  <2> QED
    BY <1>1, <2>1, <2>2, IntervalAgree
<1>11. t[n] = ApplyLayer(fs, layer, entries)
  <2>1. t[n] = f[1..n]
    BY <1>1
  <2> HIDE DEF t, g
  <2> QED
    BY <1>1, <1>10, <2>1, ApplyLayerIs DEF g
<1> HIDE DEF t
<1>12. t \in EntrySteps(fs, layer, entries)
  BY <1>9, <1>11 DEF EntrySteps
<1> QED
  BY <1>12

Viewing(layers) ==
    CHOOSE iter : iter = [s \in SUBSET DOMAIN [i \in DOMAIN layers |-> i] |->
                            IF s = {} THEN [p \in {} |-> {}]
                            ELSE ApplyLayer(iter[s \ {Max(s)}], [i \in DOMAIN layers |-> i][Max(s)],
                                            layers[[i \in DOMAIN layers |-> i][Max(s)]])]

LEMMA LayersViewIs ==
    ASSUME NEW layers
    PROVE  View(layers) = Viewing(layers)[DOMAIN [i \in DOMAIN layers |-> i]]
BY DEF View, FoldLeftDomain, FoldLeft, MapThenFoldSet, Viewing

\* The views between the layers.
LayerSteps(layers) ==
    {t \in [0..Len(layers) -> Views] :
        /\ t[0] = [p \in {} |-> {}]
        /\ \A i \in 1..Len(layers) : t[i] = ApplyLayer(t[i - 1], i, layers[i])
        /\ t[Len(layers)] = View(layers)}

LEMMA LayerIsView ==
    ASSUME NEW fs \in Views, NEW layer \in Nat, NEW entries \in Seq(Entry)
    PROVE  ApplyLayer(fs, layer, entries) \in Views
<1>1. PICK t \in EntrySteps(fs, layer, entries) : TRUE
  BY LayerInSteps
<1>2. Len(entries) \in 0..Len(entries)
  OBVIOUS
<1> QED
  BY <1>1, <1>2 DEF EntrySteps

LEMMA ViewInSteps ==
    ASSUME NEW layers \in Seq(Seq(Entry)) PROVE LayerSteps(layers) # {}
<1> DEFINE n == Len(layers)
           b == [p \in {} |-> {}]
           step == [x \in Views \X (1..n) |-> ApplyLayer(x[1], x[2], layers[x[2]])]
           body(f, U) == IF U = {} THEN b ELSE ApplyLayer(f[U \ {Max(U)}], Max(U), layers[Max(U)])
<1>1. n \in Nat /\ DOMAIN layers = 1..n
  OBVIOUS
<1>2. b \in Views
  BY ViewIs
<1>3. step \in [Views \X (1..n) -> Views]
  <2>1. \A x \in Views \X (1..n) : ApplyLayer(x[1], x[2], layers[x[2]]) \in Views
    <3> SUFFICES ASSUME NEW x \in Views \X (1..n) PROVE ApplyLayer(x[1], x[2], layers[x[2]]) \in Views
      OBVIOUS
    <3>1. x[1] \in Views /\ x[2] \in Nat /\ layers[x[2]] \in Seq(Entry)
      BY <1>1
    <3> QED
      BY <3>1, LayerIsView
  <2> QED
    BY <2>1
<1>4. PICK f \in [SUBSET (1..n) -> Views] :
        /\ \A U \in SUBSET (1..n) :
             f[U] = IF U = {} THEN b ELSE step[<<f[U \ {Max(U)}], Max(U)>>]
        /\ [i \in 0..n |-> f[1..i]] \in StepsOf(Views, b, step, n)
  <2> HIDE DEF n, step, b
  <2> QED
    BY <1>1, <1>2, <1>3, IntervalFold
<1> HIDE DEF b
<1>5. \A U \in SUBSET (1..n) : f[U] = body(f, U)
  <2> SUFFICES ASSUME NEW U \in SUBSET (1..n) PROVE f[U] = body(f, U)
    OBVIOUS
  <2>1. U # {} => Max(U) \in 1..n /\ f[U \ {Max(U)}] \in Views
    <3> HIDE DEF n
    <3> QED
      BY <1>1, MaxIsOne
  <2>2. U # {} => step[<<f[U \ {Max(U)}], Max(U)>>] = ApplyLayer(f[U \ {Max(U)}], Max(U), layers[Max(U)])
    <3> HIDE DEF n
    <3> QED
      BY <2>1
  <2> HIDE DEF step, n
  <2> QED
    BY <1>4, <2>2
<1>6. f = [U \in SUBSET (1..n) |-> body(f, U)]
  <2>1. f = [U \in SUBSET (1..n) |-> f[U]]
    OBVIOUS
  <2> HIDE DEF body, n
  <2> QED
    BY <1>5, <2>1
<1> DEFINE g == Viewing(layers)
           id == [i \in DOMAIN layers |-> i]
           raw(h, U) == IF U = {} THEN b ELSE ApplyLayer(h[U \ {Max(U)}], id[Max(U)], layers[id[Max(U)]])
<1>7. DOMAIN id = 1..n /\ \A h : \A U \in SUBSET (1..n) : raw(h, U) = body(h, U)
  <2>1. DOMAIN id = 1..n /\ \A i \in 1..n : id[i] = i
    BY <1>1
  <2> SUFFICES ASSUME NEW h, NEW U \in SUBSET (1..n) PROVE raw(h, U) = body(h, U)
    BY <2>1
  <2>2. U # {} => Max(U) \in 1..n
    <3> HIDE DEF n
    <3> QED
      BY <1>1, MaxIsOne
  <2> HIDE DEF id, n
  <2> QED
    BY <2>1, <2>2
<1>8. g = [U \in SUBSET DOMAIN id |-> raw(g, U)]
  <2>1. f = [U \in SUBSET DOMAIN id |-> raw(f, U)]
    <3> HIDE DEF raw, body, id, n
    <3> QED
      BY <1>6, <1>7
  <2> QED
    BY <2>1, Zenon DEF Viewing, b
<1>9. \A U \in SUBSET (1..n) : g[U] = body(g, U)
  <2> HIDE DEF g, raw, body, id, n
  <2> QED
    BY <1>7, <1>8
<1> DEFINE t == [i \in 0..n |-> f[1..i]]
<1>10. t \in [0..n -> Views] /\ t[0] = b /\ \A i \in 1..n : t[i] = ApplyLayer(t[i - 1], i, layers[i])
  <2>1. /\ t \in [0..n -> Views] /\ t[0] = b
        /\ \A i \in 1..n : t[i] = step[<<t[i - 1], i>>]
    <3> HIDE DEF t, step, n
    <3>1. t \in StepsOf(Views, b, step, n)
      BY <1>4 DEF t
    <3> QED
      BY <3>1 DEF StepsOf
  <2>2. ASSUME NEW i \in 1..n PROVE t[i] = ApplyLayer(t[i - 1], i, layers[i])
    <3>1. i - 1 \in 0..n
      BY <1>1
    <3> HIDE DEF t, n
    <3>2. t[i - 1] \in Views
      BY <2>1, <3>1
    <3>3. step[<<t[i - 1], i>>] = ApplyLayer(t[i - 1], i, layers[i])
      BY <3>2
    <3> HIDE DEF step
    <3> QED
      BY <2>1, <3>3
  <2> QED
    BY <2>1, <2>2
<1>11. f[1..n] = g[1..n]
  <2>1. f[{}] = g[{}]
    <3> HIDE DEF g, n
    <3> QED
      BY <1>5, <1>9
  <2>2. ASSUME NEW U \in SUBSET (1..n), U # {}, f[U \ {Max(U)}] = g[U \ {Max(U)}]
        PROVE  f[U] = g[U]
    <3>1. body(f, U) = body(g, U)
      <4> HIDE DEF g, n
      <4> QED
        BY <2>2
    <3> HIDE DEF body, g, n
    <3> QED
      BY <1>5, <1>9, <3>1
  <2> HIDE DEF g, n
  <2> QED
    BY <1>1, <2>1, <2>2, IntervalAgree
<1>12. t[n] = View(layers)
  <2>1. t[n] = f[1..n]
    BY <1>1
  <2>2. View(layers) = g[DOMAIN id]
    BY LayersViewIs
  <2> HIDE DEF t, g, id, n
  <2> QED
    BY <1>7, <1>11, <2>1, <2>2
<1> HIDE DEF t
<1>13. t \in LayerSteps(layers)
  BY <1>10, <1>12 DEF LayerSteps, b
<1> QED
  BY <1>13

LEMMA UpTo ==
    ASSUME NEW n \in Nat, NEW G, 0 \in G, \A i \in 1..n : i - 1 \in G => i \in G PROVE n \in G
<1> SUFFICES ASSUME n \notin G PROVE FALSE
  OBVIOUS
<1> DEFINE bad == {i \in 0..n : i \notin G}
<1>1. n \in bad /\ bad \subseteq Nat
  OBVIOUS
<1> HIDE DEF bad
<1>2. PICK i \in bad : \A j \in bad : <<j, i>> \notin OpToRel(<, Nat)
  BY <1>1, NatLessThanWellFounded, WFMin
<1>3. i \in 0..n /\ i \notin G
  <2>1. i \in bad
    BY <1>2
  <2> QED
    BY <2>1 DEF bad
<1>4. i \in 1..n /\ i - 1 \in 0..n
  BY <1>3
<1>5. i - 1 \notin G
  BY <1>3, <1>4
<1>6. i - 1 \in bad
  BY <1>4, <1>5 DEF bad
<1>7. <<i - 1, i>> \notin OpToRel(<, Nat)
  BY <1>2, <1>6
<1> QED
  BY <1>4, <1>7 DEF OpToRel

(***************************************************************************)
(* From the first entry to the last.                                        *)
(***************************************************************************)
Telling(layers, layer, done, fs) ==
    /\ fs \in Views
    /\ Entered(layers, done, fs)
    /\ Unopposed(layers, done, fs)
    /\ Plain(layers) => Cleared(layers, done, fs) /\ Rooted(layer, fs)

LEMMA EntryTells ==
    ASSUME NEW layers, Archives(layers), NEW done, NEW at, ComesNext(layers, done, at), NEW fs,
           Telling(layers, at[1], done, fs)
    PROVE  Telling(layers, at[1], done \cup {at}, Apply(fs, at[1], EntryAt(layers, at)))
<1> DEFINE t == Apply(fs, at[1], EntryAt(layers, at))
<1>1. fs \in Views /\ Entered(layers, done, fs) /\ Unopposed(layers, done, fs)
  BY DEF Telling
<1>2. t \in Views
  <2>1. at[1] \in Nat /\ EntryAt(layers, at) \in Entry
    BY SpotsAre DEF ComesNext
  <2> QED
    BY <1>1, <2>1, ApplyIsView
<1>3. Entered(layers, done \cup {at}, t)
  BY <1>1, EnteredKept
<1>4. Unopposed(layers, done \cup {at}, t)
  BY <1>1, UnopposedKept
<1>5. ASSUME Plain(layers) PROVE Cleared(layers, done \cup {at}, t) /\ Rooted(at[1], t)
  <2>1. Cleared(layers, done, fs) /\ Rooted(at[1], fs)
    BY <1>5 DEF Telling
  <2>2. Cleared(layers, done \cup {at}, t)
    BY <1>1, <1>5, <2>1, ClearedKept
  <2>3. Rooted(at[1], t)
    BY <1>1, <2>1, <2>2, RootedKept
  <2> QED
    BY <2>2, <2>3
<1> HIDE DEF t
<1>6. Telling(layers, at[1], done \cup {at}, t)
  BY <1>2, <1>3, <1>4, <1>5 DEF Telling
<1> QED
  BY <1>6 DEF t

LEMMA DoneIs ==
    ASSUME NEW layers, Archives(layers), NEW layer \in DOMAIN layers
    PROVE  /\ layer \in Nat /\ layers[layer] \in Seq(Entry)
           /\ \A i \in 1..Len(layers[layer]) :
                /\ Done(layers, layer, i) = Done(layers, layer, i - 1) \cup {<<layer, i>>}
                /\ ComesNext(layers, Done(layers, layer, i - 1), <<layer, i>>)
           /\ Done(layers, layer + 1, 0) = Done(layers, layer, Len(layers[layer]))
<1>1. layer \in Nat /\ layers[layer] \in Seq(Entry) /\ DOMAIN layers[layer] = 1..Len(layers[layer])
  BY DEF Archives
<1>2. \A at \in Spots(layers) :
        at[1] \in Nat /\ at[2] \in DOMAIN layers[at[1]] /\ at = <<at[1], at[2]>> /\ at[2] \in Nat /\ at[2] # 0
  <2> SUFFICES ASSUME NEW at \in Spots(layers)
               PROVE  /\ at[1] \in Nat /\ at[2] \in DOMAIN layers[at[1]] /\ at = <<at[1], at[2]>>
                      /\ at[2] \in Nat /\ at[2] # 0
    OBVIOUS
  <2>1. at[1] \in DOMAIN layers /\ at[2] \in DOMAIN layers[at[1]] /\ at \in Nat \X Nat
    BY DEF Spots
  <2>2. layers[at[1]] \in Seq(Entry)
    BY <2>1 DEF Archives
  <2>3. at[2] # 0
    BY <2>1, <2>2
  <2> QED
    BY <2>1, <2>3
<1>3. ASSUME NEW i \in 1..Len(layers[layer])
      PROVE  /\ Done(layers, layer, i) = Done(layers, layer, i - 1) \cup {<<layer, i>>}
             /\ ComesNext(layers, Done(layers, layer, i - 1), <<layer, i>>)
  <2>1. <<layer, i>> \in Spots(layers)
    BY <1>1 DEF Spots
  <2>2. \A at \in Spots(layers) : at[1] = layer /\ at[2] <= i /\ ~(at[2] <= i - 1) => at = <<layer, i>>
    BY <1>1, <1>2
  <2>3. Done(layers, layer, i) = Done(layers, layer, i - 1) \cup {<<layer, i>>}
    BY <1>1, <1>2, <2>1, <2>2 DEF Done
  <2>4. <<layer, i>> \notin Done(layers, layer, i - 1)
    BY <1>1 DEF Done
  <2>5. \A d \in Done(layers, layer, i - 1) : d \in Spots(layers) /\ d[1] <= layer
    BY <1>1, <1>2 DEF Done
  <2> QED
    BY <2>1, <2>3, <2>4, <2>5 DEF ComesNext
<1>4. Done(layers, layer + 1, 0) = Done(layers, layer, Len(layers[layer]))
  <2>1. \A at \in Spots(layers) : at[1] = layer => at[2] <= Len(layers[layer])
    BY <1>1, <1>2
  <2>2. \A at \in Spots(layers) : at[1] < layer + 1 <=> at[1] < layer \/ at[1] = layer
    BY <1>1, <1>2
  <2>3. \A at \in Spots(layers) : ~(at[2] <= 0)
    BY <1>2
  <2> QED
    BY <2>1, <2>2, <2>3 DEF Done
<1> QED
  BY <1>1, <1>3, <1>4

LEMMA LayerTells ==
    ASSUME NEW layers, Archives(layers), NEW layer \in DOMAIN layers, NEW fs,
           Telling(layers, layer, Done(layers, layer, 0), fs)
    PROVE  Telling(layers, layer + 1, Done(layers, layer + 1, 0), ApplyLayer(fs, layer, layers[layer]))
<1> DEFINE entries == layers[layer]
           n == Len(entries)
<1>1. layer \in Nat /\ entries \in Seq(Entry) /\ n \in Nat /\ fs \in Views
  BY DoneIs DEF Telling
<1>2. PICK t \in EntrySteps(fs, layer, entries) : TRUE
  <2> HIDE DEF entries
  <2> QED
    BY <1>1, LayerInSteps
<1>3. /\ t[0] = fs /\ t[n] = ApplyLayer(fs, layer, entries)
      /\ \A i \in 1..n : t[i] = Apply(t[i - 1], layer, entries[i])
  BY <1>2 DEF EntrySteps
<1> DEFINE G == {i \in 0..n : Telling(layers, layer, Done(layers, layer, i), t[i])}
<1>4. 0 \in G
  BY <1>1, <1>3
<1>5. ASSUME NEW i \in 1..n, i - 1 \in G PROVE i \in G
  <2> DEFINE at == <<layer, i>>
             done == Done(layers, layer, i - 1)
  <2>1. Telling(layers, layer, done, t[i - 1])
    BY <1>5
  <2>2. ComesNext(layers, done, at) /\ Done(layers, layer, i) = done \cup {at}
    BY DoneIs
  <2>3. at[1] = layer /\ EntryAt(layers, at) = entries[i]
    BY DEF EntryAt
  <2>4. i \in 0..n
    BY <1>1
  <2> HIDE DEF at, done, entries, n
  <2>5. Telling(layers, layer, done \cup {at}, Apply(t[i - 1], layer, entries[i]))
    BY <2>1, <2>2, <2>3, EntryTells
  <2> QED
    BY <1>3, <2>2, <2>4, <2>5
<1>6. n \in G
  <2> HIDE DEF G, n
  <2> QED
    BY <1>1, <1>4, <1>5, UpTo
<1> DEFINE s == ApplyLayer(fs, layer, entries)
<1>7. Telling(layers, layer, Done(layers, layer, n), s)
  BY <1>3, <1>6
<1> HIDE DEF s
<1>8. Plain(layers) => Rooted(layer + 1, s)
  BY <1>7, LayerIsRooted DEF Telling
<1>9. Telling(layers, layer + 1, Done(layers, layer, n), s)
  BY <1>7, <1>8 DEF Telling
<1> QED
  BY <1>9, DoneIs DEF s

LEMMA ViewTells ==
    ASSUME NEW layers, Archives(layers)
    PROVE  Telling(layers, Len(layers) + 1, Spots(layers), View(layers))
<1> DEFINE n == Len(layers)
           b == [p \in {} |-> {}]
<1>1. layers \in Seq(Seq(Entry)) /\ n \in Nat /\ DOMAIN layers = 1..n
  BY DEF Archives
<1>2. PICK t \in LayerSteps(layers) : TRUE
  BY <1>1, ViewInSteps
<1>3. /\ t[0] = b /\ t[n] = View(layers)
      /\ \A i \in 1..n : t[i] = ApplyLayer(t[i - 1], i, layers[i])
  BY <1>2 DEF LayerSteps
<1> DEFINE G == {i \in 0..n : Telling(layers, i + 1, Done(layers, i + 1, 0), t[i])}
<1>4. 0 \in G
  <2>1. Done(layers, 1, 0) = {}
    <3> SUFFICES ASSUME NEW at \in Done(layers, 1, 0) PROVE FALSE
      OBVIOUS
    <3>1. at \in Spots(layers) /\ (at[1] < 1 \/ at[2] <= 0)
      BY DEF Done
    <3>2. at[1] \in 1..n /\ at[2] \in DOMAIN layers[at[1]] /\ at[2] \in Nat
      BY <1>1, <3>1 DEF Spots
    <3>3. layers[at[1]] \in Seq(Entry)
      BY <1>1, <3>2
    <3>4. at[2] \in 1..Len(layers[at[1]])
      BY <3>2, <3>3
    <3> QED
      BY <3>1, <3>2, <3>4
  <2>2. b \in Views /\ DOMAIN b = {}
    BY ViewIs
  <2>3. Entered(layers, {}, b) /\ Unopposed(layers, {}, b) /\ Cleared(layers, {}, b) /\ Rooted(1, b)
    BY <2>2 DEF Entered, Unopposed, Cleared, Rooted
  <2> HIDE DEF b
  <2>4. Telling(layers, 1, {}, b)
    BY <2>2, <2>3 DEF Telling
  <2>5. 0 \in 0..n /\ 0 + 1 = 1
    BY <1>1
  <2> QED
    BY <1>3, <2>1, <2>4, <2>5
<1>5. ASSUME NEW i \in 1..n, i - 1 \in G PROVE i \in G
  <2>1. i - 1 + 1 = i /\ i \in DOMAIN layers /\ i \in 0..n
    BY <1>1
  <2>2. Telling(layers, i, Done(layers, i, 0), t[i - 1])
    BY <1>5, <2>1
  <2>3. Telling(layers, i + 1, Done(layers, i + 1, 0), ApplyLayer(t[i - 1], i, layers[i]))
    BY <2>1, <2>2, LayerTells
  <2> QED
    BY <1>3, <2>1, <2>3
<1>6. n \in G
  <2> HIDE DEF G, n
  <2> QED
    BY <1>1, <1>4, <1>5, UpTo
<1>7. Done(layers, n + 1, 0) = Spots(layers)
  <2>1. \A at \in Spots(layers) : at[1] < n + 1
    BY <1>1 DEF Spots
  <2> QED
    BY <2>1 DEF Done
<1> QED
  BY <1>3, <1>6, <1>7

\* The layers of an image are archives that a layer can be.
ImagesAreArchives == case.of = "image" => Archives(case.layers)

\* The view of an image is the overlay of its layers (ImageFs::apply, os/src/image.rs:261), for
\* any number of layers and entries and any order of the paths' text: every file that the overlay
\* shows is in the view from its layer, nothing else when no sibling sorts between a directory
\* and its files, and a binary is one that its layer has.
THEOREM ViewsAreOverlays == ASSUME ImagesAreArchives PROVE LayersAreOverlay
<1> SUFFICES ASSUME case.of = "image" PROVE LayersAreOverlay
  BY DEF LayersAreOverlay
<1> DEFINE layers == case.layers
           fs == View(layers)
           n == Len(layers)
<1>1. Archives(layers)
  BY DEF ImagesAreArchives
<1>2. layers \in Seq(Seq(Entry)) /\ DOMAIN layers = 1..n /\ n \in Nat
  BY <1>1 DEF Archives
<1> HIDE DEF layers, fs
<1>3. /\ fs \in Views /\ Entered(layers, Spots(layers), fs) /\ Unopposed(layers, Spots(layers), fs)
      /\ Plain(layers) => Cleared(layers, Spots(layers), fs)
  BY <1>1, ViewTells DEF Telling, fs
<1>4. \A i \in DOMAIN layers : \A e \in Range(layers[i]) :
        \E j \in DOMAIN layers[i] : <<i, j>> \in Spots(layers) /\ EntryAt(layers, <<i, j>>) = e
  <2> SUFFICES ASSUME NEW i \in DOMAIN layers, NEW e \in Range(layers[i])
               PROVE  \E j \in DOMAIN layers[i] :
                         <<i, j>> \in Spots(layers) /\ EntryAt(layers, <<i, j>>) = e
    OBVIOUS
  <2>1. PICK j \in DOMAIN layers[i] : layers[i][j] = e
    BY DEF Range
  <2>2. layers[i] \in Seq(Entry) /\ i \in Nat
    BY <1>2
  <2>3. j \in Nat
    BY <2>2
  <2> QED
    BY <2>1, <2>2, <2>3 DEF Spots, EntryAt
<1>5. \A at \in Spots(layers) :
        /\ at[1] \in DOMAIN layers /\ at[1] \in Nat
        /\ EntryAt(layers, at) \in Range(layers[at[1]]) /\ EntryAt(layers, at) \in Entry
  BY <1>1, SpotsAre DEF Spots
\* What a layer does to a path is done by one of its entries.
<1>6. \A i \in DOMAIN layers, p \in Paths :
        Holds(layers[i], p) \/ Hides(layers[i], p) <=>
          \E e \in Range(layers[i]) : Overrides(e, p)
  BY DEF Holds, Hides, Overrides, Puts
<1>7. ASSUME NEW p \in Range(TextOrder), NEW i \in DOMAIN layers, i \in Shown(layers, p)
      PROVE  p \in DOMAIN fs /\ fs[p].layer = i
  <2>1. /\ Holds(layers[i], p)
        /\ \A j \in DOMAIN layers : j > i => ~Holds(layers[j], p) /\ ~Hides(layers[j], p)
    BY <1>7 DEF Shown
  <2>2. PICK e \in Range(layers[i]) : e.path = p /\ Puts(e)
    BY <2>1 DEF Holds, Puts
  <2>3. PICK j \in DOMAIN layers[i] : <<i, j>> \in Spots(layers) /\ EntryAt(layers, <<i, j>>) = e
    BY <1>4
  <2> DEFINE at == <<i, j>>
  <2>4. at \in Spots(layers) /\ EntryAt(layers, at) = e /\ at[1] = i
    BY <2>3
  <2> HIDE DEF at
  <2>5. \A c \in Spots(layers) : c[1] > at[1] => ~Overrides(EntryAt(layers, c), p)
    BY <1>5, <1>6, <2>1, <2>4 DEF Paths
  <2>6. p \in DOMAIN fs /\ fs[p] = [layer |-> at[1], kind |-> e.kind]
    <3>1. Puts(e) /\ (\A c \in Spots(layers) : c[1] > at[1] => ~Overrides(EntryAt(layers, c), e.path))
          => e.path \in DOMAIN fs /\ fs[e.path] = [layer |-> at[1], kind |-> e.kind]
      BY <1>3, <2>4, Zenon DEF Unopposed
    <3> QED
      BY <2>2, <2>5, <3>1
  <2> QED
    BY <2>4, <2>6
<1>8. ASSUME NEW p \in DOMAIN fs
      PROVE  \E e \in Range(layers[fs[p].layer]) :
                /\ e.path = p /\ Puts(e) /\ e \in Entry /\ e.kind = fs[p].kind
                /\ fs[p].layer \in DOMAIN layers /\ fs[p].layer \in Nat
  <2>1. PICK at \in Spots(layers) :
           /\ EntryAt(layers, at).path = p /\ Puts(EntryAt(layers, at))
           /\ fs[p] = [layer |-> at[1], kind |-> EntryAt(layers, at).kind]
    BY <1>3 DEF Entered
  <2>2. fs[p].layer = at[1] /\ fs[p].kind = EntryAt(layers, at).kind
    BY <2>1
  <2> QED
    BY <1>5, <2>1, <2>2
<1>9. ASSUME Plain(layers), NEW p \in DOMAIN fs PROVE fs[p].layer \in Shown(layers, p)
  <2> DEFINE i == fs[p].layer
  <2>1. i \in DOMAIN layers /\ i \in Nat /\ Holds(layers[i], p)
    BY <1>8 DEF Holds, Puts
  <2>2. p \in Paths
    BY <1>3, ViewEntry
  <2>3. \A c \in Spots(layers) : c[1] > i => ~Overrides(EntryAt(layers, c), p)
    BY <1>3, <1>9 DEF Cleared
  <2> HIDE DEF i
  <2>4. ASSUME NEW j \in DOMAIN layers, j > i PROVE ~Holds(layers[j], p) /\ ~Hides(layers[j], p)
    <3>1. ASSUME NEW e \in Range(layers[j]) PROVE ~Overrides(e, p)
      <4>1. PICK k \in DOMAIN layers[j] : <<j, k>> \in Spots(layers) /\ EntryAt(layers, <<j, k>>) = e
        BY <1>4
      <4> DEFINE at == <<j, k>>
      <4>2. at \in Spots(layers) /\ EntryAt(layers, at) = e /\ at[1] = j
        BY <4>1
      <4> HIDE DEF at
      <4> QED
        BY <2>3, <2>4, <4>2
    <3> QED
      BY <1>6, <2>2, <3>1
  <2> QED
    BY <2>1, <2>4 DEF Shown, i
<1>10. ASSUME NEW p \in Binaries(layers)
       PROVE  \E e \in Range(layers[fs[p].layer]) : e = [path |-> p, kind |-> "binary"]
  <2>1. p \in DOMAIN fs /\ <<p, fs[p].layer>> \in Noted(layers)
    BY <1>10 DEF Binaries, fs
  <2>2. PICK e \in Range(layers[fs[p].layer]) : e.path = p /\ e.kind = "binary"
    BY <2>1 DEF Noted
  <2>3. fs[p].layer \in DOMAIN layers
    BY <1>8, <2>1
  <2>4. e \in Entry
    BY <1>4, <1>5, <2>3
  <2>5. e = [path |-> p, kind |-> "binary"]
    BY <2>2, <2>4 DEF Entry
  <2> QED
    BY <2>5
<1> QED
  BY <1>7, <1>9, <1>10 DEF LayersAreOverlay, fs, layers

-----------------------------------------------------------------------------
(***************************************************************************)
(* Version orders.  A comparator is a function on pairs; it is total when   *)
(* it answers oppositely the other way round and is transitive, ties        *)
(* included.  First come the ways in which the code makes one of others.    *)
(***************************************************************************)
Total(K, c) ==
    /\ c \in [K \X K -> {-1, 0, 1}]
    /\ \A x, y \in K : c[<<x, y>>] = -c[<<y, x>>]
    /\ \A x, y, z \in K : c[<<x, y>>] <= 0 /\ c[<<y, z>>] <= 0 => c[<<x, z>>] <= 0

\* What is total ties each with itself; ties are transitive, and what is below stays below.
LEMMA TotalIsStrict ==
    ASSUME NEW K, NEW c, Total(K, c)
    PROVE  /\ \A x \in K : c[<<x, x>>] = 0
           /\ \A x, y \in K : c[<<x, y>>] \in {-1, 0, 1}
           /\ \A x, y, z \in K :
                c[<<x, y>>] <= 0 /\ c[<<y, z>>] <= 0 /\ (c[<<x, y>>] < 0 \/ c[<<y, z>>] < 0)
                => c[<<x, z>>] < 0
           /\ \A x, y, z \in K : c[<<x, y>>] = 0 /\ c[<<y, z>>] = 0 => c[<<x, z>>] = 0
<1>1. \A x, y \in K : c[<<x, y>>] \in {-1, 0, 1}
  BY DEF Total
<1>2. /\ \A x, y \in K : c[<<x, y>>] = -c[<<y, x>>]
      /\ \A x, y, z \in K : c[<<x, y>>] <= 0 /\ c[<<y, z>>] <= 0 => c[<<x, z>>] <= 0
  BY DEF Total
<1>3. \A x \in K : c[<<x, x>>] = 0
  BY <1>1, <1>2
<1>4. ASSUME NEW x \in K, NEW y \in K, NEW z \in K, c[<<x, y>>] = 0, c[<<y, z>>] = 0
      PROVE  c[<<x, z>>] = 0
  <2>1. c[<<x, z>>] <= 0
    BY <1>2, <1>4
  <2>2. c[<<y, x>>] <= 0 /\ c[<<z, y>>] <= 0
    <3>1. c[<<x, y>>] = -c[<<y, x>>] /\ c[<<y, z>>] = -c[<<z, y>>]
      BY <1>2
    <3>2. c[<<y, x>>] \in Int /\ c[<<z, y>>] \in Int
      BY <1>1
    <3> QED
      BY <1>4, <3>1, <3>2
  <2>3. c[<<z, x>>] <= 0
    BY <1>2, <2>2
  <2>4. c[<<x, z>>] = -c[<<z, x>>]
    BY <1>2
  <2>5. c[<<x, z>>] \in Int /\ c[<<z, x>>] \in Int
    BY <1>1
  <2> QED
    BY <2>1, <2>3, <2>4, <2>5
<1>5. ASSUME NEW x \in K, NEW y \in K, NEW z \in K, c[<<x, y>>] <= 0, c[<<y, z>>] <= 0,
             c[<<x, y>>] < 0 \/ c[<<y, z>>] < 0
      PROVE  c[<<x, z>>] < 0
  <2> SUFFICES ASSUME ~(c[<<x, z>>] < 0) PROVE FALSE
    OBVIOUS
  <2>1. c[<<x, z>>] = 0 /\ c[<<z, x>>] = 0
    BY <1>1, <1>2, <1>5
  <2>2. c[<<z, y>>] <= 0 /\ c[<<y, x>>] <= 0
    BY <1>1, <1>2, <1>5, <2>1
  <2>3. c[<<y, z>>] >= 0 /\ c[<<x, y>>] >= 0
    <3>1. c[<<y, z>>] = -c[<<z, y>>] /\ c[<<x, y>>] = -c[<<y, x>>]
      BY <1>2
    <3>2. c[<<z, y>>] \in Int /\ c[<<y, x>>] \in Int
      BY <1>1
    <3> QED
      BY <2>2, <3>1, <3>2
  <2> QED
    BY <1>1, <1>5, <2>3
<1> QED
  BY <1>1, <1>3, <1>4, <1>5

\* The comparison by a number.
Signs(K, f) == [p \in K \X K |-> Sign(f[p[1]], f[p[2]])]

\* Comparing by a number is total.
LEMMA SignIsTotal ==
    ASSUME NEW K, NEW f, \A x \in K : f[x] \in Int
    PROVE  Total(K, Signs(K, f))
<1> DEFINE c == Signs(K, f)
<1>1. \A x, y \in K : c[<<x, y>>] = Sign(f[x], f[y])
  BY DEF Signs
<1>2. c \in [K \X K -> {-1, 0, 1}]
  BY DEF Sign, Signs
<1> HIDE DEF c
<1>3. ASSUME NEW x \in K, NEW y \in K PROVE c[<<x, y>>] = -c[<<y, x>>]
  <2>1. f[x] \in Int /\ f[y] \in Int
    OBVIOUS
  <2>2. c[<<x, y>>] = Sign(f[x], f[y]) /\ c[<<y, x>>] = Sign(f[y], f[x])
    BY <1>1
  <2> QED
    BY <2>1, <2>2 DEF Sign
<1>4. ASSUME NEW x \in K, NEW y \in K, NEW z \in K, c[<<x, y>>] <= 0, c[<<y, z>>] <= 0
      PROVE  c[<<x, z>>] <= 0
  <2>1. f[x] \in Int /\ f[y] \in Int /\ f[z] \in Int
    OBVIOUS
  <2>2. /\ c[<<x, y>>] = Sign(f[x], f[y])
        /\ c[<<y, z>>] = Sign(f[y], f[z])
        /\ c[<<x, z>>] = Sign(f[x], f[z])
    BY <1>1
  <2> QED
    BY <1>4, <2>1, <2>2 DEF Sign
<1>5. Total(K, c)
  BY <1>2, <1>3, <1>4 DEF Total
<1> QED
  BY <1>5 DEF c

\* The comparison c of what f takes from each.
Pulled(K, c, f) == [p \in K \X K |-> c[<<f[p[1]], f[p[2]]>>]]

\* Comparing what f takes from each is total.
LEMMA PullIsTotal ==
    ASSUME NEW M, NEW c, Total(M, c), NEW K, NEW f, \A x \in K : f[x] \in M
    PROVE  Total(K, Pulled(K, c, f))
<1> DEFINE d == Pulled(K, c, f)
<1>1. \A x, y \in K : d[<<x, y>>] = c[<<f[x], f[y]>>]
  BY DEF Pulled
<1>2. \A p \in K \X K : c[<<f[p[1]], f[p[2]]>>] \in {-1, 0, 1}
  BY DEF Total
<1>3. d \in [K \X K -> {-1, 0, 1}]
  BY <1>2 DEF Pulled
<1> HIDE DEF d
<1>0. /\ \A x, y \in M : c[<<x, y>>] = -c[<<y, x>>]
      /\ \A x, y, z \in M : c[<<x, y>>] <= 0 /\ c[<<y, z>>] <= 0 => c[<<x, z>>] <= 0
  BY DEF Total
<1>4. ASSUME NEW x \in K, NEW y \in K PROVE d[<<x, y>>] = -d[<<y, x>>]
  <2>1. f[x] \in M /\ f[y] \in M
    OBVIOUS
  <2>2. d[<<x, y>>] = c[<<f[x], f[y]>>] /\ d[<<y, x>>] = c[<<f[y], f[x]>>]
    BY <1>1
  <2> QED
    BY <1>0, <2>1, <2>2
<1>5. ASSUME NEW x \in K, NEW y \in K, NEW z \in K, d[<<x, y>>] <= 0, d[<<y, z>>] <= 0
      PROVE  d[<<x, z>>] <= 0
  <2>1. f[x] \in M /\ f[y] \in M /\ f[z] \in M
    OBVIOUS
  <2>2. /\ d[<<x, y>>] = c[<<f[x], f[y]>>]
        /\ d[<<y, z>>] = c[<<f[y], f[z]>>]
        /\ d[<<x, z>>] = c[<<f[x], f[z]>>]
    BY <1>1
  <2> QED
    BY <1>5, <1>0, <2>1, <2>2
<1>6. Total(K, d)
  BY <1>3, <1>4, <1>5 DEF Total
<1> QED
  BY <1>6 DEF d

\* One comparison, and another for what it does not tell apart.
Both(K, c, d) == [p \in K \X K |-> AndThen(c[p], d[p])]

\* One comparison, and another for its ties, is total.
LEMMA AndThenIsTotal ==
    ASSUME NEW K, NEW c, NEW d, Total(K, c), Total(K, d)
    PROVE  Total(K, Both(K, c, d))
<1> DEFINE e == Both(K, c, d)
<1>1. \A x, y \in K : e[<<x, y>>] = IF c[<<x, y>>] # 0 THEN c[<<x, y>>] ELSE d[<<x, y>>]
  BY DEF AndThen, Both
<1>2. \A x, y \in K : c[<<x, y>>] \in {-1, 0, 1} /\ d[<<x, y>>] \in {-1, 0, 1}
  BY TotalIsStrict
<1>3. \A p \in K \X K : AndThen(c[p], d[p]) \in {-1, 0, 1}
  <2>1. \A p \in K \X K : c[p] \in {-1, 0, 1} /\ d[p] \in {-1, 0, 1}
    BY DEF Total
  <2> QED
    BY <2>1 DEF AndThen
<1>4. e \in [K \X K -> {-1, 0, 1}]
  BY <1>3 DEF Both
<1> HIDE DEF e
<1>5. ASSUME NEW x \in K, NEW y \in K PROVE e[<<x, y>>] = -e[<<y, x>>]
  <2>1. c[<<x, y>>] = -c[<<y, x>>] /\ d[<<x, y>>] = -d[<<y, x>>]
    BY DEF Total
  <2> QED
    BY <1>1, <1>2, <2>1
<1>6. ASSUME NEW x \in K, NEW y \in K, NEW z \in K, e[<<x, y>>] <= 0, e[<<y, z>>] <= 0
      PROVE  e[<<x, z>>] <= 0
  <2>1. c[<<x, y>>] <= 0 /\ c[<<y, z>>] <= 0
    BY <1>1, <1>2, <1>6
  <2>2. CASE c[<<x, y>>] < 0 \/ c[<<y, z>>] < 0
    <3>1. c[<<x, z>>] < 0
      BY <2>1, <2>2, TotalIsStrict
    <3> QED
      BY <1>1, <1>2, <3>1
  <2>3. CASE c[<<x, y>>] = 0 /\ c[<<y, z>>] = 0
    <3>1. c[<<x, z>>] = 0
      BY <2>3, TotalIsStrict
    <3>2. d[<<x, y>>] <= 0 /\ d[<<y, z>>] <= 0
      BY <1>1, <1>6, <2>3
    <3>3. d[<<x, z>>] <= 0
      BY <3>2 DEF Total
    <3> QED
      BY <1>1, <3>1, <3>3
  <2> QED
    BY <1>2, <2>1, <2>2, <2>3
<1>7. Total(K, e)
  BY <1>4, <1>5, <1>6 DEF Total
<1> QED
  BY <1>7 DEF e

\* What adds up to zero is opposite.
LEMMA Opposite == \A i, j \in Int : i + j = 0 => i = -j
OBVIOUS

\* The least of a set of numbers.
LEMMA MinIs ==
    ASSUME NEW S \in SUBSET Nat, S # {}
    PROVE  Min(S) \in S /\ \A y \in S : Min(S) <= y
<1>1. PICK x \in S : \A y \in S : <<y, x>> \notin OpToRel(<, Nat)
  BY NatLessThanWellFounded, WFMin
<1>2. \A y \in S : x <= y
  <2> SUFFICES ASSUME NEW y \in S PROVE x <= y
    OBVIOUS
  <2>1. <<y, x>> \notin OpToRel(<, Nat)
    BY <1>1
  <2>2. x \in Nat /\ y \in Nat
    OBVIOUS
  <2> QED
    BY <2>1, <2>2 DEF OpToRel
<1>3. \E z \in S : \A y \in S : z <= y
  BY <1>2
<1> QED
  BY <1>3, Zenon DEF Min

(***************************************************************************)
(* What two versions are at each place, and the first place that c tells    *)
(* apart.                                                                   *)
(***************************************************************************)
Differ(c, x, y) == {i \in Nat : c[<<x[i], y[i]>>] # 0}
Lex(K, c) ==
    [p \in [Nat -> K] \X [Nat -> K] |->
       LET d == Differ(c, p[1], p[2])
       IN  IF d = {} THEN 0 ELSE c[<<p[1][Min(d)], p[2][Min(d)]>>]]

\* Streams compare as their first place that differs.
LEMMA LexIs ==
    ASSUME NEW K, NEW c, NEW x \in [Nat -> K], NEW y \in [Nat -> K]
    PROVE  Lex(K, c)[<<x, y>>] =
             IF Differ(c, x, y) = {} THEN 0
             ELSE c[<<x[Min(Differ(c, x, y))], y[Min(Differ(c, x, y))]>>]
BY DEF Lex

\* A place that differs after places that do not is the first.
LEMMA LexAt ==
    ASSUME NEW K, NEW c, NEW x \in [Nat -> K], NEW y \in [Nat -> K], NEW n \in Nat,
           c[<<x[n], y[n]>>] # 0, \A i \in Nat : i < n => c[<<x[i], y[i]>>] = 0
    PROVE  Lex(K, c)[<<x, y>>] = c[<<x[n], y[n]>>]
<1> DEFINE d == Differ(c, x, y)
<1>1. n \in d /\ d \in SUBSET Nat
  BY DEF Differ
<1>2. \A i \in d : ~(i < n)
  BY DEF Differ
<1> HIDE DEF d
<1>3. Min(d) \in d /\ Min(d) <= n
  BY <1>1, MinIs
<1>4. Min(d) = n
  <2>1. ~(Min(d) < n) /\ Min(d) \in Nat
    BY <1>1, <1>2, <1>3
  <2> QED
    BY <1>3, <2>1
<1>5. Lex(K, c)[<<x, y>>] = IF d = {} THEN 0 ELSE c[<<x[Min(d)], y[Min(d)]>>]
  BY LexIs DEF d
<1> QED
  BY <1>1, <1>4, <1>5

\* By the first place that differs, streams are compared totally.
LEMMA LexIsTotal ==
    ASSUME NEW K, NEW c, Total(K, c) PROVE Total([Nat -> K], Lex(K, c))
<1> DEFINE S == [Nat -> K]
           e == Lex(K, c)
<1>0. /\ \A x, y \in K : c[<<x, y>>] = -c[<<y, x>>]
      /\ \A x, y \in K : c[<<x, y>>] \in {-1, 0, 1}
      /\ \A x, y, z \in K : c[<<x, y>>] <= 0 /\ c[<<y, z>>] <= 0 => c[<<x, z>>] <= 0
  BY TotalIsStrict DEF Total
<1>1. \A x, y \in S : e[<<x, y>>] \in {-1, 0, 1}
  <2> SUFFICES ASSUME NEW x \in S, NEW y \in S PROVE e[<<x, y>>] \in {-1, 0, 1}
    OBVIOUS
  <2> DEFINE d == Differ(c, x, y)
  <2>1. e[<<x, y>>] = IF d = {} THEN 0 ELSE c[<<x[Min(d)], y[Min(d)]>>]
    BY LexIs
  <2>2. CASE d = {}
    BY <2>1, <2>2
  <2>3. CASE d # {}
    <3>1. d \in SUBSET Nat
      BY DEF Differ
    <3> HIDE DEF d
    <3>2. Min(d) \in Nat
      BY <2>3, <3>1, MinIs
    <3>3. x[Min(d)] \in K /\ y[Min(d)] \in K
      BY <3>2
    <3> QED
      BY <1>0, <2>1, <2>3, <3>3
  <2> QED
    BY <2>2, <2>3
<1>2. e \in [S \X S -> {-1, 0, 1}]
  <2>1. e = [p \in S \X S |-> e[p]]
    BY DEF Lex
  <2>2. \A p \in S \X S : e[p] \in {-1, 0, 1}
    <3> SUFFICES ASSUME NEW p \in S \X S PROVE e[p] \in {-1, 0, 1}
      OBVIOUS
    <3> HIDE DEF e
    <3>1. p = <<p[1], p[2]>> /\ p[1] \in S /\ p[2] \in S
      OBVIOUS
    <3> QED
      BY <1>1, <3>1
  <2> HIDE DEF e, S
  <2> QED
    BY <2>1, <2>2
<1>3. ASSUME NEW x \in S, NEW y \in S PROVE e[<<x, y>>] = -e[<<y, x>>]
  <2>1. \A i \in Nat : x[i] \in K /\ y[i] \in K
    OBVIOUS
  <2>2. \A i \in Nat : c[<<x[i], y[i]>>] = -c[<<y[i], x[i]>>] /\ c[<<y[i], x[i]>>] \in {-1, 0, 1}
    BY <1>0, <2>1
  <2>3. \A i \in Nat : c[<<x[i], y[i]>>] # 0 <=> c[<<y[i], x[i]>>] # 0
    BY <2>2
  <2>4. Differ(c, x, y) = Differ(c, y, x)
    BY <2>3 DEF Differ
  <2> DEFINE d == Differ(c, x, y)
  <2>5. e[<<x, y>>] = IF d = {} THEN 0 ELSE c[<<x[Min(d)], y[Min(d)]>>]
    BY LexIs
  <2>6. e[<<y, x>>] = IF d = {} THEN 0 ELSE c[<<y[Min(d)], x[Min(d)]>>]
    BY LexIs, <2>4
  <2>7. d \in SUBSET Nat
    BY DEF Differ
  <2> HIDE DEF d, e
  <2>8. CASE d = {}
    <3>1. e[<<x, y>>] = 0 /\ e[<<y, x>>] = 0
      BY <2>5, <2>6, <2>8, Zenon
    <3>2. e[<<x, y>>] \in Int /\ e[<<y, x>>] \in Int /\ e[<<x, y>>] + e[<<y, x>>] = 0
      BY <3>1
    <3> QED
      BY <3>2, Opposite, Zenon
  <2>9. CASE d # {}
    <3>1. Min(d) \in Nat
      BY <2>7, <2>9, MinIs
    <3> QED
      BY <2>2, <2>5, <2>6, <2>9, <3>1
  <2> QED
    BY <2>8, <2>9
<1>4. ASSUME NEW x \in S, NEW y \in S, NEW z \in S, e[<<x, y>>] <= 0, e[<<y, z>>] <= 0
      PROVE  e[<<x, z>>] <= 0
  <2> DEFINE d == Differ(c, x, y) \cup Differ(c, y, z)
  <2>0. \A i \in Nat : x[i] \in K /\ y[i] \in K /\ z[i] \in K
    OBVIOUS
  <2>1. d \in SUBSET Nat
    BY DEF Differ
  <2>2. \A i \in Nat : i \notin d => c[<<x[i], y[i]>>] = 0 /\ c[<<y[i], z[i]>>] = 0
    BY DEF Differ
  <2>3. \A i \in Nat : i \notin d => c[<<x[i], z[i]>>] = 0
    <3>1. \A p, q, r \in K : c[<<p, q>>] = 0 /\ c[<<q, r>>] = 0 => c[<<p, r>>] = 0
      BY TotalIsStrict
    <3> SUFFICES ASSUME NEW i \in Nat, i \notin d PROVE c[<<x[i], z[i]>>] = 0
      OBVIOUS
    <3>2. x[i] \in K /\ y[i] \in K /\ z[i] \in K
      BY <2>0
    <3>3. c[<<x[i], y[i]>>] = 0 /\ c[<<y[i], z[i]>>] = 0
      BY <2>2
    <3> QED
      BY <3>1, <3>2, <3>3
  <2>4. CASE d = {}
    <3>1. Differ(c, x, z) = {}
      BY <2>3, <2>4 DEF Differ
    <3>2. e[<<x, z>>] = 0
      <4> HIDE DEF e
      <4>1. e[<<x, z>>] = IF Differ(c, x, z) = {} THEN 0
                          ELSE c[<<x[Min(Differ(c, x, z))], z[Min(Differ(c, x, z))]>>]
        BY LexIs DEF e
      <4> QED
        BY <3>1, <4>1, Zenon
    <3> QED
      BY <3>2
  <2>5. CASE d # {}
    <3> DEFINE n == Min(d)
    <3>1. n \in d /\ n \in Nat /\ \A i \in d : n <= i
      <4> HIDE DEF d
      <4> QED
        BY <2>1, <2>5, MinIs
    <3>2. \A i \in Nat : i < n => i \notin d
      <4> HIDE DEF d
      <4>1. \A i \in Nat : n <= i => ~(i < n)
        <5> HIDE DEF n
        <5> QED
          BY <3>1
      <4> QED
        BY <3>1, <4>1
    <3> HIDE DEF n
    <3>3. \A i \in Nat : i < n =>
             c[<<x[i], y[i]>>] = 0 /\ c[<<y[i], z[i]>>] = 0 /\ c[<<x[i], z[i]>>] = 0
      BY <2>2, <2>3, <3>2
    <3>4. c[<<x[n], y[n]>>] # 0 \/ c[<<y[n], z[n]>>] # 0
      BY <3>1 DEF Differ
    <3>5. c[<<x[n], y[n]>>] # 0 => c[<<x[n], y[n]>>] <= 0
      <4> SUFFICES ASSUME c[<<x[n], y[n]>>] # 0 PROVE c[<<x[n], y[n]>>] <= 0
        OBVIOUS
      <4>1. \A i \in Nat : i < n => c[<<x[i], y[i]>>] = 0
        BY <3>3
      <4>2. e[<<x, y>>] = c[<<x[n], y[n]>>]
        BY <3>1, <4>1, LexAt
      <4> QED
        BY <1>4, <4>2
    <3>6. c[<<y[n], z[n]>>] # 0 => c[<<y[n], z[n]>>] <= 0
      <4> SUFFICES ASSUME c[<<y[n], z[n]>>] # 0 PROVE c[<<y[n], z[n]>>] <= 0
        OBVIOUS
      <4>1. \A i \in Nat : i < n => c[<<y[i], z[i]>>] = 0
        BY <3>3
      <4>2. e[<<y, z>>] = c[<<y[n], z[n]>>]
        BY <3>1, <4>1, LexAt
      <4> QED
        BY <1>4, <4>2
    <3>7. c[<<x[n], y[n]>>] \in {-1, 0, 1} /\ c[<<y[n], z[n]>>] \in {-1, 0, 1}
      BY <1>0, <2>0, <3>1
    <3>8. /\ c[<<x[n], y[n]>>] <= 0 /\ c[<<y[n], z[n]>>] <= 0
          /\ c[<<x[n], y[n]>>] < 0 \/ c[<<y[n], z[n]>>] < 0
      <4> HIDE DEF e, d
      <4> QED
        BY <3>4, <3>5, <3>6, <3>7
    <3>9. x[n] \in K /\ y[n] \in K /\ z[n] \in K
      BY <2>0, <3>1
    <3>10. c[<<x[n], z[n]>>] < 0
      <4> HIDE DEF e, d
      <4> QED
        BY <3>8, <3>9, TotalIsStrict
    <3>11. e[<<x, z>>] = c[<<x[n], z[n]>>]
      <4>1. \A i \in Nat : i < n => c[<<x[i], z[i]>>] = 0
        BY <3>3
      <4>2. c[<<x[n], z[n]>>] # 0
        <5>1. c[<<x[n], z[n]>>] \in {-1, 0, 1}
          BY <1>0, <3>9
        <5> QED
          BY <3>10, <5>1
      <4> QED
        BY <3>1, <4>1, <4>2, LexAt
    <3> QED
      <4>1. c[<<x[n], z[n]>>] \in {-1, 0, 1}
        BY <1>0, <3>9
      <4> HIDE DEF e
      <4> QED
        BY <3>10, <3>11, <4>1
  <2> QED
    BY <2>4, <2>5
<1> HIDE DEF e, S
<1> QED
  BY <1>2, <1>3, <1>4 DEF Total, e, S

\* A version goes on as `pad` after its end.
Padded(s, pad) == [i \in Nat |-> IF i \in DOMAIN s THEN s[i] ELSE pad]
SeqLex(K, c, pad) ==
    [p \in Seq(K) \X Seq(K) |-> Lex(K, c)[<<Padded(p[1], pad), Padded(p[2], pad)>>]]

\* A padded version is a stream.
LEMMA PaddedIs ==
    ASSUME NEW K, NEW pad \in K, NEW s \in Seq(K)
    PROVE  /\ Padded(s, pad) \in [Nat -> K]
           /\ \A i \in Nat : Padded(s, pad)[i] = IF i \in DOMAIN s THEN s[i] ELSE pad
           /\ DOMAIN s \subseteq Nat
<1>1. \A i \in DOMAIN s : s[i] \in K
  OBVIOUS
<1>2. \A i \in Nat : (IF i \in DOMAIN s THEN s[i] ELSE pad) \in K
  BY <1>1
<1> QED
  BY <1>2 DEF Padded

\* Versions that go on as a pad are compared totally.
LEMMA SeqLexIsTotal ==
    ASSUME NEW K, NEW c, NEW pad \in K, Total(K, c) PROVE Total(Seq(K), SeqLex(K, c, pad))
<1> DEFINE f == [s \in Seq(K) |-> Padded(s, pad)]
           g == Pulled(Seq(K), Lex(K, c), f)
<1>1. \A s \in Seq(K) : f[s] \in [Nat -> K]
  BY PaddedIs
<1>2. Total([Nat -> K], Lex(K, c))
  BY LexIsTotal
<1>3. Total(Seq(K), g)
  <2> HIDE DEF f
  <2> QED
    BY <1>1, <1>2, PullIsTotal
<1>4. g = SeqLex(K, c, pad)
  BY DEF SeqLex, Pulled
<1> QED
  BY <1>3, <1>4

\* It is what the first place in either of the two says.
At(s, i, pad) == IF i \in DOMAIN s THEN s[i] ELSE pad
Differing(c, a, b, pad) ==
    {i \in DOMAIN a \cup DOMAIN b : c[<<At(a, i, pad), At(b, i, pad)>>] # 0}

\* Their comparison is that of the first place in either that differs.
LEMMA SeqLexIs ==
    ASSUME NEW K, NEW c, NEW pad \in K, c[<<pad, pad>>] = 0, NEW a \in Seq(K), NEW b \in Seq(K)
    PROVE  SeqLex(K, c, pad)[<<a, b>>] =
             IF Differing(c, a, b, pad) = {} THEN 0
             ELSE c[<<At(a, Min(Differing(c, a, b, pad)), pad),
                      At(b, Min(Differing(c, a, b, pad)), pad)>>]
<1> DEFINE d == Differing(c, a, b, pad)
           x == Padded(a, pad)
           y == Padded(b, pad)
<1>1. /\ x \in [Nat -> K] /\ y \in [Nat -> K]
      /\ DOMAIN a \subseteq Nat /\ DOMAIN b \subseteq Nat
  BY PaddedIs
<1>2. \A i \in Nat : x[i] = At(a, i, pad) /\ y[i] = At(b, i, pad)
  BY DEF Padded, At
<1>3. SeqLex(K, c, pad)[<<a, b>>] = Lex(K, c)[<<x, y>>]
  BY DEF SeqLex
<1>4. Differ(c, x, y) = d
  <2>1. \A i \in Nat : i \notin DOMAIN a \cup DOMAIN b => x[i] = pad /\ y[i] = pad
    BY <1>2 DEF At
  <2>2. \A i \in Nat : i \notin DOMAIN a \cup DOMAIN b => c[<<x[i], y[i]>>] = 0
    BY <2>1
  <2>3. \A i \in Nat : c[<<x[i], y[i]>>] = c[<<At(a, i, pad), At(b, i, pad)>>]
    BY <1>2
  <2> HIDE DEF x, y
  <2> QED
    BY <1>1, <2>2, <2>3 DEF Differ, Differing
<1>5. Lex(K, c)[<<x, y>>] = IF d = {} THEN 0 ELSE c[<<x[Min(d)], y[Min(d)]>>]
  <2>1. Lex(K, c)[<<x, y>>] = IF Differ(c, x, y) = {} THEN 0
                              ELSE c[<<x[Min(Differ(c, x, y))], y[Min(Differ(c, x, y))]>>]
    <3>1. x \in [Nat -> K] /\ y \in [Nat -> K]
      BY <1>1
    <3> HIDE DEF x, y
    <3> QED
      BY <3>1 DEF Lex
  <2> QED
    BY <1>4, <2>1
<1>6. d # {} => Min(d) \in Nat
  <2>1. d \in SUBSET Nat
    BY <1>1 DEF Differing
  <2> HIDE DEF d
  <2> QED
    BY <2>1, MinIs
<1>7. d # {} => x[Min(d)] = At(a, Min(d), pad) /\ y[Min(d)] = At(b, Min(d), pad)
  <2> HIDE DEF x, y, d
  <2> QED
    BY <1>2, <1>6
<1> HIDE DEF x, y, d
<1>8. SeqLex(K, c, pad)[<<a, b>>] = IF d = {} THEN 0 ELSE c[<<At(a, Min(d), pad), At(b, Min(d), pad)>>]
  BY <1>3, <1>5, <1>7
<1> QED
  BY <1>8 DEF d


(***************************************************************************)
(* RubyGems.                                                                *)
(***************************************************************************)
SegmentCompare == [p \in Segments \X Segments |-> SegmentOrder(p[1], p[2])]

\* Segments are compared totally (Version::cmp, rubygems/version.rs:58).
LEMMA SegmentOrderIsTotal == Total(Segments, SegmentCompare)
<1> DEFINE c == SegmentCompare
<1>0. \A x \in Segments : x.word \in BOOLEAN /\ x.value \in Int
  BY DEF Segments
<1>1. \A x, y \in Segments : c[<<x, y>>] = SegmentOrder(x, y)
  BY DEF SegmentCompare
<1>2. \A x, y \in Segments : SegmentOrder(x, y) \in {-1, 0, 1}
  BY DEF SegmentOrder, Sign
<1>3. c \in [Segments \X Segments -> {-1, 0, 1}]
  BY <1>2 DEF SegmentCompare
<1>4. ASSUME NEW x \in Segments, NEW y \in Segments PROVE SegmentOrder(x, y) = -SegmentOrder(y, x)
  BY <1>0 DEF SegmentOrder, Sign
<1>5. ASSUME NEW x \in Segments, NEW y \in Segments, NEW z \in Segments,
             SegmentOrder(x, y) <= 0, SegmentOrder(y, z) <= 0
      PROVE  SegmentOrder(x, z) <= 0
  BY <1>0, <1>5 DEF SegmentOrder, Sign
<1> HIDE DEF c
<1>6. Total(Segments, c)
  BY <1>1, <1>3, <1>4, <1>5 DEF Total
<1> QED
  BY <1>6 DEF c

GemCompare == SeqLex(Segments, SegmentCompare, Number(0))

\* GemOrder is the comparison by the first segment that differs.
LEMMA GemOrderIs ==
    ASSUME NEW a \in Seq(Segments), NEW b \in Seq(Segments)
    PROVE  GemOrder(a, b) = GemCompare[<<a, b>>]
<1> DEFINE pad == Number(0)
           d == Differing(SegmentCompare, a, b, pad)
           e == {i \in DOMAIN a \cup DOMAIN b : SegmentOrder(At(a, i, pad), At(b, i, pad)) # 0}
<1>1. pad \in Segments
  BY DEF Number, Segments
<1>2. GemOrder(a, b) = IF e = {} THEN 0 ELSE SegmentOrder(At(a, Min(e), pad), At(b, Min(e), pad))
  BY Zenon DEF GemOrder, FirstDifference, First, At
<1>3. \A x, y \in Segments : SegmentCompare[<<x, y>>] = SegmentOrder(x, y)
  BY DEF SegmentCompare
<1>4. SegmentCompare[<<pad, pad>>] = 0
  BY <1>1, SegmentOrderIsTotal, TotalIsStrict
<1>5. \A i : At(a, i, pad) \in Segments /\ At(b, i, pad) \in Segments
  BY <1>1 DEF At
<1> HIDE DEF pad
<1>6. d = e
  BY <1>3, <1>5 DEF Differing
<1>7. GemCompare[<<a, b>>] = IF d = {} THEN 0
                             ELSE SegmentCompare[<<At(a, Min(d), pad), At(b, Min(d), pad)>>]
  BY <1>1, <1>4, SeqLexIs DEF GemCompare, pad
<1> HIDE DEF d, e
<1>8. SegmentCompare[<<At(a, Min(d), pad), At(b, Min(d), pad)>>]
        = SegmentOrder(At(a, Min(d), pad), At(b, Min(d), pad))
  BY <1>3, <1>5
<1> QED
  BY <1>2, <1>6, <1>7, <1>8

(***************************************************************************)
(* Composer.                                                                *)
(***************************************************************************)
Tokens == {x \in Segments : IF x.word THEN x.value # 0 ELSE x.value >= 0}
TokenCompare == [p \in Tokens \X Tokens |-> TokenOrder(p[1], p[2])]

\* Tokens whose words have ranks are compared totally (packagist/version.rs:74).
LEMMA TokenOrderIsTotal == Total(Tokens, TokenCompare)
<1>0. \A x \in Tokens : x.word \in BOOLEAN /\ x.value \in Int /\ (x.word => x.value # 0) /\ (~x.word => x.value >= 0)
  BY DEF Tokens, Segments
<1>1. \A x, y \in Tokens : TokenCompare[<<x, y>>] = TokenOrder(x, y)
  BY DEF TokenCompare
<1>2. \A x, y \in Tokens : TokenOrder(x, y) \in {-1, 0, 1}
  BY DEF TokenOrder, OrderOf, Sign
<1>3. TokenCompare \in [Tokens \X Tokens -> {-1, 0, 1}]
  BY <1>2 DEF TokenCompare
<1>4. ASSUME NEW x \in Tokens, NEW y \in Tokens PROVE TokenOrder(x, y) = -TokenOrder(y, x)
  BY <1>0 DEF TokenOrder, OrderOf, Sign
<1>5. ASSUME NEW x \in Tokens, NEW y \in Tokens, NEW z \in Tokens,
             TokenOrder(x, y) <= 0, TokenOrder(y, z) <= 0
      PROVE  TokenOrder(x, z) <= 0
  BY <1>0, <1>5 DEF TokenOrder, OrderOf, Sign
<1> QED
  BY <1>1, <1>3, <1>4, <1>5 DEF Total

ComposerCompare == SeqLex(Tokens, TokenCompare, Number(0))

\* ComposerOrder is the comparison by the first token that differs.
LEMMA ComposerOrderIs ==
    ASSUME NEW a \in Seq(Tokens), NEW b \in Seq(Tokens)
    PROVE  ComposerOrder(a, b) = ComposerCompare[<<a, b>>]
<1> DEFINE pad == Number(0)
           d == Differing(TokenCompare, a, b, pad)
           e == {i \in DOMAIN a \cup DOMAIN b : TokenOrder(At(a, i, pad), At(b, i, pad)) # 0}
<1>1. pad \in Tokens
  BY DEF Number, Tokens, Segments
<1>2. ComposerOrder(a, b) = IF e = {} THEN 0 ELSE TokenOrder(At(a, Min(e), pad), At(b, Min(e), pad))
  BY Zenon DEF ComposerOrder, FirstDifference, First, At
<1>3. \A x, y \in Tokens : TokenCompare[<<x, y>>] = TokenOrder(x, y)
  BY DEF TokenCompare
<1>4. TokenCompare[<<pad, pad>>] = 0
  BY <1>1, TokenOrderIsTotal, TotalIsStrict
<1>5. \A i : At(a, i, pad) \in Tokens /\ At(b, i, pad) \in Tokens
  BY <1>1 DEF At
<1> HIDE DEF pad
<1>6. d = e
  BY <1>3, <1>5 DEF Differing
<1>7. ComposerCompare[<<a, b>>] = IF d = {} THEN 0
                           ELSE TokenCompare[<<At(a, Min(d), pad), At(b, Min(d), pad)>>]
  BY <1>1, <1>4, SeqLexIs DEF ComposerCompare, pad
<1> HIDE DEF d, e
<1>8. TokenCompare[<<At(a, Min(d), pad), At(b, Min(d), pad)>>]
        = TokenOrder(At(a, Min(d), pad), At(b, Min(d), pad))
  BY <1>3, <1>5
<1> QED
  BY <1>2, <1>6, <1>7, <1>8

(***************************************************************************)
(* rpm.                                                                     *)
(***************************************************************************)
RunPlaces == [kind : {"~", "end", "^", "letters", "digits"}, value : Int]
RunCompare == [p \in RunPlaces \X RunPlaces |-> RunOrder(p[1], p[2])]

\* Runs, ~, ^ and the end are compared totally (rpmvercmp, os/rpmver.rs:141).
LEMMA RunOrderIsTotal == Total(RunPlaces, RunCompare)
<1>0. \A x \in RunPlaces : x.kind \in {"~", "end", "^", "letters", "digits"} /\ x.value \in Int
  BY DEF RunPlaces
<1>1. \A x, y \in RunPlaces : RunCompare[<<x, y>>] = RunOrder(x, y)
  BY DEF RunCompare
<1>2. \A x, y \in RunPlaces : RunOrder(x, y) \in {-1, 0, 1}
  BY DEF RunOrder, Sign
<1>3. RunCompare \in [RunPlaces \X RunPlaces -> {-1, 0, 1}]
  BY <1>2 DEF RunCompare
<1>4. ASSUME NEW x \in RunPlaces, NEW y \in RunPlaces PROVE RunOrder(x, y) = -RunOrder(y, x)
  BY <1>0 DEF RunOrder, Sign
<1>5. ASSUME NEW x \in RunPlaces, NEW y \in RunPlaces, NEW z \in RunPlaces,
             RunOrder(x, y) <= 0, RunOrder(y, z) <= 0
      PROVE  RunOrder(x, z) <= 0
  BY <1>0, <1>5 DEF RunOrder, Sign
<1> QED
  BY <1>1, <1>3, <1>4, <1>5 DEF Total

RpmCompare == SeqLex(RunPlaces, RunCompare, [kind |-> "end", value |-> 0])

\* Rpmvercmp is the comparison by the first run that differs.
LEMMA RpmvercmpIs ==
    ASSUME NEW a \in Seq(RunPlaces), NEW b \in Seq(RunPlaces)
    PROVE  Rpmvercmp(a, b) = RpmCompare[<<a, b>>]
<1> DEFINE pad == [kind |-> "end", value |-> 0]
           d == Differing(RunCompare, a, b, pad)
           e == {i \in DOMAIN a \cup DOMAIN b : RunOrder(At(a, i, pad), At(b, i, pad)) # 0}
<1>1. pad \in RunPlaces
  BY DEF RunPlaces
<1>2. Rpmvercmp(a, b) = IF e = {} THEN 0 ELSE RunOrder(At(a, Min(e), pad), At(b, Min(e), pad))
  BY Zenon DEF Rpmvercmp, FirstDifference, First, At
<1>3. \A x, y \in RunPlaces : RunCompare[<<x, y>>] = RunOrder(x, y)
  BY DEF RunCompare
<1>4. RunCompare[<<pad, pad>>] = 0
  BY <1>1, RunOrderIsTotal, TotalIsStrict
<1>5. \A i : At(a, i, pad) \in RunPlaces /\ At(b, i, pad) \in RunPlaces
  BY <1>1 DEF At
<1> HIDE DEF pad
<1>6. d = e
  BY <1>3, <1>5 DEF Differing
<1>7. RpmCompare[<<a, b>>] = IF d = {} THEN 0
                           ELSE RunCompare[<<At(a, Min(d), pad), At(b, Min(d), pad)>>]
  BY <1>1, <1>4, SeqLexIs DEF RpmCompare, pad
<1> HIDE DEF d, e
<1>8. RunCompare[<<At(a, Min(d), pad), At(b, Min(d), pad)>>]
        = RunOrder(At(a, Min(d), pad), At(b, Min(d), pad))
  BY <1>3, <1>5
<1> QED
  BY <1>2, <1>6, <1>7, <1>8

(***************************************************************************)
(* apk.                                                                     *)
(***************************************************************************)
TypedTokens == [type : Int, value : Int]
TypedCompare == [p \in TypedTokens \X TypedTokens |-> TypedOrder(p[1], p[2])]

\* Typed tokens are compared totally (compare, os/apkver.rs:182).
LEMMA TypedOrderIsTotal == Total(TypedTokens, TypedCompare)
<1>0. \A x \in TypedTokens : x.type \in Int /\ x.value \in Int
  BY DEF TypedTokens
<1>1. \A x, y \in TypedTokens : TypedCompare[<<x, y>>] = TypedOrder(x, y)
  BY DEF TypedCompare
<1>2. \A x, y \in TypedTokens : TypedOrder(x, y) \in {-1, 0, 1}
  BY DEF TypedOrder, PreSuffix, Tok, Sign
<1>3. TypedCompare \in [TypedTokens \X TypedTokens -> {-1, 0, 1}]
  BY <1>2 DEF TypedCompare
<1>4. ASSUME NEW x \in TypedTokens, NEW y \in TypedTokens PROVE TypedOrder(x, y) = -TypedOrder(y, x)
  BY <1>0 DEF TypedOrder, PreSuffix, Tok, Sign
<1>5. ASSUME NEW x \in TypedTokens, NEW y \in TypedTokens, NEW z \in TypedTokens,
             TypedOrder(x, y) <= 0, TypedOrder(y, z) <= 0
      PROVE  TypedOrder(x, z) <= 0
  BY <1>0, <1>5 DEF TypedOrder, PreSuffix, Tok, Sign
<1> QED
  BY <1>1, <1>3, <1>4, <1>5 DEF Total

ApkCompare == SeqLex(TypedTokens, TypedCompare, Token(Tok.end, 0))

\* ApkOrder is the comparison by the first token that differs.
LEMMA ApkOrderIs ==
    ASSUME NEW a \in Seq(TypedTokens), NEW b \in Seq(TypedTokens)
    PROVE  ApkOrder(a, b) = ApkCompare[<<a, b>>]
<1> DEFINE pad == Token(Tok.end, 0)
           d == Differing(TypedCompare, a, b, pad)
           e == {i \in DOMAIN a \cup DOMAIN b : TypedOrder(At(a, i, pad), At(b, i, pad)) # 0}
<1>1. pad \in TypedTokens
  BY DEF TypedTokens, Token, Tok
<1>2. ApkOrder(a, b) = IF e = {} THEN 0 ELSE TypedOrder(At(a, Min(e), pad), At(b, Min(e), pad))
  BY Zenon DEF ApkOrder, FirstDifference, First, At
<1>3. \A x, y \in TypedTokens : TypedCompare[<<x, y>>] = TypedOrder(x, y)
  BY DEF TypedCompare
<1>4. TypedCompare[<<pad, pad>>] = 0
  BY <1>1, TypedOrderIsTotal, TotalIsStrict
<1>5. \A i : At(a, i, pad) \in TypedTokens /\ At(b, i, pad) \in TypedTokens
  BY <1>1 DEF At
<1> HIDE DEF pad
<1>6. d = e
  BY <1>3, <1>5 DEF Differing
<1>7. ApkCompare[<<a, b>>] = IF d = {} THEN 0
                           ELSE TypedCompare[<<At(a, Min(d), pad), At(b, Min(d), pad)>>]
  BY <1>1, <1>4, SeqLexIs DEF ApkCompare, pad
<1> HIDE DEF d, e
<1>8. TypedCompare[<<At(a, Min(d), pad), At(b, Min(d), pad)>>]
        = TypedOrder(At(a, Min(d), pad), At(b, Min(d), pad))
  BY <1>3, <1>5
<1> QED
  BY <1>2, <1>6, <1>7, <1>8

(***************************************************************************)
(* dpkg.                                                                    *)
(***************************************************************************)
CharPlaces == [kind : {"~", "end", "letter", "other"}, code : Int]
CharCompare == [p \in CharPlaces \X CharPlaces |-> CharOrder(p[1], p[2])]

\* Characters, ~ and the end are compared totally (order, os/dpkgver.rs:87).
LEMMA CharOrderIsTotal == Total(CharPlaces, CharCompare)
<1>0. \A x \in CharPlaces : x.kind \in {"~", "end", "letter", "other"} /\ x.code \in Int
  BY DEF CharPlaces
<1>1. \A x, y \in CharPlaces : CharCompare[<<x, y>>] = CharOrder(x, y)
  BY DEF CharCompare
<1>2. \A x, y \in CharPlaces : CharOrder(x, y) \in {-1, 0, 1}
  BY DEF CharOrder, Weight, Sign
<1>3. CharCompare \in [CharPlaces \X CharPlaces -> {-1, 0, 1}]
  BY <1>2 DEF CharCompare
<1>4. ASSUME NEW x \in CharPlaces, NEW y \in CharPlaces PROVE CharOrder(x, y) = -CharOrder(y, x)
  BY <1>0 DEF CharOrder, Weight, Sign
<1>5. ASSUME NEW x \in CharPlaces, NEW y \in CharPlaces, NEW z \in CharPlaces,
             CharOrder(x, y) <= 0, CharOrder(y, z) <= 0
      PROVE  CharOrder(x, z) <= 0
  BY <1>0, <1>5 DEF CharOrder, Weight, Sign
<1> QED
  BY <1>1, <1>3, <1>4, <1>5 DEF Total

CharsOrder(a, b) == FirstDifference(CharOrder, a, b, [kind |-> "end", code |-> 0])
TextCompare == SeqLex(CharPlaces, CharCompare, [kind |-> "end", code |-> 0])

\* What is not a digit compares by the first character that differs.
LEMMA CharsOrderIs ==
    ASSUME NEW a \in Seq(CharPlaces), NEW b \in Seq(CharPlaces)
    PROVE  CharsOrder(a, b) = TextCompare[<<a, b>>]
<1> DEFINE pad == [kind |-> "end", code |-> 0]
           d == Differing(CharCompare, a, b, pad)
           e == {i \in DOMAIN a \cup DOMAIN b : CharOrder(At(a, i, pad), At(b, i, pad)) # 0}
<1>1. pad \in CharPlaces
  BY DEF CharPlaces
<1>2. CharsOrder(a, b) = IF e = {} THEN 0 ELSE CharOrder(At(a, Min(e), pad), At(b, Min(e), pad))
  BY Zenon DEF CharsOrder, FirstDifference, First, At
<1>3. \A x, y \in CharPlaces : CharCompare[<<x, y>>] = CharOrder(x, y)
  BY DEF CharCompare
<1>4. CharCompare[<<pad, pad>>] = 0
  BY <1>1, CharOrderIsTotal, TotalIsStrict
<1>5. \A i : At(a, i, pad) \in CharPlaces /\ At(b, i, pad) \in CharPlaces
  BY <1>1 DEF At
<1> HIDE DEF pad
<1>6. d = e
  BY <1>3, <1>5 DEF Differing
<1>7. TextCompare[<<a, b>>] = IF d = {} THEN 0
                           ELSE CharCompare[<<At(a, Min(d), pad), At(b, Min(d), pad)>>]
  BY <1>1, <1>4, SeqLexIs DEF TextCompare, pad
<1> HIDE DEF d, e
<1>8. CharCompare[<<At(a, Min(d), pad), At(b, Min(d), pad)>>]
        = CharOrder(At(a, Min(d), pad), At(b, Min(d), pad))
  BY <1>3, <1>5
<1> QED
  BY <1>2, <1>6, <1>7, <1>8

PiecePlaces == [text : Seq(CharPlaces), number : Int]
PieceCompare == [p \in PiecePlaces \X PiecePlaces |-> PieceOrder(p[1], p[2])]

\* Pieces of text and number are compared totally (verrevcmp, os/dpkgver.rs:104).
LEMMA PieceOrderIsTotal == Total(PiecePlaces, PieceCompare)
<1> DEFINE K == PiecePlaces
           f == [x \in K |-> x.text]
           g == [x \in K |-> x.number]
           c == Pulled(K, TextCompare, f)
           d == Signs(K, g)
<1>1. \A x \in K : f[x] \in Seq(CharPlaces) /\ g[x] \in Int
  BY DEF PiecePlaces
<1>2. Total(Seq(CharPlaces), TextCompare)
  <2>1. [kind |-> "end", code |-> 0] \in CharPlaces
    BY DEF CharPlaces
  <2> QED
    BY <2>1, CharOrderIsTotal, SeqLexIsTotal DEF TextCompare
<1>3. Total(K, c) /\ Total(K, d)
  <2> HIDE DEF f, g, K
  <2> QED
    BY <1>1, <1>2, PullIsTotal, SignIsTotal
<1>4. Total(K, Both(K, c, d))
  <2> HIDE DEF c, d, K
  <2> QED
    BY <1>3, AndThenIsTotal
<1>5. PieceCompare = Both(K, c, d)
  <2>1. \A p \in K \X K : PieceOrder(p[1], p[2]) = AndThen(c[p], d[p])
    <3> SUFFICES ASSUME NEW x \in K, NEW y \in K
                 PROVE  PieceOrder(x, y) = AndThen(c[<<x, y>>], d[<<x, y>>])
      OBVIOUS
    <3>1. x.text \in Seq(CharPlaces) /\ y.text \in Seq(CharPlaces)
      BY DEF PiecePlaces
    <3>2. c[<<x, y>>] = CharsOrder(x.text, y.text)
      BY <3>1, CharsOrderIs DEF Pulled
    <3>3. d[<<x, y>>] = Sign(x.number, y.number)
      BY DEF Signs
    <3>4. PieceOrder(x, y) = AndThen(CharsOrder(x.text, y.text), Sign(x.number, y.number))
      BY Zenon DEF PieceOrder, CharsOrder
    <3> QED
      BY <3>2, <3>3, <3>4
  <2> HIDE DEF c, d
  <2> QED
    BY <2>1 DEF PieceCompare, Both
<1> QED
  BY <1>4, <1>5

DebCompare == SeqLex(PiecePlaces, PieceCompare, [text |-> <<>>, number |-> 0])

\* Verrevcmp is the comparison by the first piece that differs.
LEMMA VerrevcmpIs ==
    ASSUME NEW a \in Seq(PiecePlaces), NEW b \in Seq(PiecePlaces)
    PROVE  Verrevcmp(a, b) = DebCompare[<<a, b>>]
<1> DEFINE pad == [text |-> <<>>, number |-> 0]
           d == Differing(PieceCompare, a, b, pad)
           e == {i \in DOMAIN a \cup DOMAIN b : PieceOrder(At(a, i, pad), At(b, i, pad)) # 0}
<1>1. pad \in PiecePlaces
  BY DEF PiecePlaces
<1>2. Verrevcmp(a, b) = IF e = {} THEN 0 ELSE PieceOrder(At(a, Min(e), pad), At(b, Min(e), pad))
  BY Zenon DEF Verrevcmp, FirstDifference, First, At
<1>3. \A x, y \in PiecePlaces : PieceCompare[<<x, y>>] = PieceOrder(x, y)
  BY DEF PieceCompare
<1>4. PieceCompare[<<pad, pad>>] = 0
  BY <1>1, PieceOrderIsTotal, TotalIsStrict
<1>5. \A i : At(a, i, pad) \in PiecePlaces /\ At(b, i, pad) \in PiecePlaces
  BY <1>1 DEF At
<1> HIDE DEF pad
<1>6. d = e
  BY <1>3, <1>5 DEF Differing
<1>7. DebCompare[<<a, b>>] = IF d = {} THEN 0
                           ELSE PieceCompare[<<At(a, Min(d), pad), At(b, Min(d), pad)>>]
  BY <1>1, <1>4, SeqLexIs DEF DebCompare, pad
<1> HIDE DEF d, e
<1>8. PieceCompare[<<At(a, Min(d), pad), At(b, Min(d), pad)>>]
        = PieceOrder(At(a, Min(d), pad), At(b, Min(d), pad))
  BY <1>3, <1>5
<1> QED
  BY <1>2, <1>6, <1>7, <1>8

(***************************************************************************)
(* NuGet and Julia.                                                         *)
(***************************************************************************)
NumCompare == [p \in Nat \X Nat |-> Sign(p[1], p[2])]

\* Numbers are compared totally.
LEMMA NumOrderIsTotal == Total(Nat, NumCompare)
<1> DEFINE f == [x \in Nat |-> x]
<1>1. Total(Nat, Signs(Nat, f))
  BY SignIsTotal
<1>2. Signs(Nat, f) = NumCompare
  BY DEF Signs, NumCompare
<1> QED
  BY <1>1, <1>2

NumsCompare == SeqLex(Nat, NumCompare, 0)

\* NumsOrder is the comparison by the first number that differs.
LEMMA NumsOrderIs ==
    ASSUME NEW a \in Seq(Nat), NEW b \in Seq(Nat)
    PROVE  NumsOrder(a, b) = NumsCompare[<<a, b>>]
<1> DEFINE pad == 0
           d == Differing(NumCompare, a, b, pad)
           e == {i \in DOMAIN a \cup DOMAIN b : Sign(At(a, i, pad), At(b, i, pad)) # 0}
<1>1. pad \in Nat
  OBVIOUS
<1>2. NumsOrder(a, b) = IF e = {} THEN 0 ELSE Sign(At(a, Min(e), pad), At(b, Min(e), pad))
  BY Zenon DEF NumsOrder, FirstDifference, First, At
<1>3. \A x, y \in Nat : NumCompare[<<x, y>>] = Sign(x, y)
  BY DEF NumCompare
<1>4. NumCompare[<<pad, pad>>] = 0
  BY <1>1, NumOrderIsTotal, TotalIsStrict
<1>5. \A i : At(a, i, pad) \in Nat /\ At(b, i, pad) \in Nat
  BY <1>1 DEF At
<1> HIDE DEF pad
<1>6. d = e
  BY <1>3, <1>5 DEF Differing
<1>7. NumsCompare[<<a, b>>] = IF d = {} THEN 0
                           ELSE NumCompare[<<At(a, Min(d), pad), At(b, Min(d), pad)>>]
  BY <1>1, <1>4, SeqLexIs DEF NumsCompare, pad
<1> HIDE DEF d, e
<1>8. NumCompare[<<At(a, Min(d), pad), At(b, Min(d), pad)>>]
        = Sign(At(a, Min(d), pad), At(b, Min(d), pad))
  BY <1>3, <1>5
<1> QED
  BY <1>2, <1>6, <1>7, <1>8

\* Identifiers: what is after the end is below everything.
IdCompare == [p \in Segments \X Segments |-> IdOrder(p[1], p[2])]

\* Identifiers are compared totally (ident_cmp, julia/version.rs:44).
LEMMA IdOrderIsTotal == Total(Segments, IdCompare)
<1>0. \A x \in Segments : x.word \in BOOLEAN /\ x.value \in Int
  BY DEF Segments
<1>1. \A x, y \in Segments : IdCompare[<<x, y>>] = IdOrder(x, y)
  BY DEF IdCompare
<1>2. \A x, y \in Segments : IdOrder(x, y) \in {-1, 0, 1}
  BY DEF IdOrder, Sign
<1>3. IdCompare \in [Segments \X Segments -> {-1, 0, 1}]
  BY <1>2 DEF IdCompare
<1>4. ASSUME NEW x \in Segments, NEW y \in Segments PROVE IdOrder(x, y) = -IdOrder(y, x)
  BY <1>0 DEF IdOrder, Sign
<1>5. ASSUME NEW x \in Segments, NEW y \in Segments, NEW z \in Segments,
             IdOrder(x, y) <= 0, IdOrder(y, z) <= 0
      PROVE  IdOrder(x, z) <= 0
  BY <1>0, <1>5 DEF IdOrder, Sign
<1> QED
  BY <1>1, <1>3, <1>4, <1>5 DEF Total

IdPlaces == {0, 1} \X Segments
PlaceNumber == [x \in IdPlaces |-> x[1]]
PlaceSegment == [x \in IdPlaces |-> x[2]]
IdPlaceCompare ==
    Both(IdPlaces, Signs(IdPlaces, PlaceNumber), Pulled(IdPlaces, IdCompare, PlaceSegment))

\* Places, which may be past the end, are compared totally.
LEMMA IdPlaceIsTotal ==
    /\ Total(IdPlaces, IdPlaceCompare)
    /\ \A x, y \in IdPlaces : IdPlaceCompare[<<x, y>>] = AndThen(Sign(x[1], y[1]), IdOrder(x[2], y[2]))
<1>1. /\ \A x \in IdPlaces : PlaceNumber[x] \in Int
      /\ \A x \in IdPlaces : PlaceSegment[x] \in Segments
  BY DEF IdPlaces, PlaceNumber, PlaceSegment
<1>2. Total(IdPlaces, Signs(IdPlaces, PlaceNumber))
  BY <1>1, SignIsTotal
<1>3. Total(IdPlaces, Pulled(IdPlaces, IdCompare, PlaceSegment))
  BY <1>1, IdOrderIsTotal, PullIsTotal
<1>4. Total(IdPlaces, IdPlaceCompare)
  BY <1>2, <1>3, AndThenIsTotal DEF IdPlaceCompare
<1>5. ASSUME NEW x \in IdPlaces, NEW y \in IdPlaces
      PROVE  IdPlaceCompare[<<x, y>>] = AndThen(Sign(x[1], y[1]), IdOrder(x[2], y[2]))
  <2>1. Signs(IdPlaces, PlaceNumber)[<<x, y>>] = Sign(x[1], y[1])
    BY DEF Signs, PlaceNumber
  <2>2. Pulled(IdPlaces, IdCompare, PlaceSegment)[<<x, y>>] = IdOrder(x[2], y[2])
    BY DEF Pulled, PlaceSegment, IdPlaces, IdCompare
  <2> QED
    BY <2>1, <2>2 DEF IdPlaceCompare, Both
<1> QED
  BY <1>4, <1>5

\* Two places compare by whether they are past the end, then by their identifiers.
LEMMA IdPlaceAt ==
    ASSUME NEW u \in {0, 1}, NEW v \in {0, 1}, NEW s \in Segments, NEW t \in Segments
    PROVE  IdPlaceCompare[<< <<u, s>>, <<v, t>> >>] = AndThen(Sign(u, v), IdOrder(s, t))
<1> DEFINE x == <<u, s>>
           y == <<v, t>>
<1>1. x \in IdPlaces /\ y \in IdPlaces
  BY DEF IdPlaces
<1>2. x[1] = u /\ x[2] = s /\ y[1] = v /\ y[2] = t
  OBVIOUS
<1> HIDE DEF x, y
<1>3. IdPlaceCompare[<<x, y>>] = AndThen(Sign(u, v), IdOrder(s, t))
  BY <1>1, <1>2, IdPlaceIsTotal
<1> QED
  BY <1>3 DEF x, y

Identifiers(s) == [i \in Nat |-> IF i \in DOMAIN s THEN <<1, s[i]>> ELSE <<0, Number(0)>>]
IdentCompare ==
    [p \in Seq(Segments) \X Seq(Segments) |->
       Lex(IdPlaces, IdPlaceCompare)[<<Identifiers(p[1]), Identifiers(p[2])>>]]

\* A list of identifiers is a stream of places.
LEMMA IdentifiersAre ==
    ASSUME NEW s \in Seq(Segments)
    PROVE  /\ Identifiers(s) \in [Nat -> IdPlaces]
           /\ \A i \in Nat : Identifiers(s)[i] = IF i \in DOMAIN s THEN <<1, s[i]>> ELSE <<0, Number(0)>>
<1>1. \A i \in Nat : (IF i \in DOMAIN s THEN <<1, s[i]>> ELSE <<0, Number(0)>>) \in IdPlaces
  <2>1. \A i \in DOMAIN s : <<1, s[i]>> \in IdPlaces
    BY DEF IdPlaces
  <2>2. <<0, Number(0)>> \in IdPlaces
    <3>1. Number(0) \in Segments
      BY DEF Segments, Number
    <3> QED
      BY <3>1 DEF IdPlaces
  <2> QED
    BY <2>1, <2>2
<1> QED
  BY <1>1 DEF Identifiers

\* Lists of identifiers are compared totally.
LEMMA IdentIsTotal == Total(Seq(Segments), IdentCompare)
<1> DEFINE f == [s \in Seq(Segments) |-> Identifiers(s)]
<1>1. \A s \in Seq(Segments) : f[s] \in [Nat -> IdPlaces]
  BY IdentifiersAre
<1>2. Total([Nat -> IdPlaces], Lex(IdPlaces, IdPlaceCompare))
  BY IdPlaceIsTotal, LexIsTotal
<1>3. Total(Seq(Segments), Pulled(Seq(Segments), Lex(IdPlaces, IdPlaceCompare), f))
  <2> HIDE DEF f
  <2> QED
    BY <1>1, <1>2, PullIsTotal
<1>4. Pulled(Seq(Segments), Lex(IdPlaces, IdPlaceCompare), f) = IdentCompare
  BY DEF Pulled, IdentCompare
<1> QED
  BY <1>3, <1>4

\* A place that differs after places that tie decides.
LEMMA IdLexAt ==
    ASSUME NEW x \in [Nat -> IdPlaces], NEW y \in [Nat -> IdPlaces], NEW n \in Nat,
           IdPlaceCompare[<<x[n], y[n]>>] # 0,
           \A i \in Nat : i < n => IdPlaceCompare[<<x[i], y[i]>>] = 0
    PROVE  Lex(IdPlaces, IdPlaceCompare)[<<x, y>>] = IdPlaceCompare[<<x[n], y[n]>>]
BY LexAt

\* IdentCmp, up to the common length and then by length, is that comparison.
LEMMA IdentCmpIs ==
    ASSUME NEW a \in Seq(Segments), NEW b \in Seq(Segments)
    PROVE  IdentCmp(a, b) = IdentCompare[<<a, b>>]
<1> DEFINE K == IdPlaces
           c == IdPlaceCompare
           common == Min({Len(a), Len(b)})
           s == SubSeq(a, 1, common)
           t == SubSeq(b, 1, common)
           e == {i \in DOMAIN s \cup DOMAIN t : IdOrder(At(s, i, Number(0)), At(t, i, Number(0))) # 0}
           x == Identifiers(a)
           y == Identifiers(b)
<1>1. /\ x \in [Nat -> K] /\ y \in [Nat -> K]
      /\ \A i \in Nat : x[i] = IF i \in DOMAIN a THEN <<1, a[i]>> ELSE <<0, Number(0)>>
      /\ \A i \in Nat : y[i] = IF i \in DOMAIN b THEN <<1, b[i]>> ELSE <<0, Number(0)>>
  BY IdentifiersAre
<1>2. IdentCompare[<<a, b>>] = Lex(K, c)[<<x, y>>]
  BY DEF IdentCompare
<1>3. /\ common \in Nat
      /\ common = Len(a) \/ common = Len(b)
      /\ common <= Len(a) /\ common <= Len(b)
  <2>1. {Len(a), Len(b)} \in SUBSET Nat
    OBVIOUS
  <2>2. common \in {Len(a), Len(b)} /\ \A i \in {Len(a), Len(b)} : common <= i
    BY <2>1, MinIs
  <2> HIDE DEF common
  <2> QED
    BY <2>1, <2>2
<1>4. IdentCmp(a, b)
        = AndThen(IF e = {} THEN 0 ELSE IdOrder(At(s, Min(e), Number(0)), At(t, Min(e), Number(0))),
                               Sign(Len(a), Len(b)))
  BY Zenon DEF IdentCmp, FirstDifference, First, At
<1> HIDE DEF common
<1>5. /\ DOMAIN s = 1 .. common /\ DOMAIN t = 1 .. common
      /\ \A i \in 1 .. common : s[i] = a[i] /\ t[i] = b[i]
  BY <1>3
<1>6. \A i \in 1 .. common : i \in DOMAIN a /\ i \in DOMAIN b
  BY <1>3
<1>7. \A i \in 1 .. common : At(s, i, Number(0)) = a[i] /\ At(t, i, Number(0)) = b[i]
  BY <1>5 DEF At
<1>8. e = {i \in 1 .. common : IdOrder(a[i], b[i]) # 0}
  BY <1>5, <1>7
<1>9. \A i \in 1 .. common : c[<<x[i], y[i]>>] = IdOrder(a[i], b[i])
  <2> SUFFICES ASSUME NEW i \in 1 .. common PROVE c[<<x[i], y[i]>>] = IdOrder(a[i], b[i])
    OBVIOUS
  <2>0. i \in Nat
    BY <1>3
  <2>1. x[i] = <<1, a[i]>> /\ y[i] = <<1, b[i]>>
    BY <1>1, <1>6, <2>0
  <2>2. a[i] \in Segments /\ b[i] \in Segments
    BY <1>6
  <2>3. c[<<x[i], y[i]>>] = AndThen(Sign(1, 1), IdOrder(a[i], b[i]))
    BY <2>1, <2>2, IdPlaceAt
  <2> QED
    BY <2>3 DEF AndThen, Sign
<1>10. \A i \in Nat : i \notin DOMAIN a /\ i \notin DOMAIN b => c[<<x[i], y[i]>>] = 0
  <2>1. \A i \in Nat : i \notin DOMAIN a /\ i \notin DOMAIN b => x[i] = y[i] /\ x[i] \in K
    BY <1>1
  <2>2. \A z \in K : c[<<z, z>>] = 0
    BY IdPlaceIsTotal, TotalIsStrict
  <2> QED
    BY <2>1, <2>2
<1> HIDE DEF x, y, s, t
<1>11. CASE e # {}
  <2> DEFINE n == Min(e)
  <2>1. e \in SUBSET Nat
    BY <1>8
  <2>2. n \in e /\ \A i \in e : n <= i
    <3> HIDE DEF e
    <3> QED
      BY <1>11, <2>1, MinIs
  <2> HIDE DEF n
  <2>3. n \in 1 .. common /\ IdOrder(a[n], b[n]) # 0
    BY <1>8, <2>2
  <2>4. \A i \in Nat : i < n => c[<<x[i], y[i]>>] = 0
    <3> SUFFICES ASSUME NEW i \in Nat, i < n PROVE c[<<x[i], y[i]>>] = 0
      OBVIOUS
    <3>1. i \notin e
      <4>1. ~(n <= i)
        BY <2>3
      <4> HIDE DEF e
      <4> QED
        BY <2>2, <4>1
    <3>2. CASE i = 0
      <4>1. i \notin DOMAIN a /\ i \notin DOMAIN b
        BY <3>2
      <4> QED
        BY <1>10, <4>1
    <3>3. CASE i # 0
      <4>1. i \in 1 .. common
        BY <1>3, <2>3, <3>3
      <4> QED
        BY <1>8, <1>9, <3>1, <4>1
    <3> QED
      BY <3>2, <3>3
  <2>5. c[<<x[n], y[n]>>] = IdOrder(a[n], b[n])
    BY <1>9, <2>3
  <2>6. Lex(K, c)[<<x, y>>] = IdOrder(a[n], b[n])
    <3>1. x \in [Nat -> K] /\ y \in [Nat -> K]
      BY <1>1
    <3>2. n \in Nat
      BY <1>3, <2>3
    <3>3. c[<<x[n], y[n]>>] # 0
      BY <2>3, <2>5
    <3>4. Lex(K, c)[<<x, y>>] = c[<<x[n], y[n]>>]
      <4> HIDE DEF e
      <4> QED
        BY <2>4, <3>1, <3>2, <3>3, IdLexAt
    <3> QED
      BY <2>5, <3>4
  <2>7. IdentCmp(a, b) = IdOrder(a[n], b[n])
    <3>1. At(s, n, Number(0)) = a[n] /\ At(t, n, Number(0)) = b[n]
      BY <1>7, <2>3
    <3>2. IdentCmp(a, b) = AndThen(IdOrder(a[n], b[n]), Sign(Len(a), Len(b)))
      <4> HIDE DEF e
      <4> QED
        BY <1>4, <1>11, <3>1 DEF n
    <3> QED
      BY <2>3, <3>2 DEF AndThen
  <2> QED
    BY <1>2, <2>6, <2>7
<1>12. CASE e = {}
  <2>1. IdentCmp(a, b) = Sign(Len(a), Len(b))
    <3>1. IdentCmp(a, b) = AndThen(0, Sign(Len(a), Len(b)))
      <4> HIDE DEF e
      <4> QED
        BY <1>4, <1>12
    <3> QED
      BY <3>1 DEF AndThen
  <2>2. \A i \in 1 .. common : c[<<x[i], y[i]>>] = 0
    BY <1>8, <1>9, <1>12
  <2>3. CASE Len(a) = Len(b)
    <3>1. \A i \in Nat : c[<<x[i], y[i]>>] = 0
      <4>1. \A i \in Nat : i \in 1 .. common \/ (i \notin DOMAIN a /\ i \notin DOMAIN b)
        BY <1>3, <2>3
      <4> QED
        BY <1>10, <2>2, <4>1
    <3>2. Differ(c, x, y) = {}
      BY <3>1 DEF Differ
    <3>3. Lex(K, c)[<<x, y>>] = 0
      BY <1>1, <3>2 DEF Lex
    <3> QED
      BY <1>2, <2>1, <2>3, <3>3 DEF Sign
  <2>4. CASE Len(a) # Len(b)
    <3> DEFINE n == common + 1
    <3>1. n \in Nat
      BY <1>3
    <3>2. \A i \in Nat : i < n => c[<<x[i], y[i]>>] = 0
      <4>1. \A i \in Nat : i < n => i \in 1 .. common \/ (i \notin DOMAIN a /\ i \notin DOMAIN b)
        BY <1>3
      <4> QED
        BY <1>10, <2>2, <4>1
    <3>3. c[<<x[n], y[n]>>] = Sign(Len(a), Len(b))
      <4>0. /\ Number(0) \in Segments
            /\ n \in DOMAIN a => a[n] \in Segments
            /\ n \in DOMAIN b => b[n] \in Segments
        <5>1. Number(0) \in Segments
          BY DEF Number, Segments
        <5> HIDE DEF n
        <5>2. \A i \in DOMAIN a : a[i] \in Segments
          OBVIOUS
        <5>3. \A i \in DOMAIN b : b[i] \in Segments
          OBVIOUS
        <5> QED
          BY <5>1, <5>2, <5>3
      <4>1. CASE Len(a) < Len(b)
        <5>1. n \notin DOMAIN a /\ n \in DOMAIN b
          BY <1>3, <4>1
        <5>2. x[n] = <<0, Number(0)>> /\ y[n] = <<1, b[n]>>
          BY <1>1, <3>1, <5>1
        <5>3. c[<<x[n], y[n]>>] = AndThen(Sign(0, 1), IdOrder(Number(0), b[n]))
          BY <4>0, <5>1, <5>2, IdPlaceAt
        <5> QED
          BY <4>1, <5>3 DEF AndThen, Sign
      <4>2. CASE Len(b) < Len(a)
        <5>1. n \in DOMAIN a /\ n \notin DOMAIN b
          BY <1>3, <4>2
        <5>2. x[n] = <<1, a[n]>> /\ y[n] = <<0, Number(0)>>
          BY <1>1, <3>1, <5>1
        <5>3. c[<<x[n], y[n]>>] = AndThen(Sign(1, 0), IdOrder(a[n], Number(0)))
          BY <4>0, <5>1, <5>2, IdPlaceAt
        <5> QED
          BY <4>2, <5>3 DEF AndThen, Sign
      <4> QED
        BY <2>4, <4>1, <4>2
    <3> HIDE DEF n
    <3>4. Lex(K, c)[<<x, y>>] = c[<<x[n], y[n]>>]
      <4>1. Sign(Len(a), Len(b)) # 0
        BY <2>4 DEF Sign
      <4>2. c[<<x[n], y[n]>>] # 0
        BY <3>3, <4>1
      <4>3. x \in [Nat -> K] /\ y \in [Nat -> K]
        BY <1>1
      <4> HIDE DEF e
      <4> QED
        BY <3>1, <3>2, <4>2, <4>3, IdLexAt
    <3> QED
      BY <1>2, <2>1, <3>3, <3>4
  <2> QED
    BY <2>3, <2>4
<1> QED
  BY <1>11, <1>12

\* A list of identifiers that is empty is above the others.
Emptiness == [s \in Seq(Segments) |-> IF s = <<>> THEN 1 ELSE 0]
PreCompare == Both(Seq(Segments), Signs(Seq(Segments), Emptiness), IdentCompare)

\* PreOrder is total: a release is above its prereleases.
LEMMA PreOrderIs ==
    /\ Total(Seq(Segments), PreCompare)
    /\ \A a, b \in Seq(Segments) : PreOrder(a, b) = PreCompare[<<a, b>>]
<1>1. \A s \in Seq(Segments) : Emptiness[s] \in Int
  BY DEF Emptiness
<1>2. Total(Seq(Segments), Signs(Seq(Segments), Emptiness))
  BY <1>1, SignIsTotal
<1>3. Total(Seq(Segments), PreCompare)
  BY <1>2, IdentIsTotal, AndThenIsTotal DEF PreCompare
<1>4. ASSUME NEW a \in Seq(Segments), NEW b \in Seq(Segments)
      PROVE  PreOrder(a, b) = PreCompare[<<a, b>>]
  <2>1. PreCompare[<<a, b>>] = AndThen(Sign(Emptiness[a], Emptiness[b]), IdentCompare[<<a, b>>])
    BY DEF PreCompare, Both, Signs
  <2>2. PreOrder(a, b) = IF (a = <<>>) # (b = <<>>) THEN (IF a = <<>> THEN 1 ELSE -1)
                         ELSE IdentCompare[<<a, b>>]
    BY IdentCmpIs DEF PreOrder
  <2>3. /\ Emptiness[a] = IF a = <<>> THEN 1 ELSE 0
        /\ Emptiness[b] = IF b = <<>> THEN 1 ELSE 0
    BY DEF Emptiness
  <2>4. CASE a = <<>> /\ b # <<>>
    <3>1. PreOrder(a, b) = 1
      BY <2>2, <2>4, Zenon
    <3>2. Emptiness[a] = 1 /\ Emptiness[b] = 0
      BY <2>3, <2>4, Zenon
    <3> QED
      BY <2>1, <3>1, <3>2 DEF AndThen, Sign
  <2>5. CASE a # <<>> /\ b = <<>>
    <3>1. PreOrder(a, b) = -1
      BY <2>2, <2>5, Zenon
    <3>2. Emptiness[a] = 0 /\ Emptiness[b] = 1
      BY <2>3, <2>5, Zenon
    <3> QED
      BY <2>1, <3>1, <3>2 DEF AndThen, Sign
  <2>6. CASE (a = <<>>) = (b = <<>>)
    <3>1. PreOrder(a, b) = IdentCompare[<<a, b>>]
      BY <2>2, <2>6, Zenon
    <3>2. Emptiness[a] = Emptiness[b]
      BY <2>3, <2>6, Zenon
    <3>3. Sign(Emptiness[a], Emptiness[b]) = 0
      <4>1. Emptiness[b] \in Int
        BY <1>1
      <4> QED
        BY <3>2, <4>1 DEF Sign
    <3> QED
      BY <2>1, <3>1, <3>3 DEF AndThen
  <2> QED
    BY <2>4, <2>5, <2>6
<1> QED
  BY <1>3, <1>4

NuGetCompare(V) ==
    Both(V, Pulled(V, NumsCompare, [v \in V |-> v.nums]), Pulled(V, PreCompare, [v \in V |-> v.pre]))

\* NuGetOrder is total for what has numbers and a prerelease (nuget/version.rs:39).
LEMMA NuGetOrderIs ==
    ASSUME NEW V, \A v \in V : v.nums \in Seq(Nat) /\ v.pre \in Seq(Segments)
    PROVE  /\ Total(V, NuGetCompare(V))
           /\ \A a, b \in V : NuGetOrder(a, b) = NuGetCompare(V)[<<a, b>>]
<1> DEFINE f == [v \in V |-> v.nums]
           g == [v \in V |-> v.pre]
           c == Pulled(V, NumsCompare, f)
           d == Pulled(V, PreCompare, g)
<1>1. \A v \in V : f[v] \in Seq(Nat) /\ g[v] \in Seq(Segments)
  OBVIOUS
<1>2. Total(Seq(Nat), NumsCompare)
  BY NumOrderIsTotal, SeqLexIsTotal DEF NumsCompare
<1>3. Total(V, c) /\ Total(V, d)
  <2> HIDE DEF f, g
  <2> QED
    BY <1>1, <1>2, PreOrderIs, PullIsTotal
<1>4. Total(V, Both(V, c, d))
  <2> HIDE DEF c, d
  <2> QED
    BY <1>3, AndThenIsTotal
<1>5. ASSUME NEW a \in V, NEW b \in V PROVE NuGetOrder(a, b) = Both(V, c, d)[<<a, b>>]
  <2>1. c[<<a, b>>] = NumsOrder(a.nums, b.nums)
    BY NumsOrderIs DEF Pulled
  <2>2. d[<<a, b>>] = PreOrder(a.pre, b.pre)
    BY PreOrderIs DEF Pulled
  <2>3. Both(V, c, d)[<<a, b>>] = AndThen(c[<<a, b>>], d[<<a, b>>])
    <3> HIDE DEF c, d
    <3> QED
      BY DEF Both
  <2> HIDE DEF c, d
  <2> QED
    BY <2>1, <2>2, <2>3 DEF NuGetOrder
<1> QED
  BY <1>4, <1>5 DEF NuGetCompare

JuliaCompare(V) == Both(V, NuGetCompare(V), Pulled(V, IdentCompare, [v \in V |-> v.build]))

\* JuliaOrder is total, builds included (julia/version.rs:58).
LEMMA JuliaOrderIs ==
    ASSUME NEW V,
           \A v \in V : v.nums \in Seq(Nat) /\ v.pre \in Seq(Segments) /\ v.build \in Seq(Segments)
    PROVE  /\ Total(V, JuliaCompare(V))
           /\ \A a, b \in V : JuliaOrder(a, b) = JuliaCompare(V)[<<a, b>>]
<1> DEFINE f == [v \in V |-> v.build]
           c == NuGetCompare(V)
           d == Pulled(V, IdentCompare, f)
<1>1. \A v \in V : f[v] \in Seq(Segments)
  OBVIOUS
<1>2. Total(V, c) /\ \A a, b \in V : NuGetOrder(a, b) = c[<<a, b>>]
  BY NuGetOrderIs
<1>3. Total(V, d)
  <2> HIDE DEF f
  <2> QED
    BY <1>1, IdentIsTotal, PullIsTotal
<1>4. Total(V, Both(V, c, d))
  <2> HIDE DEF c, d
  <2> QED
    BY <1>2, <1>3, AndThenIsTotal
<1>5. ASSUME NEW a \in V, NEW b \in V PROVE JuliaOrder(a, b) = Both(V, c, d)[<<a, b>>]
  <2>1. c[<<a, b>>] = NuGetOrder(a, b)
    BY <1>2
  <2>2. d[<<a, b>>] = IdentCmp(a.build, b.build)
    BY IdentCmpIs DEF Pulled
  <2>3. Both(V, c, d)[<<a, b>>] = AndThen(c[<<a, b>>], d[<<a, b>>])
    <3> HIDE DEF c, d
    <3> QED
      BY DEF Both
  <2> HIDE DEF c, d
  <2> QED
    BY <2>1, <2>2, <2>3 DEF JuliaOrder
<1> QED
  BY <1>4, <1>5 DEF JuliaCompare

(***************************************************************************)
(* rpm's releases, and dpkg's versions.                                     *)
(***************************************************************************)
RpmVersions ==
    {v \in [epoch : Int, version : Seq(RpmRuns), release : SUBSET Seq(RpmRuns)] :
       \A r, s \in v.release : r = s}
EpochOf(V) == [v \in V |-> v.epoch]
VersionOf(V) == [v \in V |-> v.version]
HasRelease == [v \in RpmVersions |-> IF v.release = {} THEN 0 ELSE 1]
ReleaseOf ==
    [v \in RpmVersions |-> IF v.release = {} THEN <<>> ELSE CHOOSE r \in v.release : TRUE]
RpmReleaseCompare ==
    Both(RpmVersions, Signs(RpmVersions, HasRelease), Pulled(RpmVersions, RpmCompare, ReleaseOf))
RpmVersionCompare ==
    Both(RpmVersions, Signs(RpmVersions, EpochOf(RpmVersions)),
         Both(RpmVersions, Pulled(RpmVersions, RpmCompare, VersionOf(RpmVersions)), RpmReleaseCompare))

\* A release is one text or none.
LEMMA RpmVersionsAre ==
    ASSUME NEW v \in RpmVersions
    PROVE  /\ v.epoch \in Int
           /\ v.version \in Seq(RunPlaces)
           /\ v.release = {} => ReleaseOf[v] = <<>> /\ HasRelease[v] = 0 /\ Cardinality(v.release) = 0
           /\ v.release # {} => /\ ReleaseOf[v] = CHOOSE r \in v.release : TRUE
                                /\ HasRelease[v] = 1 /\ Cardinality(v.release) = 1
           /\ ReleaseOf[v] \in Seq(RunPlaces) /\ HasRelease[v] \in Int
<1>1. RpmRuns \subseteq RunPlaces
  BY DEF RpmRuns, RunPlaces
<1>2. /\ v.epoch \in Int /\ v.version \in Seq(RpmRuns) /\ v.release \in SUBSET Seq(RpmRuns)
      /\ \A r, s \in v.release : r = s
  BY DEF RpmVersions
<1>3. \A s \in Seq(RpmRuns) : s \in Seq(RunPlaces)
  BY <1>1
<1>4. v.release = {} => ReleaseOf[v] = <<>> /\ HasRelease[v] = 0 /\ Cardinality(v.release) = 0
  BY FS_EmptySet, Zenon DEF ReleaseOf, HasRelease
<1>5. v.release # {} => /\ ReleaseOf[v] = CHOOSE r \in v.release : TRUE
                        /\ HasRelease[v] = 1
  BY Zenon DEF ReleaseOf, HasRelease
<1>6. v.release # {} => ReleaseOf[v] \in v.release
  BY <1>5, Zenon
<1>7. v.release # {} => Cardinality(v.release) = 1
  <2> SUFFICES ASSUME v.release # {} PROVE Cardinality(v.release) = 1
    OBVIOUS
  <2>1. PICK r \in v.release : TRUE
    OBVIOUS
  <2>2. v.release = {r}
    BY <1>2, <2>1
  <2>3. Cardinality({r}) = 1
    BY FS_Singleton
  <2> QED
    BY <2>2, <2>3
<1>8. ReleaseOf[v] \in Seq(RunPlaces)
  <2>1. CASE v.release = {}
    <3>1. ReleaseOf[v] = <<>>
      BY <1>4, <2>1
    <3>2. <<>> \in Seq(RunPlaces)
      OBVIOUS
    <3> QED
      BY <3>1, <3>2
  <2>2. CASE v.release # {}
    BY <1>2, <1>3, <1>6, <2>2
  <2> QED
    BY <2>1, <2>2
<1> QED
  BY <1>2, <1>3, <1>4, <1>5, <1>7, <1>8

\* RpmOrder is total (RpmVersion::cmp, os/rpmver.rs:99).
LEMMA RpmOrderIs ==
    /\ Total(RpmVersions, RpmVersionCompare)
    /\ \A a, b \in RpmVersions : RpmOrder(a, b) = RpmVersionCompare[<<a, b>>]
<1> DEFINE V == RpmVersions
           e == Signs(V, EpochOf(V))
           w == Pulled(V, RpmCompare, VersionOf(V))
           h == Signs(V, HasRelease)
           r == Pulled(V, RpmCompare, ReleaseOf)
<1>1. /\ \A v \in V : EpochOf(V)[v] \in Int
      /\ \A v \in V : VersionOf(V)[v] \in Seq(RunPlaces)
      /\ \A v \in V : ReleaseOf[v] \in Seq(RunPlaces)
      /\ \A v \in V : HasRelease[v] \in Int
  BY RpmVersionsAre DEF EpochOf, VersionOf
<1>2. Total(Seq(RunPlaces), RpmCompare)
  <2>1. [kind |-> "end", value |-> 0] \in RunPlaces
    BY DEF RunPlaces
  <2> QED
    BY <2>1, RunOrderIsTotal, SeqLexIsTotal DEF RpmCompare
<1>3. Total(V, e) /\ Total(V, h)
  BY <1>1, SignIsTotal
<1>4. Total(V, w)
  BY <1>1, <1>2, PullIsTotal
<1>5. Total(V, r)
  BY <1>1, <1>2, PullIsTotal
<1>6. Total(V, RpmReleaseCompare)
  BY <1>3, <1>5, AndThenIsTotal DEF RpmReleaseCompare
<1>7. Total(V, Both(V, w, RpmReleaseCompare))
  BY <1>4, <1>6, AndThenIsTotal
<1>8. Total(V, RpmVersionCompare)
  BY <1>3, <1>7, AndThenIsTotal DEF RpmVersionCompare
<1>9. ASSUME NEW a \in V, NEW b \in V PROVE RpmOrder(a, b) = RpmVersionCompare[<<a, b>>]
  <2> DEFINE third == IF a.release # {} /\ b.release # {}
                      THEN Rpmvercmp(CHOOSE t \in a.release : TRUE, CHOOSE t \in b.release : TRUE)
                      ELSE Sign(Cardinality(a.release), Cardinality(b.release))
  <2>1. e[<<a, b>>] = Sign(a.epoch, b.epoch)
    BY DEF Signs, EpochOf
  <2>2. w[<<a, b>>] = Rpmvercmp(a.version, b.version)
    BY RpmVersionsAre, RpmvercmpIs DEF Pulled, VersionOf
  <2>3. h[<<a, b>>] = Sign(HasRelease[a], HasRelease[b])
    BY DEF Signs
  <2>4. r[<<a, b>>] = RpmCompare[<<ReleaseOf[a], ReleaseOf[b]>>]
    BY DEF Pulled
  <2>5. RpmReleaseCompare[<<a, b>>] = AndThen(h[<<a, b>>], r[<<a, b>>])
    BY DEF RpmReleaseCompare, Both
  <2>6. RpmVersionCompare[<<a, b>>] =
          AndThen(e[<<a, b>>], AndThen(w[<<a, b>>], RpmReleaseCompare[<<a, b>>]))
    BY DEF RpmVersionCompare, Both
  <2>7. third = RpmReleaseCompare[<<a, b>>]
    <3> HIDE DEF h, r
    <3>1. CASE a.release # {} /\ b.release # {}
      <4>1. third = Rpmvercmp(ReleaseOf[a], ReleaseOf[b])
        BY <3>1, RpmVersionsAre
      <4>2. third = r[<<a, b>>]
        BY <2>4, <4>1, RpmvercmpIs, RpmVersionsAre
      <4>3. h[<<a, b>>] = 0
        BY <2>3, <3>1, RpmVersionsAre DEF Sign
      <4> QED
        BY <2>5, <4>2, <4>3 DEF AndThen
    <3>2. CASE a.release = {} /\ b.release # {}
      <4>0. /\ HasRelease[a] = 0 /\ HasRelease[b] = 1
            /\ Cardinality(a.release) = 0 /\ Cardinality(b.release) = 1
        BY <3>2, RpmVersionsAre
      <4>5. third = Sign(Cardinality(a.release), Cardinality(b.release))
        BY <3>2
      <4> HIDE DEF third
      <4>1. third = -1 /\ h[<<a, b>>] = -1
        BY <2>3, <4>0, <4>5 DEF Sign
      <4> QED
        BY <2>5, <4>1 DEF AndThen
    <3>3. CASE a.release # {} /\ b.release = {}
      <4>0. /\ HasRelease[a] = 1 /\ HasRelease[b] = 0
            /\ Cardinality(a.release) = 1 /\ Cardinality(b.release) = 0
        BY <3>3, RpmVersionsAre
      <4>5. third = Sign(Cardinality(a.release), Cardinality(b.release))
        BY <3>3
      <4> HIDE DEF third
      <4>1. third = 1 /\ h[<<a, b>>] = 1
        BY <2>3, <4>0, <4>5 DEF Sign
      <4> QED
        BY <2>5, <4>1 DEF AndThen
    <3>4. CASE a.release = {} /\ b.release = {}
      <4>0. /\ HasRelease[a] = 0 /\ HasRelease[b] = 0
            /\ Cardinality(a.release) = 0 /\ Cardinality(b.release) = 0
        BY <3>4, RpmVersionsAre
      <4>5. third = Sign(Cardinality(a.release), Cardinality(b.release))
        BY <3>4
      <4> HIDE DEF third
      <4>1. third = 0 /\ h[<<a, b>>] = 0
        BY <2>3, <4>0, <4>5 DEF Sign
      <4>2. ReleaseOf[a] = ReleaseOf[b] /\ ReleaseOf[a] \in Seq(RunPlaces)
        BY <3>4, RpmVersionsAre
      <4>3. r[<<a, b>>] = 0
        BY <1>2, <2>4, <4>2, TotalIsStrict
      <4> QED
        BY <2>5, <4>1, <4>3 DEF AndThen
    <3> QED
      BY <3>1, <3>2, <3>3, <3>4
  <2> HIDE DEF e, w, third
  <2>8. RpmOrder(a, b)
          = AndThen(Sign(a.epoch, b.epoch), AndThen(Rpmvercmp(a.version, b.version), third))
    BY Zenon DEF RpmOrder, third
  <2> QED
    BY <2>1, <2>2, <2>6, <2>7, <2>8
<1> QED
  BY <1>8, <1>9

UpstreamOf == [v \in DebVersions |-> v.upstream]
RevisionOf == [v \in DebVersions |-> v.revision]
DebVersionCompare ==
    Both(DebVersions, Signs(DebVersions, EpochOf(DebVersions)),
         Both(DebVersions, Pulled(DebVersions, DebCompare, UpstreamOf),
              Pulled(DebVersions, DebCompare, RevisionOf)))

\* DebOrder is total (DebVersion::cmp, os/dpkgver.rs:145).
LEMMA DebOrderIs ==
    /\ Total(DebVersions, DebVersionCompare)
    /\ \A a, b \in DebVersions : DebOrder(a, b) = DebVersionCompare[<<a, b>>]
<1> DEFINE V == DebVersions
           e == Signs(V, EpochOf(V))
           u == Pulled(V, DebCompare, UpstreamOf)
           r == Pulled(V, DebCompare, RevisionOf)
<1>1. \A p \in DebPieces : p \in PiecePlaces
  <2>1. \A c \in DebChars : c \in CharPlaces
    BY DEF DebChars, CharPlaces
  <2>2. \A s \in Seq(DebChars) : s \in Seq(CharPlaces)
    BY <2>1
  <2> QED
    BY <2>2 DEF DebPieces, PiecePlaces
<1>2. \A s \in Seq(DebPieces) : s \in Seq(PiecePlaces)
  BY <1>1
<1>3. \A v \in V : v.epoch \in Int /\ v.upstream \in Seq(PiecePlaces) /\ v.revision \in Seq(PiecePlaces)
  BY <1>2 DEF DebVersions
<1>4. /\ \A v \in V : EpochOf(V)[v] \in Int
      /\ \A v \in V : UpstreamOf[v] \in Seq(PiecePlaces)
      /\ \A v \in V : RevisionOf[v] \in Seq(PiecePlaces)
  BY <1>3 DEF EpochOf, UpstreamOf, RevisionOf
<1>5. Total(Seq(PiecePlaces), DebCompare)
  <2>1. [text |-> <<>>, number |-> 0] \in PiecePlaces
    BY DEF PiecePlaces
  <2> QED
    BY <2>1, PieceOrderIsTotal, SeqLexIsTotal DEF DebCompare
<1>6. Total(V, e)
  BY <1>4, SignIsTotal
<1>7. Total(V, u)
  BY <1>4, <1>5, PullIsTotal
<1>8. Total(V, r)
  BY <1>4, <1>5, PullIsTotal
<1>9. Total(V, Both(V, u, r))
  BY <1>7, <1>8, AndThenIsTotal
<1>10. Total(V, DebVersionCompare)
  BY <1>6, <1>9, AndThenIsTotal DEF DebVersionCompare
<1>11. ASSUME NEW a \in V, NEW b \in V PROVE DebOrder(a, b) = DebVersionCompare[<<a, b>>]
  <2>1. e[<<a, b>>] = Sign(a.epoch, b.epoch)
    BY DEF Signs, EpochOf
  <2>2. u[<<a, b>>] = Verrevcmp(a.upstream, b.upstream)
    BY <1>3, VerrevcmpIs DEF Pulled, UpstreamOf
  <2>3. r[<<a, b>>] = Verrevcmp(a.revision, b.revision)
    BY <1>3, VerrevcmpIs DEF Pulled, RevisionOf
  <2>4. DebVersionCompare[<<a, b>>] = AndThen(e[<<a, b>>], AndThen(u[<<a, b>>], r[<<a, b>>]))
    BY DEF DebVersionCompare, Both
  <2> HIDE DEF e, u, r
  <2> QED
    BY <2>1, <2>2, <2>3, <2>4 DEF DebOrder
<1> QED
  BY <1>10, <1>11

(***************************************************************************)
(* Gem versions that tie are equal, as none ends in a zero.                 *)
(***************************************************************************)
LEMMA SeqLexTie ==
    ASSUME NEW K, NEW c, NEW pad \in K, c[<<pad, pad>>] = 0, NEW a \in Seq(K), NEW b \in Seq(K),
           SeqLex(K, c, pad)[<<a, b>>] = 0
    PROVE  \A i \in DOMAIN a \cup DOMAIN b : c[<<At(a, i, pad), At(b, i, pad)>>] = 0
<1> DEFINE d == Differing(c, a, b, pad)
<1>1. SeqLex(K, c, pad)[<<a, b>>] = IF d = {} THEN 0 ELSE c[<<At(a, Min(d), pad), At(b, Min(d), pad)>>]
  BY SeqLexIs
<1>2. d \in SUBSET Nat
  BY DEF Differing
<1>3. d # {} => Min(d) \in d
  <2> HIDE DEF d
  <2> QED
    BY <1>2, MinIs
<1>4. \A i \in d : c[<<At(a, i, pad), At(b, i, pad)>>] # 0
  BY DEF Differing
<1>5. d = {}
  <2> HIDE DEF d
  <2> QED
    BY <1>1, <1>3, <1>4
<1> QED
  BY <1>5 DEF Differing

\* Gem versions that tie are equal.
LEMMA GemTies ==
    ASSUME NEW a, NEW b, IsGem(a), IsGem(b), GemOrder(a, b) = 0 PROVE a = b
<1> DEFINE pad == Number(0)
<1>1. a \in Seq(Segments) /\ b \in Seq(Segments)
  BY DEF IsGem
<1>2. pad \in Segments
  BY DEF Number, Segments
<1>3. \A x, y \in Segments : SegmentCompare[<<x, y>>] = SegmentOrder(x, y)
  BY DEF SegmentCompare
<1>4. SegmentCompare[<<pad, pad>>] = 0
  BY <1>2, SegmentOrderIsTotal, TotalIsStrict
<1>5. SeqLex(Segments, SegmentCompare, pad)[<<a, b>>] = 0
  BY <1>1, GemOrderIs DEF GemCompare
<1> HIDE DEF pad
<1>6. \A i \in DOMAIN a \cup DOMAIN b : SegmentCompare[<<At(a, i, pad), At(b, i, pad)>>] = 0
  BY <1>1, <1>2, <1>4, <1>5, SeqLexTie
<1>7. \A i : At(a, i, pad) \in Segments /\ At(b, i, pad) \in Segments
  BY <1>1, <1>2 DEF At
<1>8. \A x, y \in Segments : SegmentOrder(x, y) = 0 => x = y
  <2> SUFFICES ASSUME NEW x \in Segments, NEW y \in Segments, SegmentOrder(x, y) = 0 PROVE x = y
    OBVIOUS
  <2>1. x.word \in BOOLEAN /\ y.word \in BOOLEAN /\ x.value \in Int /\ y.value \in Int
    BY DEF Segments
  <2>2. x.word = y.word /\ x.value = y.value
    BY <2>1 DEF SegmentOrder, Sign
  <2> QED
    BY <2>2 DEF Segments
<1>9. \A i \in DOMAIN a \cup DOMAIN b : At(a, i, pad) = At(b, i, pad)
  BY <1>3, <1>6, <1>7, <1>8
<1>10. Len(a) = Len(b)
  <2>1. ASSUME Len(a) < Len(b) PROVE FALSE
    <3>1. Len(b) \in DOMAIN b /\ Len(b) \notin DOMAIN a /\ b # <<>>
      BY <1>1, <2>1
    <3>2. b[Len(b)] = pad
      BY <1>9, <3>1 DEF At
    <3> QED
      BY <3>1, <3>2 DEF IsGem, Last, pad
  <2>2. ASSUME Len(b) < Len(a) PROVE FALSE
    <3>1. Len(a) \in DOMAIN a /\ Len(a) \notin DOMAIN b /\ a # <<>>
      BY <1>1, <2>2
    <3>2. a[Len(a)] = pad
      BY <1>9, <3>1 DEF At
    <3> QED
      BY <3>1, <3>2 DEF IsGem, Last, pad
  <2> QED
    BY <1>1, <2>1, <2>2
<1>11. \A i \in 1 .. Len(a) : a[i] = b[i]
  BY <1>1, <1>9, <1>10 DEF At
<1> QED
  BY <1>1, <1>10, <1>11

(***************************************************************************)
(* Composer's introduced bounds are open upwards.  A version whose numbers  *)
(* before the first word are those of the bound's release, zeros at the end *)
(* apart, has the bound's core.                                             *)
(***************************************************************************)
LEMMA MaxIs ==
    ASSUME NEW n \in Nat, NEW S \in SUBSET (0 .. n), S # {}
    PROVE  Max(S) \in S /\ \A y \in S : Max(S) >= y
<1> DEFINE up == {i \in Nat : n - i \in S}
<1>1. up \in SUBSET Nat /\ up # {}
  <2>1. PICK y \in S : TRUE
    OBVIOUS
  <2>2. n - y \in Nat /\ n - (n - y) = y
    BY <2>1
  <2> QED
    BY <2>1, <2>2
<1>2. Min(up) \in up /\ \A y \in up : Min(up) <= y
  <2> HIDE DEF up
  <2> QED
    BY <1>1, MinIs
<1> DEFINE x == n - Min(up)
<1>3. x \in S /\ Min(up) \in Nat
  BY <1>2
<1>4. \A y \in S : x >= y
  <2> SUFFICES ASSUME NEW y \in S PROVE x >= y
    OBVIOUS
  <2>1. y \in 0 .. n
    OBVIOUS
  <2>2. n - y \in Nat /\ n - (n - y) = y
    BY <2>1
  <2>3. n - y \in up
    BY <2>2
  <2>4. Min(up) <= n - y
    BY <1>2, <2>3
  <2> HIDE DEF up
  <2> QED
    BY <1>3, <2>1, <2>4
<1>5. \E z \in S : \A y \in S : z >= y
  BY <1>3, <1>4
<1> QED
  BY <1>5, Zenon DEF Max

\* Without its zeros at the end a sequence is its beginning, up to the last that is none.
LEMMA WithoutTrailingIs ==
    ASSUME NEW K, NEW zero, NEW s \in Seq(K)
    PROVE  \E n \in 0 .. Len(s) :
             /\ WithoutTrailing(s, zero) = SubSeq(s, 1, n)
             /\ \A i \in 1 .. Len(s) : i > n => s[i] = zero
             /\ n # 0 => s[n] # zero
<1> DEFINE S == {i \in DOMAIN s : s[i] # zero} \cup {0}
           n == Max(S)
<1>1. S \in SUBSET (0 .. Len(s)) /\ S # {} /\ Len(s) \in Nat
  OBVIOUS
<1>2. n \in S /\ \A y \in S : n >= y
  <2> HIDE DEF S
  <2> QED
    BY <1>1, MaxIs
<1>3. WithoutTrailing(s, zero) = SubSeq(s, 1, n)
  BY DEF WithoutTrailing
<1> HIDE DEF n
<1>4. n \in 0 .. Len(s)
  BY <1>1, <1>2
<1>5. \A i \in 1 .. Len(s) : i > n => s[i] = zero
  <2> SUFFICES ASSUME NEW i \in 1 .. Len(s), i > n, s[i] # zero PROVE FALSE
    OBVIOUS
  <2>1. i \in S
    OBVIOUS
  <2>2. n >= i
    BY <1>2, <2>1
  <2> QED
    BY <1>4, <2>2
<1>6. n # 0 => s[n] # zero
  BY <1>2
<1> QED
  BY <1>3, <1>4, <1>5, <1>6

\* Without the zeros at their ends they are equal just when they go on alike.
LEMMA WithoutTrailingEqual ==
    ASSUME NEW K, NEW zero, NEW s \in Seq(K), NEW t \in Seq(K)
    PROVE  (WithoutTrailing(s, zero) = WithoutTrailing(t, zero)) <=>
             \A i \in Nat \ {0} : At(s, i, zero) = At(t, i, zero)
<1>1. PICK m \in 0 .. Len(s) : /\ WithoutTrailing(s, zero) = SubSeq(s, 1, m)
                               /\ \A i \in 1 .. Len(s) : i > m => s[i] = zero
                               /\ m # 0 => s[m] # zero
  BY WithoutTrailingIs
<1>2. PICK n \in 0 .. Len(t) : /\ WithoutTrailing(t, zero) = SubSeq(t, 1, n)
                               /\ \A i \in 1 .. Len(t) : i > n => t[i] = zero
                               /\ n # 0 => t[n] # zero
  BY WithoutTrailingIs
<1>3. /\ Len(SubSeq(s, 1, m)) = m /\ \A i \in 1 .. m : SubSeq(s, 1, m)[i] = s[i]
      /\ Len(SubSeq(t, 1, n)) = n /\ \A i \in 1 .. n : SubSeq(t, 1, n)[i] = t[i]
      /\ SubSeq(s, 1, m) \in Seq(K) /\ SubSeq(t, 1, n) \in Seq(K)
  BY <1>1, <1>2
<1>4. /\ \A i \in Nat \ {0} : At(s, i, zero) = IF i <= m THEN s[i] ELSE zero
      /\ \A i \in Nat \ {0} : At(t, i, zero) = IF i <= n THEN t[i] ELSE zero
  BY <1>1, <1>2 DEF At
<1>5. ASSUME SubSeq(s, 1, m) = SubSeq(t, 1, n)
      PROVE  \A i \in Nat \ {0} : At(s, i, zero) = At(t, i, zero)
  <2>1. m = n /\ \A i \in 1 .. m : s[i] = t[i]
    BY <1>3, <1>5
  <2> QED
    BY <1>4, <2>1
<1>6. ASSUME \A i \in Nat \ {0} : At(s, i, zero) = At(t, i, zero)
      PROVE  SubSeq(s, 1, m) = SubSeq(t, 1, n)
  <2>1. m = n
    <3>1. ~(m < n)
      <4> SUFFICES ASSUME m < n PROVE FALSE
        OBVIOUS
      <4>1. n \in Nat \ {0} /\ ~(n <= m)
        BY <1>1, <1>2
      <4> QED
        BY <1>2, <1>4, <1>6, <4>1
    <3>2. ~(n < m)
      <4> SUFFICES ASSUME n < m PROVE FALSE
        OBVIOUS
      <4>1. m \in Nat \ {0} /\ ~(m <= n)
        BY <1>1, <1>2
      <4> QED
        BY <1>1, <1>4, <1>6, <4>1
    <3> QED
      BY <3>1, <3>2
  <2>2. \A i \in 1 .. m : s[i] = t[i]
    BY <1>4, <1>6, <2>1
  <2> QED
    BY <1>3, <2>1, <2>2
<1> QED
  BY <1>1, <1>2, <1>5, <1>6

\* Before the first word there are only numbers.
LEMMA FirstWordIs ==
    ASSUME NEW s \in Seq(Segments)
    PROVE  /\ FirstWord(s) \in 1 .. Len(s) + 1
           /\ \A i \in 1 .. Len(s) : i < FirstWord(s) => ~s[i].word
           /\ FirstWord(s) <= Len(s) => s[FirstWord(s)].word
<1> DEFINE S == {i \in DOMAIN s : s[i].word} \cup {Len(s) + 1}
           n == Min(S)
<1>1. S \in SUBSET Nat /\ S # {} /\ Len(s) \in Nat
  OBVIOUS
<1>2. n \in S /\ \A y \in S : n <= y
  <2> HIDE DEF S
  <2> QED
    BY <1>1, MinIs
<1>3. FirstWord(s) = n
  BY DEF FirstWord
<1> HIDE DEF n
<1>4. n \in 1 .. Len(s) + 1
  BY <1>1, <1>2
<1>5. \A i \in 1 .. Len(s) : i < n => ~s[i].word
  <2> SUFFICES ASSUME NEW i \in 1 .. Len(s), i < n, s[i].word PROVE FALSE
    OBVIOUS
  <2>1. i \in S
    OBVIOUS
  <2>2. n <= i
    BY <1>2, <2>1
  <2> QED
    BY <1>4, <2>2
<1>6. n <= Len(s) => s[n].word
  BY <1>1, <1>2
<1> QED
  BY <1>3, <1>4, <1>5, <1>6

\* A word after numbers only is the first.
LEMMA FirstWordAt ==
    ASSUME NEW s \in Seq(Segments), NEW n \in 1 .. Len(s), s[n].word,
           \A i \in 1 .. Len(s) : i < n => ~s[i].word
    PROVE  FirstWord(s) = n
<1>1. /\ FirstWord(s) \in 1 .. Len(s) + 1
      /\ \A i \in 1 .. Len(s) : i < FirstWord(s) => ~s[i].word
      /\ FirstWord(s) <= Len(s) => s[FirstWord(s)].word
  BY FirstWordIs
<1>2. ~(n < FirstWord(s))
  BY <1>1
<1>3. FirstWord(s) <= Len(s)
  BY <1>1, <1>2
<1>4. ~(FirstWord(s) < n)
  BY <1>1, <1>3
<1> QED
  BY <1>1, <1>2, <1>4

\* The numbers of a release's core are what its version goes on as.
LEMMA CoreIs ==
    ASSUME NEW s \in Seq(Segments), NEW t \in Seq(Segments), FirstWord(t) > Len(t)
    PROVE  (ReleaseCore(s) = ReleaseCore(t)) <=>
             \A i \in Nat \ {0} :
               At(t, i, Number(0)) = IF i < FirstWord(s) THEN s[i] ELSE Number(0)
<1> DEFINE u == SubSeq(s, 1, FirstWord(s) - 1)
           w == SubSeq(t, 1, FirstWord(t) - 1)
<1>1. FirstWord(s) \in 1 .. Len(s) + 1 /\ FirstWord(t) \in 1 .. Len(t) + 1
  BY FirstWordIs
<1>2. FirstWord(t) - 1 = Len(t)
  BY <1>1
<1>3. w = t
  BY <1>2
<1>4. u \in Seq(Segments) /\ DOMAIN u = 1 .. (FirstWord(s) - 1) /\ \A i \in DOMAIN u : u[i] = s[i]
  BY <1>1
<1> HIDE DEF u, w
<1>5. (ReleaseCore(s) = ReleaseCore(t)) <=>
        \A i \in Nat \ {0} : At(u, i, Number(0)) = At(t, i, Number(0))
  <2>1. ReleaseCore(s) = WithoutTrailing(u, Number(0)) /\ ReleaseCore(t) = WithoutTrailing(t, Number(0))
    BY <1>3 DEF ReleaseCore, u, w
  <2>2. u \in Seq(Segments)
    BY <1>4
  <2>3. (WithoutTrailing(u, Number(0)) = WithoutTrailing(t, Number(0))) <=>
          \A i \in Nat \ {0} : At(u, i, Number(0)) = At(t, i, Number(0))
    BY <2>2, WithoutTrailingEqual
  <2> QED
    BY <2>1, <2>3, Zenon
<1>6. \A i \in Nat \ {0} : At(u, i, Number(0)) = IF i < FirstWord(s) THEN s[i] ELSE Number(0)
  <2> SUFFICES ASSUME NEW i \in Nat \ {0}
               PROVE  At(u, i, Number(0)) = IF i < FirstWord(s) THEN s[i] ELSE Number(0)
    OBVIOUS
  <2>1. i \in DOMAIN u <=> i < FirstWord(s)
    BY <1>1, <1>4
  <2>2. i \in DOMAIN u => u[i] = s[i]
    BY <1>4
  <2> QED
    BY <2>1, <2>2, Zenon DEF At
<1> QED
  BY <1>5, <1>6

\* Composer versions are made of tokens.
LEMMA ComposerVersionsAre ==
    ASSUME NEW v, IsComposer(v) PROVE v \in Seq(Tokens) /\ v \in Seq(Segments)
<1>1. v \in Seq(Segments) /\ \A i \in DOMAIN v : IF v[i].word THEN v[i].value # 0 ELSE v[i].value >= 0
  BY DEF IsComposer
<1>2. \A i \in 1 .. Len(v) : v[i] \in Tokens
  BY <1>1 DEF Tokens
<1> QED
  BY <1>1, <1>2

\* They are compared totally.
LEMMA ComposerIsTotal == Total(Seq(Tokens), ComposerCompare)
<1>1. Number(0) \in Tokens
  <2>1. Number(0) \in Segments /\ ~Number(0).word /\ Number(0).value = 0
    BY DEF Number, Segments
  <2> QED
    BY <2>1 DEF Tokens
<1> QED
  BY <1>1, TokenOrderIsTotal, SeqLexIsTotal DEF ComposerCompare

\* A token that differs after tokens that tie decides.
LEMMA TokenLexAt ==
    ASSUME NEW x \in [Nat -> Tokens], NEW y \in [Nat -> Tokens], NEW n \in Nat,
           TokenCompare[<<x[n], y[n]>>] # 0,
           \A i \in Nat : i < n => TokenCompare[<<x[i], y[i]>>] = 0
    PROVE  Lex(Tokens, TokenCompare)[<<x, y>>] = TokenCompare[<<x[n], y[n]>>]
BY LexAt

\* What is not below a prerelease of the bound's, and below the bound, is one too.
LEMMA BetweenIsPrerelease ==
    ASSUME NEW a, NEW b, NEW c, IsComposer(a), IsComposer(b), IsComposer(c),
           ComposerOrder(a, b) <= 0, ComposerOrder(b, c) < 0, FirstWord(c) > Len(c),
           IsPrerelease(a), ReleaseCore(a) = ReleaseCore(c)
    PROVE  IsPrerelease(b) /\ ReleaseCore(b) = ReleaseCore(c)
<1> DEFINE pad == Number(0)
           x == Padded(a, pad)
           y == Padded(b, pad)
           z == Padded(c, pad)
           e == TokenCompare
           p == FirstWord(a)
           d == Differ(e, y, z)
           j == Min(d)
<1>1. /\ a \in Seq(Tokens) /\ b \in Seq(Tokens) /\ c \in Seq(Tokens)
      /\ a \in Seq(Segments) /\ b \in Seq(Segments) /\ c \in Seq(Segments)
  BY ComposerVersionsAre
<1>2. pad \in Tokens /\ pad \in Segments /\ ~pad.word /\ pad.value = 0
  <2>1. pad \in Segments /\ ~pad.word /\ pad.value = 0
    BY DEF Number, Segments
  <2> QED
    BY <2>1 DEF Tokens
<1>3. /\ x \in [Nat -> Tokens] /\ y \in [Nat -> Tokens] /\ z \in [Nat -> Tokens]
      /\ \A i \in Nat : x[i] = IF i \in DOMAIN a THEN a[i] ELSE pad
      /\ \A i \in Nat : y[i] = IF i \in DOMAIN b THEN b[i] ELSE pad
      /\ \A i \in Nat : z[i] = IF i \in DOMAIN c THEN c[i] ELSE pad
  <2>1. x \in [Nat -> Tokens]
    BY <1>1, <1>2, PaddedIs
  <2>2. y \in [Nat -> Tokens]
    BY <1>1, <1>2, PaddedIs
  <2>3. z \in [Nat -> Tokens]
    BY <1>1, <1>2, PaddedIs
  <2>4. /\ \A i \in Nat : x[i] = IF i \in DOMAIN a THEN a[i] ELSE pad
        /\ \A i \in Nat : y[i] = IF i \in DOMAIN b THEN b[i] ELSE pad
        /\ \A i \in Nat : z[i] = IF i \in DOMAIN c THEN c[i] ELSE pad
    BY DEF Padded
  <2> QED
    BY <2>1, <2>2, <2>3, <2>4
<1>4. /\ ComposerOrder(a, b) = Lex(Tokens, e)[<<x, y>>]
      /\ ComposerOrder(b, c) = Lex(Tokens, e)[<<y, z>>]
  BY <1>1, ComposerOrderIs DEF ComposerCompare, SeqLex
<1>5. /\ \A u, v \in Tokens : e[<<u, v>>] = TokenOrder(u, v)
      /\ \A u, v \in Tokens : e[<<u, v>>] \in {-1, 0, 1}
      /\ \A u, v \in Tokens : e[<<u, v>>] = -e[<<v, u>>]
      /\ \A u \in Tokens : e[<<u, u>>] = 0
  <2>1. \A u, v \in Tokens : e[<<u, v>>] = TokenOrder(u, v)
    BY DEF TokenCompare
  <2>2. \A u, v \in Tokens : e[<<u, v>>] = -e[<<v, u>>]
    BY TokenOrderIsTotal DEF Total
  <2> QED
    BY <2>1, <2>2, TokenOrderIsTotal, TotalIsStrict
<1>6. /\ p \in 1 .. Len(a) /\ a[p].word /\ a[p].value < 0
  <2>1. p \in 1 .. Len(a) + 1 /\ (p <= Len(a) => a[p].word)
    BY <1>1, FirstWordIs
  <2> QED
    BY <1>1, <2>1 DEF IsPrerelease
<1>7. \A i \in Nat \ {0} : z[i] = IF i < p THEN a[i] ELSE pad
  <2>1. \A i \in Nat \ {0} : At(c, i, pad) = IF i < p THEN a[i] ELSE pad
    BY <1>1, CoreIs
  <2>2. \A i \in Nat \ {0} : z[i] = At(c, i, pad)
    BY <1>3 DEF At
  <2> HIDE DEF z, pad, p
  <2> QED
    BY <2>1, <2>2
<1>8. \A i \in Nat : ~z[i].word
  <2>1. \A i \in 1 .. Len(c) : ~c[i].word
    <3>1. \A i \in 1 .. Len(c) : i < FirstWord(c)
      <4>1. FirstWord(c) \in 1 .. Len(c) + 1
        BY <1>1, FirstWordIs
      <4> QED
        BY <1>1, <4>1
    <3> QED
      BY <1>1, <3>1, FirstWordIs
  <2> HIDE DEF z, pad
  <2> QED
    BY <1>1, <1>2, <1>3, <2>1
<1> HIDE DEF x, y, z, pad, p, e
<1>9. d \in SUBSET Nat /\ d # {}
  <2>1. d \in SUBSET Nat
    BY DEF Differ
  <2>2. ASSUME d = {} PROVE FALSE
    <3>1. Lex(Tokens, e)[<<y, z>>] = 0
      BY <1>3, <2>2 DEF Lex
    <3> QED
      BY <1>4, <3>1
  <2> QED
    BY <2>1, <2>2
<1>10. j \in Nat /\ e[<<y[j], z[j]>>] # 0 /\ \A i \in Nat : i < j => e[<<y[i], z[i]>>] = 0
  <2>1. j \in d /\ \A i \in d : j <= i
    <3> HIDE DEF d
    <3> QED
      BY <1>9, MinIs
  <2>2. j \in Nat
    BY <1>9, <2>1
  <2> HIDE DEF j
  <2>3. \A i \in Nat : i < j => ~(j <= i)
    BY <2>2
  <2>4. \A i \in Nat : i < j => i \notin d
    <3> HIDE DEF d
    <3> QED
      BY <2>1, <2>3
  <2> QED
    BY <2>1, <2>2, <2>4 DEF Differ
<1> HIDE DEF j, d
<1>11. e[<<y[j], z[j]>>] < 0
  <2>1. Lex(Tokens, e)[<<y, z>>] = e[<<y[j], z[j]>>]
    BY <1>3, <1>10, TokenLexAt DEF e
  <2> QED
    BY <1>4, <2>1
<1>12. \A i \in Nat : x[i] \in Tokens /\ y[i] \in Tokens /\ z[i] \in Tokens
  BY <1>3
<1>13. x[0] = pad /\ z[0] = pad
  BY <1>1, <1>3
<1>14. \A i \in Nat : i < p => x[i] = z[i]
  <2>1. \A i \in Nat \ {0} : i < p => i \in DOMAIN a
    BY <1>1, <1>6
  <2>2. \A i \in Nat \ {0} : i < p => x[i] = z[i]
    BY <1>3, <1>7, <2>1
  <2> QED
    BY <1>13, <2>2
<1>15. ~(j < p)
  <2> SUFFICES ASSUME j < p PROVE FALSE
    OBVIOUS
  <2>1. \A i \in Nat : i < j => e[<<x[i], y[i]>>] = 0
    <3> SUFFICES ASSUME NEW i \in Nat, i < j PROVE e[<<x[i], y[i]>>] = 0
      OBVIOUS
    <3>1. i < p
      BY <1>6, <1>10
    <3>2. x[i] = z[i]
      BY <1>14, <3>1
    <3>3. e[<<y[i], z[i]>>] = 0
      BY <1>10
    <3>4. e[<<z[i], y[i]>>] \in Int /\ e[<<y[i], z[i]>>] = -e[<<z[i], y[i]>>]
      BY <1>5, <1>12
    <3>5. e[<<z[i], y[i]>>] = 0
      BY <3>3, <3>4
    <3> QED
      BY <3>2, <3>5
  <2>2. e[<<x[j], y[j]>>] > 0
    <3>1. x[j] = z[j]
      BY <1>10, <1>14
    <3>2. e[<<z[j], y[j]>>] \in Int /\ e[<<y[j], z[j]>>] = -e[<<z[j], y[j]>>]
      BY <1>5, <1>10, <1>12
    <3> QED
      BY <1>11, <3>1, <3>2
  <2>3. e[<<x[j], y[j]>>] # 0
    BY <2>2
  <2>4. Lex(Tokens, e)[<<x, y>>] = e[<<x[j], y[j]>>]
    BY <1>3, <1>10, <2>1, <2>3, TokenLexAt DEF e
  <2>5. e[<<x[j], y[j]>>] \in Int
    BY <1>5, <1>10, <1>12
  <2> QED
    BY <1>4, <2>2, <2>4, <2>5
<1>16. j \in Nat \ {0} /\ p <= j
  BY <1>6, <1>10, <1>15
<1>17. z[j] = pad
  BY <1>6, <1>7, <1>15, <1>16
<1>18. y[j].word /\ y[j].value < 0
  <2>1. TokenOrder(y[j], pad) < 0
    BY <1>2, <1>5, <1>10, <1>11, <1>12, <1>17
  <2>2. y[j] \in Tokens
    BY <1>10, <1>12
  <2>3. y[j].word \in BOOLEAN /\ y[j].value \in Int /\ (~y[j].word => y[j].value >= 0)
    BY <2>2 DEF Tokens, Segments
  <2> QED
    BY <1>2, <2>1, <2>3 DEF TokenOrder, OrderOf, Sign
<1>19. j \in 1 .. Len(b) /\ y[j] = b[j]
  BY <1>1, <1>2, <1>3, <1>10, <1>18
<1>20. \A i \in Nat : i < j => y[i] = z[i]
  <2> SUFFICES ASSUME NEW i \in Nat, i < j PROVE y[i] = z[i]
    OBVIOUS
  <2>1. TokenOrder(y[i], z[i]) = 0
    BY <1>5, <1>10, <1>12
  <2>2. y[i] \in Tokens /\ z[i] \in Tokens /\ ~z[i].word
    BY <1>8, <1>12
  <2>3. /\ y[i] \in Segments /\ y[i].word \in BOOLEAN /\ y[i].value \in Int
        /\ (y[i].word => y[i].value # 0)
        /\ z[i] \in Segments /\ z[i].word \in BOOLEAN /\ z[i].value \in Int
    BY <2>2 DEF Tokens, Segments
  <2>4. y[i].word = z[i].word /\ y[i].value = z[i].value
    BY <2>1, <2>2, <2>3 DEF TokenOrder, OrderOf, Sign
  <2> QED
    BY <2>3, <2>4 DEF Segments
<1>21. \A i \in 1 .. Len(b) : i < j => ~b[i].word
  <2> SUFFICES ASSUME NEW i \in 1 .. Len(b), i < j PROVE ~b[i].word
    OBVIOUS
  <2>1. i \in Nat /\ i \in DOMAIN b
    BY <1>1
  <2>2. y[i] = b[i]
    BY <1>3, <2>1
  <2> QED
    BY <1>8, <1>20, <2>1, <2>2
<1>22. FirstWord(b) = j
  BY <1>1, <1>18, <1>19, <1>21, FirstWordAt
<1>23. IsPrerelease(b)
  BY <1>18, <1>19, <1>22 DEF IsPrerelease
<1>24. \A i \in Nat \ {0} : At(c, i, pad) = IF i < j THEN b[i] ELSE pad
  <2> SUFFICES ASSUME NEW i \in Nat \ {0} PROVE At(c, i, pad) = IF i < j THEN b[i] ELSE pad
    OBVIOUS
  <2>1. At(c, i, pad) = z[i]
    BY <1>3 DEF At
  <2>2. CASE i < j
    <3>1. i \in DOMAIN b
      BY <1>1, <1>19, <2>2
    <3> QED
      BY <1>3, <1>20, <2>1, <2>2, <3>1
  <2>3. CASE ~(i < j)
    <3>1. ~(i < p)
      BY <1>6, <1>16, <2>3
    <3> QED
      BY <1>7, <2>1, <2>3, <3>1
  <2> QED
    BY <2>2, <2>3
<1> QED
  BY <1>1, <1>22, <1>23, <1>24, CoreIs DEF pad

\* What is at or after an introduced bound stays so upwards (packagist/version.rs:236).
LEMMA IntroducedIsOpenUpwards ==
    ASSUME NEW a, NEW b, NEW c, IsComposer(a), IsComposer(b), IsComposer(c),
           ComposerOrder(a, b) <= 0, IsPrerelease(c) \/ FirstWord(c) > Len(c),
           AtOrAfterIntroduced(a, c)
    PROVE  AtOrAfterIntroduced(b, c)
<1>1. a \in Seq(Tokens) /\ b \in Seq(Tokens) /\ c \in Seq(Tokens)
  BY ComposerVersionsAre
<1>2. /\ \A u, v \in Seq(Tokens) : ComposerOrder(u, v) \in {-1, 0, 1}
      /\ \A u, v \in Seq(Tokens) : ComposerOrder(u, v) = -ComposerOrder(v, u)
      /\ \A u, v, w \in Seq(Tokens) :
           ComposerOrder(u, v) <= 0 /\ ComposerOrder(v, w) <= 0 => ComposerOrder(u, w) <= 0
  <2>1. \A u, v \in Seq(Tokens) : ComposerOrder(u, v) = ComposerCompare[<<u, v>>]
    BY ComposerOrderIs
  <2>2. /\ \A u, v \in Seq(Tokens) : ComposerCompare[<<u, v>>] = -ComposerCompare[<<v, u>>]
        /\ \A u, v, w \in Seq(Tokens) :
             ComposerCompare[<<u, v>>] <= 0 /\ ComposerCompare[<<v, w>>] <= 0
             => ComposerCompare[<<u, w>>] <= 0
    BY ComposerIsTotal DEF Total
  <2>3. \A u, v \in Seq(Tokens) : ComposerCompare[<<u, v>>] \in {-1, 0, 1}
    BY ComposerIsTotal, TotalIsStrict
  <2>4. \A u, v \in Seq(Tokens) : ComposerOrder(u, v) \in {-1, 0, 1}
    BY <2>1, <2>3, Zenon
  <2>5. \A u, v \in Seq(Tokens) : ComposerOrder(u, v) = -ComposerOrder(v, u)
    BY <2>1, <2>2, Zenon
  <2>6. \A u, v, w \in Seq(Tokens) :
          ComposerOrder(u, v) <= 0 /\ ComposerOrder(v, w) <= 0 => ComposerOrder(u, w) <= 0
    <3> SUFFICES ASSUME NEW u \in Seq(Tokens), NEW v \in Seq(Tokens), NEW w \in Seq(Tokens),
                        ComposerOrder(u, v) <= 0, ComposerOrder(v, w) <= 0
                 PROVE  ComposerOrder(u, w) <= 0
      OBVIOUS
    <3>1. ComposerCompare[<<u, v>>] <= 0 /\ ComposerCompare[<<v, w>>] <= 0
      BY <2>1
    <3>2. ComposerCompare[<<u, w>>] <= 0
      BY <2>2, <3>1, Zenon
    <3> QED
      BY <2>1, <3>2
  <2> QED
    BY <2>4, <2>5, <2>6, Zenon
<1>3. CASE ComposerOrder(a, c) >= 0
  <2>1. ComposerOrder(c, a) <= 0
    <3>1. ComposerOrder(c, a) \in Int /\ ComposerOrder(a, c) = -ComposerOrder(c, a)
      BY <1>1, <1>2
    <3> QED
      BY <1>3, <3>1
  <2>2. ComposerOrder(c, b) <= 0
    BY <1>1, <1>2, <2>1
  <2>3. ComposerOrder(b, c) >= 0
    <3>1. ComposerOrder(c, b) \in Int /\ ComposerOrder(b, c) = -ComposerOrder(c, b)
      BY <1>1, <1>2
    <3> QED
      BY <2>2, <3>1
  <2> QED
    BY <2>3 DEF AtOrAfterIntroduced
<1>4. CASE ~(ComposerOrder(a, c) >= 0)
  <2>1. ~IsPrerelease(c) /\ IsPrerelease(a) /\ ReleaseCore(a) = ReleaseCore(c)
    BY <1>4 DEF AtOrAfterIntroduced
  <2>2. CASE ComposerOrder(b, c) >= 0
    BY <2>2 DEF AtOrAfterIntroduced
  <2>3. CASE ~(ComposerOrder(b, c) >= 0)
    <3>1. ComposerOrder(b, c) < 0
      <4>1. ComposerOrder(b, c) \in Int
        BY <1>1, <1>2
      <4> QED
        BY <2>3, <4>1
    <3> QED
      BY <2>1, <3>1, BetweenIsPrerelease DEF AtOrAfterIntroduced
  <2> QED
    BY <2>2, <2>3
<1> QED
  BY <1>3, <1>4

(***************************************************************************)
(* Maven.  A version is the row of what its places are in the order: a word *)
(* before the release, a list of what is below null, the end, a word from   *)
(* the release on, a list of what is above null, a number.                  *)
(***************************************************************************)
Class(v, i) ==
    IF i \notin DOMAIN v THEN 2
    ELSE IF v[i].kind = "int" THEN 5
    ELSE IF v[i].kind = "list" THEN (IF NullOrder(v, i) < 0 THEN 1 ELSE 4)
    ELSE IF v[i].value < ReleaseIndex THEN 0 ELSE 3
ValueAt(v, i) == IF i \notin DOMAIN v THEN 0 ELSE v[i].value
Keys == Int \X Int
KeysOf(v) == [i \in Nat |-> <<Class(v, i), ValueAt(v, i)>>]
KeyClass == [k \in Keys |-> k[1]]
KeyValue == [k \in Keys |-> k[2]]
KeyCompare == Both(Keys, Signs(Keys, KeyClass), Signs(Keys, KeyValue))

\* Keys are compared totally.
LEMMA KeyIsTotal == Total(Keys, KeyCompare)
<1>1. /\ \A k \in Keys : KeyClass[k] \in Int
      /\ \A k \in Keys : KeyValue[k] \in Int
  BY DEF Keys, KeyClass, KeyValue
<1>2. Total(Keys, Signs(Keys, KeyClass)) /\ Total(Keys, Signs(Keys, KeyValue))
  BY <1>1, SignIsTotal
<1> QED
  BY <1>2, AndThenIsTotal DEF KeyCompare

\* Two keys compare by class, then by value.
LEMMA KeyAt ==
    ASSUME NEW p \in Int, NEW q \in Int, NEW r \in Int, NEW s \in Int
    PROVE  KeyCompare[<< <<p, q>>, <<r, s>> >>] = AndThen(Sign(p, r), Sign(q, s))
<1> DEFINE x == <<p, q>>
           y == <<r, s>>
<1>1. x \in Keys /\ y \in Keys /\ <<x, y>> \in Keys \X Keys
  BY DEF Keys
<1>2. KeyClass[x] = p /\ KeyClass[y] = r /\ KeyValue[x] = q /\ KeyValue[y] = s
  BY <1>1 DEF KeyClass, KeyValue
<1> HIDE DEF x, y
<1>3. KeyCompare[<<x, y>>] = AndThen(Sign(p, r), Sign(q, s))
  BY <1>1, <1>2 DEF KeyCompare, Both, Signs
<1> QED
  BY <1>3 DEF x, y

\* What the items of a Maven version are.
LEMMA MavenVersionsAre ==
    ASSUME NEW v, IsMaven(v)
    PROVE  /\ v \in Seq(MavenItems)
           /\ \A i \in DOMAIN v : /\ v[i].kind \in {"int", "str", "list"} /\ v[i].value \in Int
                                  /\ v[i].kind = "int" => v[i].value >= 0
                                  /\ v[i].kind = "str" => i = 1 \/ v[i - 1].kind = "list"
                                  /\ v[i].kind = "list" => /\ i > 1 /\ i < Len(v) /\ v[i].value = 0
                                                           /\ v[i - 1].kind # "list"
<1>1. v \in Seq(MavenItems)
  BY DEF IsMaven
<1>2. \A i \in DOMAIN v : v[i].kind \in {"int", "str", "list"} /\ v[i].value \in Int
  <2>1. \A i \in DOMAIN v : v[i] \in MavenItems
    BY <1>1
  <2> QED
    BY <2>1 DEF MavenItems
<1> QED
  BY <1>1, <1>2 DEF IsMaven

\* After what is null in its list comes a positive number, and only zeros before it.
LEMMA AfterNull ==
    ASSUME NEW v, IsMaven(v), NEW i \in DOMAIN v, v[i].kind # "list", NullSign(v[i]) = 0
    PROVE  \E j \in (i + 1) .. Len(v) :
             /\ v[j].kind = "int" /\ v[j].value > 0
             /\ \A k \in (i + 1) .. (j - 1) : v[k].kind = "int" /\ v[k].value = 0
<1> DEFINE S == {j \in (i + 1) .. Len(v) : v[j].value # 0 /\ \A k \in (i + 1) .. j : v[k].kind = "int"}
           m == Min(S)
<1>0. v \in Seq(MavenItems) /\ i \in Nat /\ Len(v) \in Nat
  BY MavenVersionsAre
<1>1. S \in SUBSET Nat
  BY <1>0
<1>2. S # {}
  BY DEF IsMaven
<1>3. m \in S /\ \A j \in S : m <= j
  <2> HIDE DEF S
  <2> QED
    BY <1>1, <1>2, MinIs
<1> HIDE DEF m
<1>4. m \in (i + 1) .. Len(v) /\ v[m].value # 0 /\ \A k \in (i + 1) .. m : v[k].kind = "int"
  BY <1>3
<1>5. v[m].kind = "int" /\ v[m].value > 0
  <2>1. m \in DOMAIN v /\ v[m].kind = "int"
    BY <1>0, <1>4
  <2>2. v[m].value \in Int /\ v[m].value >= 0
    BY <2>1, MavenVersionsAre
  <2> QED
    BY <1>4, <2>1, <2>2
<1>6. ASSUME NEW k \in (i + 1) .. (m - 1) PROVE v[k].kind = "int" /\ v[k].value = 0
  <2>1. k \in (i + 1) .. m /\ k \in (i + 1) .. Len(v) /\ ~(m <= k)
    BY <1>0, <1>4
  <2>2. k \notin S
    BY <1>3, <2>1
  <2>3. \A l \in (i + 1) .. k : l \in (i + 1) .. m
    BY <1>0, <1>4, <2>1
  <2> QED
    BY <1>4, <2>1, <2>2, <2>3
<1> QED
  BY <1>4, <1>5, <1>6

\* What a list's first item says of it.
LEMMA ListIs ==
    ASSUME NEW v, IsMaven(v), NEW i \in DOMAIN v, v[i].kind = "list"
    PROVE  /\ i + 1 \in DOMAIN v /\ v[i + 1].kind # "list"
           /\ NullOrder(v, i) \in {-1, 1}
           /\ NullOrder(v, i) = -1 => v[i + 1].kind = "str" /\ v[i + 1].value < ReleaseIndex
           /\ NullOrder(v, i) = 1 =>
                v[i + 1].kind = "int" \/ (v[i + 1].kind = "str" /\ v[i + 1].value >= ReleaseIndex)
<1> DEFINE S == {j \in i .. Len(v) : NullSign(v[j]) # 0}
           m == Min(S)
           n == i + 1
<1>0. v \in Seq(MavenItems) /\ i \in Nat /\ Len(v) \in Nat
  BY MavenVersionsAre
<1>1. n \in DOMAIN v /\ n \in Nat /\ n - 1 = i
  BY <1>0, MavenVersionsAre
<1>2. NullOrder(v, i) = IF S = {} THEN 0 ELSE NullSign(v[m])
  BY Zenon DEF NullOrder, First
<1>3. v[n].kind # "list" /\ v[n].kind \in {"int", "str", "list"} /\ v[n].value \in Int
  <2> HIDE DEF n
  <2> QED
    BY <1>1, MavenVersionsAre
<1>4. v[n].kind = "int" => v[n].value >= 0
  <2> HIDE DEF n
  <2> QED
    BY <1>1, MavenVersionsAre
<1>5. NullSign(v[i]) = 0
  BY DEF NullSign
<1>6. S \in SUBSET Nat
  BY <1>0
<1>7. S # {} => m \in S /\ \A j \in S : m <= j
  <2> HIDE DEF S
  <2> QED
    BY <1>6, MinIs
<1> HIDE DEF m, n
<1>8. CASE NullSign(v[n]) # 0
  <2>1. n \in S
    BY <1>0, <1>1, <1>8
  <2>2. m = n
    <3>1. m \in S /\ m <= n
      BY <1>7, <2>1
    <3>2. m \in i .. Len(v) /\ m # i
      BY <1>5, <3>1
    <3> QED
      BY <1>0, <1>1, <3>1, <3>2
  <2>3. NullOrder(v, i) = NullSign(v[n])
    <3> HIDE DEF S
    <3> QED
      BY <1>2, <2>1, <2>2
  <2>4. CASE v[n].kind = "int"
    <3>1. NullSign(v[n]) = Sign(v[n].value, 0)
      BY <2>4 DEF NullSign
    <3>2. NullSign(v[n]) = 1
      BY <1>3, <1>4, <1>8, <2>4, <3>1 DEF Sign
    <3> QED
      BY <1>1, <1>3, <2>3, <2>4, <3>2 DEF n
  <2>5. CASE v[n].kind = "str"
    <3>1. NullSign(v[n]) = Sign(v[n].value, ReleaseIndex)
      BY <2>5 DEF NullSign
    <3>2. /\ NullSign(v[n]) \in {-1, 1}
          /\ NullSign(v[n]) = -1 => v[n].value < ReleaseIndex
          /\ NullSign(v[n]) = 1 => v[n].value >= ReleaseIndex
      BY <1>3, <1>8, <3>1 DEF Sign, ReleaseIndex
    <3> QED
      BY <1>1, <1>3, <2>3, <2>5, <3>2 DEF n
  <2> QED
    BY <1>3, <2>4, <2>5
<1>9. CASE NullSign(v[n]) = 0
  <2>1. PICK j \in (n + 1) .. Len(v) :
               /\ v[j].kind = "int" /\ v[j].value > 0
               /\ \A k \in (n + 1) .. (j - 1) : v[k].kind = "int" /\ v[k].value = 0
    BY <1>1, <1>3, <1>9, AfterNull
  <2>2. NullSign(v[j]) = 1
    <3>1. v[j].value \in Int
      <4>1. j \in DOMAIN v
        BY <1>0, <1>1
      <4> QED
        BY <4>1, MavenVersionsAre
    <3> QED
      BY <2>1, <3>1 DEF NullSign, Sign
  <2>3. j \in S
    BY <1>0, <1>1, <2>2
  <2>4. \A k \in i .. (j - 1) : NullSign(v[k]) = 0
    <3> SUFFICES ASSUME NEW k \in i .. (j - 1) PROVE NullSign(v[k]) = 0
      OBVIOUS
    <3>1. k = i \/ k = n \/ k \in (n + 1) .. (j - 1)
      BY <1>0, <1>1
    <3>2. CASE k \in (n + 1) .. (j - 1)
      BY <2>1, <3>2 DEF NullSign, Sign
    <3> QED
      BY <1>5, <1>9, <3>1, <3>2
  <2>5. m = j
    <3>1. m \in S /\ m <= j
      BY <1>7, <2>3
    <3>2. m \in i .. Len(v) /\ NullSign(v[m]) # 0
      BY <3>1
    <3>3. ~(m < j)
      BY <1>0, <1>1, <2>4, <3>2
    <3> QED
      BY <1>0, <1>1, <3>1, <3>2, <3>3
  <2>6. NullOrder(v, i) = 1
    <3> HIDE DEF S
    <3> QED
      BY <1>2, <2>2, <2>3, <2>5
  <2>7. v[n].kind = "int" \/ (v[n].kind = "str" /\ v[n].value >= ReleaseIndex)
    BY <1>3, <1>9 DEF NullSign, Sign, ReleaseIndex
  <2> QED
    BY <1>1, <1>3, <2>6, <2>7 DEF n
<1> QED
  BY <1>8, <1>9

\* What the key of each kind of item is.
LEMMA ClassIs ==
    ASSUME NEW v, IsMaven(v), NEW i \in Nat
    PROVE  /\ Class(v, i) \in 0 .. 5 /\ ValueAt(v, i) \in Int
           /\ i \notin DOMAIN v => Class(v, i) = 2 /\ ValueAt(v, i) = 0
           /\ i \in DOMAIN v =>
                /\ ValueAt(v, i) = v[i].value
                /\ v[i].kind = "int" => Class(v, i) = 5
                /\ v[i].kind = "list" => Class(v, i) = IF NullOrder(v, i) = -1 THEN 1 ELSE 4
                /\ v[i].kind = "str" => Class(v, i) = IF v[i].value < ReleaseIndex THEN 0 ELSE 3
<1>1. CASE i \notin DOMAIN v
  <2>1. Class(v, i) = 2 /\ ValueAt(v, i) = 0
    BY <1>1 DEF Class, ValueAt
  <2> QED
    BY <1>1, <2>1
<1>2. CASE i \in DOMAIN v
  <2>1. v[i].kind \in {"int", "str", "list"} /\ v[i].value \in Int
    BY <1>2, MavenVersionsAre
  <2>2. ValueAt(v, i) = v[i].value
    BY <1>2 DEF ValueAt
  <2>3. CASE v[i].kind = "int"
    <3>1. Class(v, i) = 5
      BY <1>2, <2>3 DEF Class
    <3> QED
      BY <1>2, <2>1, <2>2, <2>3, <3>1
  <2>4. CASE v[i].kind = "list"
    <3>1. NullOrder(v, i) \in {-1, 1}
      BY <1>2, <2>4, ListIs
    <3>2. Class(v, i) = IF NullOrder(v, i) < 0 THEN 1 ELSE 4
      BY <1>2, <2>4 DEF Class
    <3>3. Class(v, i) = IF NullOrder(v, i) = -1 THEN 1 ELSE 4
      BY <3>1, <3>2
    <3> QED
      BY <1>2, <2>1, <2>2, <2>4, <3>3
  <2>5. CASE v[i].kind = "str"
    <3>1. Class(v, i) = IF v[i].value < ReleaseIndex THEN 0 ELSE 3
      BY <1>2, <2>5 DEF Class
    <3> QED
      BY <1>2, <2>1, <2>2, <2>5, <3>1
  <2> QED
    BY <2>1, <2>3, <2>4, <2>5
<1> QED
  BY <1>1, <1>2

\* Places that tie are of one kind.
LEMMA TiedPlaces ==
    ASSUME NEW a, NEW b, IsMaven(a), IsMaven(b), NEW i \in Nat,
           Class(a, i) = Class(b, i), ValueAt(a, i) = ValueAt(b, i)
    PROVE  /\ i \in DOMAIN a <=> i \in DOMAIN b
           /\ i \in DOMAIN a => a[i].kind = b[i].kind /\ ItemOrder(a, b, i) = 0
<1>1. /\ i \in DOMAIN a => a[i].kind \in {"int", "str", "list"} /\ a[i].value \in Int
      /\ i \in DOMAIN b => b[i].kind \in {"int", "str", "list"} /\ b[i].value \in Int
  BY MavenVersionsAre
<1>2. /\ i \in DOMAIN a <=> Class(a, i) # 2
      /\ i \in DOMAIN b <=> Class(b, i) # 2
  BY <1>1, ClassIs
<1>3. i \in DOMAIN a <=> i \in DOMAIN b
  BY <1>2
<1>4. ASSUME i \in DOMAIN a PROVE a[i].kind = b[i].kind /\ ItemOrder(a, b, i) = 0
  <2>1. i \in DOMAIN b
    BY <1>3, <1>4
  <2>2. a[i].kind = b[i].kind
    BY <1>1, <1>4, <2>1, ClassIs
  <2>3. a[i].value = b[i].value
    BY <1>4, <2>1, ClassIs
  <2>4. ItemOrder(a, b, i) = Sign(a[i].value, b[i].value)
    BY <1>4, <2>1, <2>2, Zenon DEF ItemOrder
  <2> QED
    BY <1>1, <2>1, <2>2, <2>3, <2>4 DEF Sign
<1> QED
  BY <1>3, <1>4

\* The first item that decides.
LEMMA MavenAt ==
    ASSUME NEW a \in Seq(MavenItems), NEW b \in Seq(MavenItems), NEW m \in DOMAIN a \cup DOMAIN b,
           ItemOrder(a, b, m) # 0,
           \A i \in DOMAIN a \cup DOMAIN b : i < m => ItemOrder(a, b, i) = 0
    PROVE  MavenOrder(a, b) = ItemOrder(a, b, m)
<1> DEFINE e == {i \in DOMAIN a \cup DOMAIN b : ItemOrder(a, b, i) # 0}
<1>1. e \in SUBSET Nat /\ m \in e /\ m \in Nat
  OBVIOUS
<1>2. MavenOrder(a, b) = IF e = {} THEN 0 ELSE ItemOrder(a, b, Min(e))
  BY Zenon DEF MavenOrder, First
<1>3. \A i \in e : ~(i < m)
  OBVIOUS
<1> HIDE DEF e
<1>4. Min(e) \in e /\ Min(e) <= m
  BY <1>1, MinIs
<1>5. Min(e) = m
  <2>1. ~(Min(e) < m) /\ Min(e) \in Nat
    BY <1>1, <1>3, <1>4
  <2> QED
    BY <1>1, <1>4, <2>1
<1> QED
  BY <1>1, <1>2, <1>5

\* Versions of which no item decides tie.
LEMMA MavenTie ==
    ASSUME NEW a, NEW b, \A i \in DOMAIN a \cup DOMAIN b : ItemOrder(a, b, i) = 0
    PROVE  MavenOrder(a, b) = 0
<1> DEFINE e == {i \in DOMAIN a \cup DOMAIN b : ItemOrder(a, b, i) # 0}
<1>1. MavenOrder(a, b) = IF e = {} THEN 0 ELSE ItemOrder(a, b, Min(e))
  BY Zenon DEF MavenOrder, First
<1>2. e = {}
  OBVIOUS
<1> QED
  BY <1>1, <1>2, Zenon

\* Where the first version is below the second, for the comparison both ways round.
Decides(a, b, m) ==
    /\ m \in DOMAIN a \cup DOMAIN b
    /\ ItemOrder(a, b, m) = -1 /\ ItemOrder(b, a, m) = 1
    /\ \A i \in DOMAIN a \cup DOMAIN b : i < m => ItemOrder(a, b, i) = 0 /\ ItemOrder(b, a, i) = 0

\* Where both go on.
LEMMA BothGoOn ==
    ASSUME NEW a, NEW b, IsMaven(a), IsMaven(b), NEW n \in DOMAIN a, n \in DOMAIN b,
           \/ a[n].kind = "str" /\ b[n].kind = "str" /\ a[n].value < b[n].value
           \/ a[n].kind = "int" /\ b[n].kind = "int" /\ a[n].value < b[n].value
           \/ a[n].kind \in {"str", "list"} /\ b[n].kind = "int"
    PROVE  ItemOrder(a, b, n) = -1 /\ ItemOrder(b, a, n) = 1
<1>1. a[n].value \in Int /\ b[n].value \in Int
  BY MavenVersionsAre
<1>2. CASE a[n].kind = b[n].kind /\ a[n].value < b[n].value
  <2>1. ItemOrder(a, b, n) = Sign(a[n].value, b[n].value) /\ ItemOrder(b, a, n) = Sign(b[n].value, a[n].value)
    BY <1>2, Zenon DEF ItemOrder
  <2> QED
    BY <1>1, <1>2, <2>1 DEF Sign
<1>3. CASE a[n].kind \in {"str", "list"} /\ b[n].kind = "int"
  <2>1. a[n].kind # b[n].kind
    BY <1>3
  <2>2. /\ ItemOrder(a, b, n) = Sign(Rank(a[n]), Rank(b[n]))
        /\ ItemOrder(b, a, n) = Sign(Rank(b[n]), Rank(a[n]))
    BY <2>1, Zenon DEF ItemOrder
  <2>3. Rank(b[n]) = 2 /\ Rank(a[n]) \in {0, 1}
    BY <1>3 DEF Rank
  <2> QED
    BY <2>2, <2>3 DEF Sign
<1> QED
  BY <1>2, <1>3

\* Where one has ended.
LEMMA OneHasEnded ==
    ASSUME NEW a, NEW b, IsMaven(a), IsMaven(b), NEW n \in DOMAIN b, n \notin DOMAIN a,
           NullOrder(b, n) \in {-1, 0, 1}
    PROVE  ItemOrder(b, a, n) = NullOrder(b, n) /\ ItemOrder(a, b, n) = 0 - NullOrder(b, n)
<1>1. ItemOrder(b, a, n) = NullOrder(b, n) /\ ItemOrder(a, b, n) = -NullOrder(b, n)
  BY Zenon DEF ItemOrder
<1>2. \A k \in Int : -k = 0 - k
  OBVIOUS
<1>3. NullOrder(b, n) \in Int
  OBVIOUS
<1> QED
  BY <1>1, <1>2, <1>3, Zenon

\* Before the first place that differs, no item decides.
LEMMA BeforeTies ==
    ASSUME NEW a, NEW b, IsMaven(a), IsMaven(b), NEW n \in Nat,
           \A i \in Nat : i < n => Class(a, i) = Class(b, i) /\ ValueAt(a, i) = ValueAt(b, i)
    PROVE  \A i \in DOMAIN a \cup DOMAIN b : i < n => ItemOrder(a, b, i) = 0 /\ ItemOrder(b, a, i) = 0
<1> SUFFICES ASSUME NEW i \in DOMAIN a \cup DOMAIN b, i < n
             PROVE  ItemOrder(a, b, i) = 0 /\ ItemOrder(b, a, i) = 0
  OBVIOUS
<1>1. i \in Nat
  BY MavenVersionsAre
<1>2. Class(a, i) = Class(b, i) /\ ValueAt(a, i) = ValueAt(b, i)
  BY <1>1
<1>3. /\ i \in DOMAIN a <=> i \in DOMAIN b
      /\ i \in DOMAIN a => ItemOrder(a, b, i) = 0
  BY <1>1, <1>2, TiedPlaces
<1>4. i \in DOMAIN b => ItemOrder(b, a, i) = 0
  BY <1>1, <1>2, TiedPlaces
<1> QED
  BY <1>3, <1>4

\* Lists open at the same places, so that no list meets a word.
LEMMA NoListMeetsAWord ==
    ASSUME NEW a, NEW b, IsMaven(a), IsMaven(b), NEW n \in DOMAIN a, n \in DOMAIN b,
           \A i \in Nat : i < n => Class(a, i) = Class(b, i) /\ ValueAt(a, i) = ValueAt(b, i)
    PROVE  ~(a[n].kind = "str" /\ b[n].kind = "list")
<1> SUFFICES ASSUME a[n].kind = "str", b[n].kind = "list" PROVE FALSE
  OBVIOUS
<1>1. n = 1 \/ a[n - 1].kind = "list"
  BY MavenVersionsAre
<1>2. n > 1 /\ b[n - 1].kind # "list"
  BY MavenVersionsAre
<1>3. n \in Nat /\ n - 1 \in Nat /\ n - 1 < n /\ n - 1 \in DOMAIN a
  BY <1>2, MavenVersionsAre
<1> DEFINE i == n - 1
<1>4. Class(a, i) = Class(b, i) /\ ValueAt(a, i) = ValueAt(b, i)
  BY <1>3
<1>5. i \in Nat /\ i \in DOMAIN a /\ a[i].kind = "list" /\ b[i].kind # "list"
  BY <1>1, <1>2, <1>3
<1> HIDE DEF i
<1>6. a[i].kind = b[i].kind
  BY <1>4, <1>5, TiedPlaces
<1> QED
  BY <1>5, <1>6

\* A lower key where both go on decides there, or right after two lists that open.
LEMMA BelowWhereBothGoOn ==
    ASSUME NEW a, NEW b, IsMaven(a), IsMaven(b), NEW n \in DOMAIN a, n \in DOMAIN b,
           \A i \in Nat : i < n => Class(a, i) = Class(b, i) /\ ValueAt(a, i) = ValueAt(b, i),
           \/ Class(a, n) < Class(b, n)
           \/ Class(a, n) = Class(b, n) /\ ValueAt(a, n) < ValueAt(b, n)
    PROVE  \E m \in Nat : Decides(a, b, m)
<1>0. n \in Nat /\ n + 1 \in Nat /\ DOMAIN a \subseteq Nat /\ DOMAIN b \subseteq Nat
  BY MavenVersionsAre
<1>1. /\ a[n].kind \in {"int", "str", "list"} /\ a[n].value \in Int
      /\ b[n].kind \in {"int", "str", "list"} /\ b[n].value \in Int
  BY MavenVersionsAre
<1>2. /\ ValueAt(a, n) = a[n].value
      /\ a[n].kind = "int" => Class(a, n) = 5
      /\ a[n].kind = "list" => Class(a, n) = IF NullOrder(a, n) = -1 THEN 1 ELSE 4
      /\ a[n].kind = "str" => Class(a, n) = IF a[n].value < ReleaseIndex THEN 0 ELSE 3
  BY <1>0, ClassIs
<1>3. /\ ValueAt(b, n) = b[n].value
      /\ b[n].kind = "int" => Class(b, n) = 5
      /\ b[n].kind = "list" => Class(b, n) = IF NullOrder(b, n) = -1 THEN 1 ELSE 4
      /\ b[n].kind = "str" => Class(b, n) = IF b[n].value < ReleaseIndex THEN 0 ELSE 3
  BY <1>0, ClassIs
<1>4. \A i \in DOMAIN a \cup DOMAIN b : i < n => ItemOrder(a, b, i) = 0 /\ ItemOrder(b, a, i) = 0
  BY <1>0, BeforeTies
<1>5. ~(a[n].kind = "str" /\ b[n].kind = "list") /\ ~(a[n].kind = "list" /\ b[n].kind = "str")
  <2>1. ~(a[n].kind = "str" /\ b[n].kind = "list")
    BY NoListMeetsAWord
  <2>2. \A i \in Nat : i < n => Class(b, i) = Class(a, i) /\ ValueAt(b, i) = ValueAt(a, i)
    OBVIOUS
  <2>3. ~(b[n].kind = "str" /\ a[n].kind = "list")
    BY <2>2, NoListMeetsAWord
  <2> QED
    BY <2>1, <2>3
<1>6. CASE ItemOrder(a, b, n) = -1 /\ ItemOrder(b, a, n) = 1
  BY <1>0, <1>4, <1>6 DEF Decides
<1>7. CASE a[n].kind = "list" /\ b[n].kind = "list"
  <2>1. a[n].value = 0 /\ b[n].value = 0
    BY <1>7, MavenVersionsAre
  <2>2. NullOrder(a, n) = -1 /\ NullOrder(b, n) = 1
    <3>1. Class(a, n) \in {1, 4} /\ Class(b, n) \in {1, 4}
      BY <1>2, <1>3, <1>7
    <3>2. Class(a, n) = 1 /\ Class(b, n) = 4
      BY <1>2, <1>3, <2>1, <3>1
    <3>3. NullOrder(a, n) \in {-1, 1} /\ NullOrder(b, n) \in {-1, 1}
      BY <1>7, ListIs
    <3> QED
      BY <1>2, <1>3, <1>7, <3>2, <3>3
  <2> DEFINE m == n + 1
  <2>3. /\ m \in DOMAIN a /\ a[m].kind = "str" /\ a[m].value < ReleaseIndex
        /\ m \in DOMAIN b /\ (b[m].kind = "int" \/ (b[m].kind = "str" /\ b[m].value >= ReleaseIndex))
    BY <1>7, <2>2, ListIs
  <2>4. \A i \in DOMAIN a \cup DOMAIN b : i < m => i < n \/ i = n
    BY <1>0
  <2>5. m \in Nat
    BY <1>0
  <2> HIDE DEF m
  <2>6. a[m].value \in Int /\ b[m].value \in Int
    BY <2>3, MavenVersionsAre
  <2>7. b[m].kind = "str" => a[m].value < b[m].value
    BY <2>3, <2>6 DEF ReleaseIndex
  <2>8. ItemOrder(a, b, m) = -1 /\ ItemOrder(b, a, m) = 1
    BY <2>3, <2>7, BothGoOn
  <2>9. ItemOrder(a, b, n) = 0 /\ ItemOrder(b, a, n) = 0
    <3>1. /\ ItemOrder(a, b, n) = Sign(a[n].value, b[n].value)
          /\ ItemOrder(b, a, n) = Sign(b[n].value, a[n].value)
      BY <1>7, Zenon DEF ItemOrder
    <3> QED
      BY <2>1, <3>1 DEF Sign
  <2>10. \A i \in DOMAIN a \cup DOMAIN b : i < m => ItemOrder(a, b, i) = 0 /\ ItemOrder(b, a, i) = 0
    BY <1>4, <2>4, <2>9
  <2> QED
    BY <2>3, <2>5, <2>8, <2>10 DEF Decides
<1>8. CASE ~(a[n].kind = "list" /\ b[n].kind = "list")
  <2>1. \/ a[n].kind = "str" /\ b[n].kind = "str" /\ a[n].value < b[n].value
        \/ a[n].kind = "int" /\ b[n].kind = "int" /\ a[n].value < b[n].value
        \/ a[n].kind \in {"str", "list"} /\ b[n].kind = "int"
    <3>1. CASE a[n].kind = "int"
      <4>1. Class(a, n) = 5
        BY <1>2, <3>1
      <4>2. Class(b, n) \in 0 .. 5
        BY <1>0, ClassIs
      <4>3. Class(b, n) = 5 /\ ValueAt(a, n) < ValueAt(b, n)
        BY <4>1, <4>2
      <4>4. b[n].kind = "int"
        BY <1>1, <1>3, <4>3
      <4> QED
        BY <1>2, <1>3, <3>1, <4>3, <4>4
    <3>2. CASE a[n].kind = "str" /\ b[n].kind = "str"
      BY <1>1, <1>2, <1>3, <3>2 DEF ReleaseIndex
    <3> QED
      BY <1>1, <1>5, <1>8, <3>1, <3>2
  <2>2. ItemOrder(a, b, n) = -1 /\ ItemOrder(b, a, n) = 1
    BY <2>1, BothGoOn
  <2> QED
    BY <1>6, <2>2
<1> QED
  BY <1>7, <1>8

\* What an item is against null (cmp_item, maven/version.rs:209).
LEMMA NullOrderIs ==
    ASSUME NEW v, IsMaven(v), NEW i \in DOMAIN v
    PROVE  /\ NullOrder(v, i) \in {-1, 0, 1}
           /\ v[i].kind = "str" => NullOrder(v, i) = Sign(v[i].value, ReleaseIndex)
           /\ v[i].kind = "int" => NullOrder(v, i) = Sign(v[i].value, 0)
           /\ v[i].kind # "list" => NullOrder(v, i) = NullSign(v[i])
<1>1. v[i].kind \in {"int", "str", "list"} /\ v[i].value \in Int
  BY MavenVersionsAre
<1>2. CASE v[i].kind = "list"
  <2>1. NullOrder(v, i) \in {-1, 1}
    BY <1>2, ListIs
  <2> QED
    BY <1>2, <2>1
<1>3. CASE v[i].kind # "list"
  <2>1. NullOrder(v, i) = NullSign(v[i])
    BY <1>3, Zenon DEF NullOrder
  <2>2. /\ v[i].kind = "str" => NullSign(v[i]) = Sign(v[i].value, ReleaseIndex)
        /\ v[i].kind = "int" => NullSign(v[i]) = Sign(v[i].value, 0)
    BY DEF NullSign
  <2>3. Sign(v[i].value, ReleaseIndex) \in {-1, 0, 1} /\ Sign(v[i].value, 0) \in {-1, 0, 1}
    BY DEF Sign
  <2> QED
    BY <1>1, <1>3, <2>1, <2>2, <2>3
<1> QED
  BY <1>2, <1>3

\* The first has ended: what the second goes on with is above null, there or after nulls.
LEMMA BelowWhereFirstEnds ==
    ASSUME NEW a, NEW b, IsMaven(a), IsMaven(b), NEW n \in DOMAIN b, n \notin DOMAIN a,
           \A i \in Nat : i < n => Class(a, i) = Class(b, i) /\ ValueAt(a, i) = ValueAt(b, i),
           Class(b, n) > 2
    PROVE  \E m \in Nat : Decides(a, b, m)
<1>0. /\ n \in Nat /\ DOMAIN a \subseteq Nat /\ DOMAIN b \subseteq Nat
      /\ Len(a) \in Nat /\ DOMAIN a = 1 .. Len(a) /\ Len(b) \in Nat /\ DOMAIN b = 1 .. Len(b)
  BY MavenVersionsAre
<1>1. b[n].kind \in {"int", "str", "list"} /\ b[n].value \in Int /\ (b[n].kind = "int" => b[n].value >= 0)
  BY MavenVersionsAre
<1>2. /\ b[n].kind = "list" => Class(b, n) = IF NullOrder(b, n) = -1 THEN 1 ELSE 4
      /\ b[n].kind = "str" => Class(b, n) = IF b[n].value < ReleaseIndex THEN 0 ELSE 3
  BY <1>0, ClassIs
<1>3. \A i \in DOMAIN a \cup DOMAIN b : i < n => ItemOrder(a, b, i) = 0 /\ ItemOrder(b, a, i) = 0
  BY <1>0, BeforeTies
<1>4. NullOrder(b, n) \in {-1, 0, 1}
  BY NullOrderIs
<1>5. CASE NullOrder(b, n) = 1
  <2>1. ItemOrder(b, a, n) = 1 /\ ItemOrder(a, b, n) = -1
    <3>1. ItemOrder(b, a, n) = NullOrder(b, n) /\ ItemOrder(a, b, n) = 0 - NullOrder(b, n)
      BY <1>4, OneHasEnded
    <3> QED
      BY <1>5, <3>1
  <2> QED
    BY <1>0, <1>3, <2>1 DEF Decides
<1>6. CASE NullOrder(b, n) # 1
  <2>1. b[n].kind # "list"
    <3>1. b[n].kind = "list" => NullOrder(b, n) = -1
      BY <1>6, ListIs
    <3> QED
      BY <1>2, <3>1
  <2>2. NullSign(b[n]) = 0 /\ NullOrder(b, n) = 0
    <3>1. CASE b[n].kind = "str"
      <4>1. NullOrder(b, n) = Sign(b[n].value, ReleaseIndex) /\ NullOrder(b, n) = NullSign(b[n])
        BY <2>1, <3>1, NullOrderIs
      <4>2. ~(b[n].value < ReleaseIndex)
        BY <1>2, <3>1
      <4> QED
        BY <1>1, <1>6, <4>1, <4>2 DEF Sign, ReleaseIndex
    <3>2. CASE b[n].kind = "int"
      <4>1. NullOrder(b, n) = Sign(b[n].value, 0) /\ NullOrder(b, n) = NullSign(b[n])
        BY <2>1, <3>2, NullOrderIs
      <4> QED
        BY <1>1, <1>6, <3>2, <4>1 DEF Sign
    <3> QED
      BY <1>1, <2>1, <3>1, <3>2
  <2>3. PICK j \in (n + 1) .. Len(b) :
               /\ b[j].kind = "int" /\ b[j].value > 0
               /\ \A k \in (n + 1) .. (j - 1) : b[k].kind = "int" /\ b[k].value = 0
    BY <2>1, <2>2, AfterNull
  <2>4. j \in Nat /\ j \in DOMAIN b /\ n < j
    BY <1>0
  <2>5. \A k \in DOMAIN b : k >= n => k \notin DOMAIN a
    BY <1>0
  <2>6. ItemOrder(b, a, j) = 1 /\ ItemOrder(a, b, j) = -1
    <3>1. b[j].value \in Int
      BY <2>4, MavenVersionsAre
    <3>2. NullOrder(b, j) = Sign(b[j].value, 0)
      BY <2>3, <2>4, NullOrderIs
    <3>3. NullOrder(b, j) = 1
      BY <2>3, <3>1, <3>2 DEF Sign
    <3>4. j \notin DOMAIN a
      BY <1>0, <2>4, <2>5
    <3>5. ItemOrder(b, a, j) = NullOrder(b, j) /\ ItemOrder(a, b, j) = 0 - NullOrder(b, j)
      BY <2>4, <3>3, <3>4, OneHasEnded
    <3> QED
      BY <3>3, <3>5
  <2>7. ASSUME NEW i \in DOMAIN a \cup DOMAIN b, i < j
        PROVE  ItemOrder(a, b, i) = 0 /\ ItemOrder(b, a, i) = 0
    <3>1. CASE i < n
      BY <1>3, <3>1
    <3>2. CASE ~(i < n)
      <4>1. i \in Nat /\ i \in DOMAIN b /\ i \notin DOMAIN a
        BY <1>0, <2>4, <2>7, <3>2
      <4>2. NullOrder(b, i) = 0
        <5>1. CASE i = n
          BY <2>2, <5>1
        <5>2. CASE i # n
          <6>1. i \in (n + 1) .. (j - 1)
            BY <1>0, <2>4, <2>7, <3>2, <4>1, <5>2
          <6>2. b[i].kind = "int" /\ b[i].value = 0
            BY <2>3, <6>1
          <6>3. NullOrder(b, i) = Sign(b[i].value, 0)
            BY <4>1, <6>2, NullOrderIs
          <6> QED
            BY <6>2, <6>3 DEF Sign
        <5> QED
          BY <5>1, <5>2
      <4>3. ItemOrder(b, a, i) = NullOrder(b, i) /\ ItemOrder(a, b, i) = 0 - NullOrder(b, i)
        BY <4>1, <4>2, OneHasEnded
      <4> QED
        BY <4>2, <4>3
    <3> QED
      BY <3>1, <3>2
  <2> QED
    BY <2>4, <2>6, <2>7 DEF Decides
<1> QED
  BY <1>5, <1>6

\* The second has ended: what the first goes on with is below null.
LEMMA BelowWhereSecondEnds ==
    ASSUME NEW a, NEW b, IsMaven(a), IsMaven(b), NEW n \in DOMAIN a, n \notin DOMAIN b,
           \A i \in Nat : i < n => Class(a, i) = Class(b, i) /\ ValueAt(a, i) = ValueAt(b, i),
           Class(a, n) < 2
    PROVE  \E m \in Nat : Decides(a, b, m)
<1>0. n \in Nat
  BY MavenVersionsAre
<1>1. a[n].kind \in {"int", "str", "list"} /\ a[n].value \in Int
  BY MavenVersionsAre
<1>2. /\ a[n].kind = "int" => Class(a, n) = 5
      /\ a[n].kind = "list" => Class(a, n) = IF NullOrder(a, n) = -1 THEN 1 ELSE 4
      /\ a[n].kind = "str" => Class(a, n) = IF a[n].value < ReleaseIndex THEN 0 ELSE 3
  BY <1>0, ClassIs
<1>3. \A i \in DOMAIN a \cup DOMAIN b : i < n => ItemOrder(a, b, i) = 0 /\ ItemOrder(b, a, i) = 0
  BY <1>0, BeforeTies
<1>4. NullOrder(a, n) = -1
  <2>1. CASE a[n].kind = "list"
    BY <1>2, <2>1
  <2>2. CASE a[n].kind = "str"
    <3>1. NullOrder(a, n) = Sign(a[n].value, ReleaseIndex)
      BY <2>2, NullOrderIs
    <3>2. a[n].value < ReleaseIndex
      BY <1>2, <2>2
    <3> QED
      BY <1>1, <3>1, <3>2 DEF Sign, ReleaseIndex
  <2> QED
    BY <1>1, <1>2, <2>1, <2>2
<1>5. ItemOrder(a, b, n) = -1 /\ ItemOrder(b, a, n) = 1
  <2>1. ItemOrder(a, b, n) = NullOrder(a, n) /\ ItemOrder(b, a, n) = 0 - NullOrder(a, n)
    BY <1>4, OneHasEnded
  <2> QED
    BY <1>4, <2>1
<1> QED
  BY <1>0, <1>3, <1>5 DEF Decides

\* A version whose first place that differs is below is below.
LEMMA MavenBelow ==
    ASSUME NEW a, NEW b, IsMaven(a), IsMaven(b), NEW n \in Nat,
           \A i \in Nat : i < n => Class(a, i) = Class(b, i) /\ ValueAt(a, i) = ValueAt(b, i),
           \/ Class(a, n) < Class(b, n)
           \/ Class(a, n) = Class(b, n) /\ ValueAt(a, n) < ValueAt(b, n)
    PROVE  MavenOrder(a, b) = -1 /\ MavenOrder(b, a) = 1
<1>1. /\ Class(a, n) \in 0 .. 5 /\ Class(b, n) \in 0 .. 5
      /\ n \notin DOMAIN a => Class(a, n) = 2 /\ ValueAt(a, n) = 0
      /\ n \notin DOMAIN b => Class(b, n) = 2 /\ ValueAt(b, n) = 0
  BY ClassIs
<1>2. \E m \in Nat : Decides(a, b, m)
  <2>1. CASE n \in DOMAIN a /\ n \in DOMAIN b
    BY <2>1, BelowWhereBothGoOn
  <2>2. CASE n \notin DOMAIN a /\ n \in DOMAIN b
    <3>1. Class(b, n) > 2
      <4>1. Class(b, n) # 2
        <5>1. b[n].kind \in {"int", "str", "list"}
          BY <2>2, MavenVersionsAre
        <5> QED
          BY <2>2, <5>1, ClassIs
      <4> QED
        BY <1>1, <2>2, <4>1
    <3> QED
      BY <2>2, <3>1, BelowWhereFirstEnds
  <2>3. CASE n \in DOMAIN a /\ n \notin DOMAIN b
    <3>1. Class(a, n) < 2
      <4>1. Class(a, n) # 2
        <5>1. a[n].kind \in {"int", "str", "list"}
          BY <2>3, MavenVersionsAre
        <5> QED
          BY <2>3, <5>1, ClassIs
      <4> QED
        BY <1>1, <2>3, <4>1
    <3> QED
      BY <2>3, <3>1, BelowWhereSecondEnds
  <2>4. CASE n \notin DOMAIN a /\ n \notin DOMAIN b
    BY <1>1, <2>4
  <2> QED
    BY <2>1, <2>2, <2>3, <2>4
<1>3. PICK m \in Nat : Decides(a, b, m)
  BY <1>2
<1>4. a \in Seq(MavenItems) /\ b \in Seq(MavenItems)
  BY MavenVersionsAre
<1>5. /\ m \in DOMAIN a \cup DOMAIN b
      /\ ItemOrder(a, b, m) = -1 /\ ItemOrder(b, a, m) = 1
      /\ \A i \in DOMAIN a \cup DOMAIN b : i < m => ItemOrder(a, b, i) = 0 /\ ItemOrder(b, a, i) = 0
  BY <1>3 DEF Decides
<1>6. MavenOrder(a, b) = ItemOrder(a, b, m)
  BY <1>4, <1>5, MavenAt
<1>7. MavenOrder(b, a) = ItemOrder(b, a, m)
  BY <1>4, <1>5, MavenAt
<1> QED
  BY <1>5, <1>6, <1>7

MavenVersions == {v \in Seq(MavenItems) : IsMaven(v)}
MavenKeys == [v \in MavenVersions |-> KeysOf(v)]
MavenCompare == Pulled(MavenVersions, Lex(Keys, KeyCompare), MavenKeys)

\* The keys of a version are a stream.
LEMMA KeysAre ==
    ASSUME NEW v, IsMaven(v)
    PROVE  KeysOf(v) \in [Nat -> Keys] /\ \A i \in Nat : KeysOf(v)[i] = <<Class(v, i), ValueAt(v, i)>>
<1>1. \A i \in Nat : <<Class(v, i), ValueAt(v, i)>> \in Keys
  <2> SUFFICES ASSUME NEW i \in Nat PROVE <<Class(v, i), ValueAt(v, i)>> \in Keys
    OBVIOUS
  <2>1. Class(v, i) \in 0 .. 5 /\ ValueAt(v, i) \in Int
    BY ClassIs
  <2> QED
    BY <2>1 DEF Keys
<1> QED
  BY <1>1 DEF KeysOf

\* A key that differs after keys that tie decides.
LEMMA KeyLexAt ==
    ASSUME NEW x \in [Nat -> Keys], NEW y \in [Nat -> Keys], NEW n \in Nat,
           KeyCompare[<<x[n], y[n]>>] # 0,
           \A i \in Nat : i < n => KeyCompare[<<x[i], y[i]>>] = 0
    PROVE  Lex(Keys, KeyCompare)[<<x, y>>] = KeyCompare[<<x[n], y[n]>>]
BY LexAt

\* MavenOrder is total: it is the comparison by the first key that differs.
LEMMA MavenOrderIs ==
    /\ Total(MavenVersions, MavenCompare)
    /\ \A a, b \in MavenVersions : MavenOrder(a, b) = MavenCompare[<<a, b>>]
<1>1. \A v \in MavenVersions : MavenKeys[v] \in [Nat -> Keys]
  BY KeysAre DEF MavenVersions, MavenKeys
<1>2. Total([Nat -> Keys], Lex(Keys, KeyCompare))
  BY KeyIsTotal, LexIsTotal
<1>3. Total(MavenVersions, MavenCompare)
  BY <1>1, <1>2, PullIsTotal DEF MavenCompare
<1>4. ASSUME NEW a \in MavenVersions, NEW b \in MavenVersions
      PROVE  MavenOrder(a, b) = MavenCompare[<<a, b>>]
  <2> DEFINE x == KeysOf(a)
             y == KeysOf(b)
             c == KeyCompare
             d == Differ(c, x, y)
             n == Min(d)
  <2>0. IsMaven(a) /\ IsMaven(b)
    BY DEF MavenVersions
  <2>1. MavenCompare[<<a, b>>] = Lex(Keys, c)[<<x, y>>]
    BY DEF MavenCompare, MavenKeys, Pulled
  <2>2. /\ x \in [Nat -> Keys] /\ y \in [Nat -> Keys]
        /\ \A i \in Nat : x[i] = <<Class(a, i), ValueAt(a, i)>> /\ y[i] = <<Class(b, i), ValueAt(b, i)>>
    BY <2>0, KeysAre
  <2>3. \A i \in Nat : /\ Class(a, i) \in Int /\ ValueAt(a, i) \in Int
                       /\ Class(b, i) \in Int /\ ValueAt(b, i) \in Int
    <3>1. \A i \in Nat : /\ Class(a, i) \in 0 .. 5 /\ ValueAt(a, i) \in Int
                         /\ Class(b, i) \in 0 .. 5 /\ ValueAt(b, i) \in Int
      BY <2>0, ClassIs
    <3> QED
      BY <3>1
  <2> HIDE DEF x, y, c
  <2>4. ASSUME NEW i \in Nat
        PROVE  c[<<x[i], y[i]>>] = AndThen(Sign(Class(a, i), Class(b, i)), Sign(ValueAt(a, i), ValueAt(b, i)))
    <3>1. x[i] = <<Class(a, i), ValueAt(a, i)>> /\ y[i] = <<Class(b, i), ValueAt(b, i)>>
      BY <2>2
    <3>2. /\ Class(a, i) \in Int /\ ValueAt(a, i) \in Int
          /\ Class(b, i) \in Int /\ ValueAt(b, i) \in Int
      BY <2>3
    <3>3. c[<< <<Class(a, i), ValueAt(a, i)>>, <<Class(b, i), ValueAt(b, i)>> >>]
            = AndThen(Sign(Class(a, i), Class(b, i)), Sign(ValueAt(a, i), ValueAt(b, i)))
      BY <3>2, KeyAt DEF c
    <3> QED
      BY <3>1, <3>3
  <2>5. \A i \in Nat : c[<<x[i], y[i]>>] = 0 => Class(a, i) = Class(b, i) /\ ValueAt(a, i) = ValueAt(b, i)
    BY <2>3, <2>4 DEF AndThen, Sign
  <2>6. CASE d = {}
    <3>1. \A i \in Nat : Class(a, i) = Class(b, i) /\ ValueAt(a, i) = ValueAt(b, i)
      BY <2>5, <2>6 DEF Differ
    <3>2. \A i \in DOMAIN a \cup DOMAIN b : ItemOrder(a, b, i) = 0
      <4> SUFFICES ASSUME NEW i \in DOMAIN a \cup DOMAIN b PROVE ItemOrder(a, b, i) = 0
        OBVIOUS
      <4>1. i \in Nat
        BY <2>0, MavenVersionsAre
      <4>2. Class(a, i) = Class(b, i) /\ ValueAt(a, i) = ValueAt(b, i)
        BY <3>1, <4>1
      <4>3. /\ i \in DOMAIN a <=> i \in DOMAIN b
            /\ i \in DOMAIN a => ItemOrder(a, b, i) = 0
        BY <2>0, <4>1, <4>2, TiedPlaces
      <4> QED
        BY <4>3
    <3>3. MavenOrder(a, b) = 0
      BY <3>2, MavenTie
    <3>4. Lex(Keys, c)[<<x, y>>] = 0
      BY <2>2, <2>6 DEF Lex
    <3> QED
      BY <2>1, <3>3, <3>4
  <2>7. CASE d # {}
    <3>1. d \in SUBSET Nat
      BY DEF Differ
    <3>2. n \in d /\ \A i \in d : n <= i
      <4> HIDE DEF d
      <4> QED
        BY <2>7, <3>1, MinIs
    <3>3. n \in Nat
      BY <3>1, <3>2
    <3> HIDE DEF n
    <3>4. \A i \in Nat : i < n => ~(n <= i)
      BY <3>3
    <3>5. \A i \in Nat : i < n => i \notin d
      <4> HIDE DEF d
      <4> QED
        BY <3>2, <3>4
    <3>6. c[<<x[n], y[n]>>] # 0 /\ \A i \in Nat : i < n => c[<<x[i], y[i]>>] = 0
      BY <3>2, <3>3, <3>5 DEF Differ
    <3>7. Lex(Keys, c)[<<x, y>>] = c[<<x[n], y[n]>>]
      BY <2>2, <3>3, <3>6, KeyLexAt DEF c
    <3>8. \A i \in Nat : i < n => Class(a, i) = Class(b, i) /\ ValueAt(a, i) = ValueAt(b, i)
      BY <2>5, <3>6
    <3>9. c[<<x[n], y[n]>>]
            = AndThen(Sign(Class(a, n), Class(b, n)), Sign(ValueAt(a, n), ValueAt(b, n)))
      BY <2>4, <3>3
    <3>10. /\ Class(a, n) \in Int /\ ValueAt(a, n) \in Int
           /\ Class(b, n) \in Int /\ ValueAt(b, n) \in Int
      BY <2>3, <3>3
    <3>11. CASE \/ Class(a, n) < Class(b, n)
                \/ Class(a, n) = Class(b, n) /\ ValueAt(a, n) < ValueAt(b, n)
      <4>1. MavenOrder(a, b) = -1
        BY <2>0, <3>3, <3>8, <3>11, MavenBelow
      <4>2. c[<<x[n], y[n]>>] = -1
        BY <3>9, <3>10, <3>11 DEF AndThen, Sign
      <4> QED
        BY <2>1, <3>7, <4>1, <4>2
    <3>12. CASE \/ Class(b, n) < Class(a, n)
                \/ Class(b, n) = Class(a, n) /\ ValueAt(b, n) < ValueAt(a, n)
      <4>1. MavenOrder(a, b) = 1
        BY <2>0, <3>3, <3>8, <3>12, MavenBelow
      <4>2. c[<<x[n], y[n]>>] = 1
        BY <3>9, <3>10, <3>12 DEF AndThen, Sign
      <4> QED
        BY <2>1, <3>7, <4>1, <4>2
    <3> QED
      BY <3>6, <3>9, <3>10, <3>11, <3>12 DEF AndThen, Sign
  <2> QED
    BY <2>6, <2>7
<1> QED
  BY <1>3, <1>4

(***************************************************************************)
(* Every order.                                                             *)
(***************************************************************************)
IsOrdered(order, V) ==
    /\ \A a, b \in V : Order(order, a, b) \in {-1, 0, 1}
    /\ \A a, b \in V : Order(order, a, b) = -Order(order, b, a)
    /\ \A a, b, c \in V : Order(order, a, b) <= 0 /\ Order(order, b, c) <= 0 => Order(order, a, c) <= 0

\* An order that a total comparison makes is one.
LEMMA OrderedBy ==
    ASSUME NEW order, NEW V, NEW c, Total(V, c), \A a, b \in V : Order(order, a, b) = c[<<a, b>>]
    PROVE  IsOrdered(order, V)
<1>1. /\ \A x, y \in V : c[<<x, y>>] = -c[<<y, x>>]
      /\ \A x, y, z \in V : c[<<x, y>>] <= 0 /\ c[<<y, z>>] <= 0 => c[<<x, z>>] <= 0
  BY DEF Total
<1>2. \A x, y \in V : c[<<x, y>>] \in {-1, 0, 1}
  BY TotalIsStrict
<1>3. ASSUME NEW x \in V, NEW y \in V PROVE Order(order, x, y) \in {-1, 0, 1}
  BY <1>2, Zenon
<1>4. ASSUME NEW x \in V, NEW y \in V PROVE Order(order, x, y) = -Order(order, y, x)
  BY <1>1, Zenon
<1>5. ASSUME NEW x \in V, NEW y \in V, NEW z \in V, Order(order, x, y) <= 0, Order(order, y, z) <= 0
      PROVE  Order(order, x, z) <= 0
  <2>1. c[<<x, y>>] <= 0 /\ c[<<y, z>>] <= 0
    BY <1>5, Zenon
  <2>2. c[<<x, z>>] <= 0
    BY <1>1, <2>1, Zenon
  <2> QED
    BY <2>2, Zenon
<1> QED
  BY <1>3, <1>4, <1>5 DEF IsOrdered

\* The order of RubyGems is total.
LEMMA GemIsOrdered == IsOrdered("gem", Seq(Segments))
<1>1. Number(0) \in Segments
  BY DEF Number, Segments
<1>2. Total(Seq(Segments), GemCompare)
  BY <1>1, SegmentOrderIsTotal, SeqLexIsTotal DEF GemCompare
<1>3. \A a, b : Order("gem", a, b) = GemOrder(a, b)
  BY DEF Order
<1> QED
  BY <1>2, <1>3, GemOrderIs, OrderedBy

\* The order of Composer is total.
LEMMA ComposerIsOrdered == IsOrdered("composer", Seq(Tokens))
<1>1. \A a, b : Order("composer", a, b) = ComposerOrder(a, b)
  BY DEF Order
<1> QED
  BY <1>1, ComposerIsTotal, ComposerOrderIs, OrderedBy

\* The order of NuGet is total.
LEMMA NuGetIsOrdered == IsOrdered("nuget", NuGetVersions)
<1> DEFINE V == NuGetVersions
<1>1. \A v \in V : v.nums \in Seq(Nat) /\ v.pre \in Seq(Segments)
  BY DEF NuGetVersions
<1>2. \A a, b : Order("nuget", a, b) = NuGetOrder(a, b)
  BY DEF Order
<1>3. Total(V, NuGetCompare(V)) /\ \A a, b \in V : NuGetOrder(a, b) = NuGetCompare(V)[<<a, b>>]
  BY <1>1, NuGetOrderIs
<1> QED
  BY <1>2, <1>3, OrderedBy

\* The order of Julia is total.
LEMMA JuliaIsOrdered == IsOrdered("julia", JuliaVersions)
<1> DEFINE V == JuliaVersions
<1>1. \A v \in V : v.nums \in Seq(Nat) /\ v.pre \in Seq(Segments) /\ v.build \in Seq(Segments)
  BY DEF JuliaVersions
<1>2. \A a, b : Order("julia", a, b) = JuliaOrder(a, b)
  BY DEF Order
<1>3. Total(V, JuliaCompare(V)) /\ \A a, b \in V : JuliaOrder(a, b) = JuliaCompare(V)[<<a, b>>]
  BY <1>1, JuliaOrderIs
<1> QED
  BY <1>2, <1>3, OrderedBy

\* The order of rpm is total.
LEMMA RpmIsOrdered == IsOrdered("rpm", RpmVersions)
<1>1. \A a, b : Order("rpm", a, b) = RpmOrder(a, b)
  BY DEF Order
<1> QED
  BY <1>1, RpmOrderIs, OrderedBy

\* The order of dpkg is total.
LEMMA DebIsOrdered == IsOrdered("deb", DebVersions)
<1>1. \A a, b : Order("deb", a, b) = DebOrder(a, b)
  BY DEF Order
<1> QED
  BY <1>1, DebOrderIs, OrderedBy

\* The order of apk is total.
LEMMA ApkIsOrdered == IsOrdered("apk", Seq(TypedTokens))
<1>1. Token(Tok.end, 0) \in TypedTokens
  BY DEF Token, Tok, TypedTokens
<1>2. Total(Seq(TypedTokens), ApkCompare)
  BY <1>1, TypedOrderIsTotal, SeqLexIsTotal DEF ApkCompare
<1>3. \A a, b : Order("apk", a, b) = ApkOrder(a, b)
  BY DEF Order
<1> QED
  BY <1>2, <1>3, ApkOrderIs, OrderedBy

\* The order of Maven is total.
LEMMA MavenIsOrdered == IsOrdered("maven", MavenVersions)
<1>1. \A a, b : Order("maven", a, b) = MavenOrder(a, b)
  BY DEF Order
<1> QED
  BY <1>1, MavenOrderIs, OrderedBy

(***************************************************************************)
(* Every order of versions is total, for all the versions it has: asked the *)
(* other way round it answers the opposite, and it is transitive, ties      *)
(* included (the Ord of each ecosystem's versions).                         *)
(***************************************************************************)
THEOREM VersionsAreOrdered ==
    ASSUME NEW order, NEW a, NEW b, NEW c,
           IsVersion(order, a), IsVersion(order, b), IsVersion(order, c)
    PROVE  /\ Order(order, a, b) \in {-1, 0, 1}
           /\ Order(order, a, b) = -Order(order, b, a)
           /\ Order(order, a, b) <= 0 /\ Order(order, b, c) <= 0 => Order(order, a, c) <= 0
<1>1. CASE order = "gem"
  <2>1. a \in Seq(Segments) /\ b \in Seq(Segments) /\ c \in Seq(Segments)
    BY <1>1 DEF IsVersion, IsGem
  <2> QED
    BY <1>1, <2>1, GemIsOrdered DEF IsOrdered
<1>2. CASE order = "composer"
  <2>1. IsComposer(a) /\ IsComposer(b) /\ IsComposer(c)
    BY <1>2 DEF IsVersion
  <2>2. a \in Seq(Tokens) /\ b \in Seq(Tokens) /\ c \in Seq(Tokens)
    BY <2>1, ComposerVersionsAre
  <2> QED
    BY <1>2, <2>2, ComposerIsOrdered DEF IsOrdered
<1>3. CASE order = "nuget"
  <2>1. a \in NuGetVersions /\ b \in NuGetVersions /\ c \in NuGetVersions
    BY <1>3 DEF IsVersion
  <2> QED
    BY <1>3, <2>1, NuGetIsOrdered DEF IsOrdered
<1>4. CASE order = "julia"
  <2>1. a \in JuliaVersions /\ b \in JuliaVersions /\ c \in JuliaVersions
    BY <1>4 DEF IsVersion
  <2> QED
    BY <1>4, <2>1, JuliaIsOrdered DEF IsOrdered
<1>5. CASE order = "rpm"
  <2>1. IsRpm(a) /\ IsRpm(b) /\ IsRpm(c)
    BY <1>5 DEF IsVersion
  <2>2. a \in RpmVersions /\ b \in RpmVersions /\ c \in RpmVersions
    BY <2>1 DEF IsRpm, RpmVersions
  <2> QED
    BY <1>5, <2>2, RpmIsOrdered DEF IsOrdered
<1>6. CASE order = "deb"
  <2>1. a \in DebVersions /\ b \in DebVersions /\ c \in DebVersions
    BY <1>6 DEF IsVersion
  <2> QED
    BY <1>6, <2>1, DebIsOrdered DEF IsOrdered
<1>7. CASE order = "apk"
  <2>1. a \in Seq(TypedTokens) /\ b \in Seq(TypedTokens) /\ c \in Seq(TypedTokens)
    BY <1>7 DEF IsVersion, ApkVersions, TypedTokens
  <2> QED
    BY <1>7, <2>1, ApkIsOrdered DEF IsOrdered
<1>8. CASE order = "maven"
  <2>1. IsMaven(a) /\ IsMaven(b) /\ IsMaven(c)
    BY <1>8 DEF IsVersion
  <2>2. a \in MavenVersions /\ b \in MavenVersions /\ c \in MavenVersions
    BY <2>1 DEF IsMaven, MavenVersions
  <2> QED
    BY <1>8, <2>2, MavenIsOrdered DEF IsOrdered
<1>9. order \in {"gem", "composer", "nuget", "julia", "rpm", "deb", "apk", "maven"}
  BY DEF IsVersion
<1> QED
  BY <1>1, <1>2, <1>3, <1>4, <1>5, <1>6, <1>7, <1>8, <1>9

(***************************************************************************)
(* OrdersAreTotal, for every sample of versions: the orders are total, gem  *)
(* versions that tie are equal, and Composer's introduced bounds are open   *)
(* upwards, the prereleases that a release's bound takes in included.       *)
(***************************************************************************)
THEOREM VersionOrdersAreTotal ==
    ASSUME case.of = "versions" => /\ case.order \in DOMAIN Sample
                                   /\ case.left \in Sample[case.order]
                                   /\ case.right \in Sample[case.order]
    PROVE  OrdersAreTotal
<1> SUFFICES ASSUME case.of = "versions" PROVE OrdersAreTotal
  BY DEF OrdersAreTotal
<1> DEFINE order == case.order
           a == case.left
           b == case.right
<1>1. /\ \A c \in Sample[order] : IsVersion(order, c)
      /\ IsVersion(order, a) /\ IsVersion(order, b)
  BY SampleAssumption
<1> HIDE DEF order, a, b
<1>2. Order(order, a, b) = -Order(order, b, a) /\ Order(order, a, b) \in {-1, 0, 1}
  BY <1>1, VersionsAreOrdered
<1>3. ASSUME Order(order, a, b) <= 0, NEW c \in Sample[order], Order(order, b, c) <= 0
      PROVE  Order(order, a, c) <= 0
  BY <1>1, <1>3, VersionsAreOrdered
<1>4. ASSUME Order(order, a, b) <= 0, NEW c \in Sample[order], order = "composer",
             IsPrerelease(c) \/ FirstWord(c) > Len(c), AtOrAfterIntroduced(a, c)
      PROVE  AtOrAfterIntroduced(b, c)
  <2>1. IsComposer(a) /\ IsComposer(b) /\ IsComposer(c)
    BY <1>1, <1>4 DEF IsVersion
  <2>2. ComposerOrder(a, b) <= 0
    BY <1>4 DEF Order
  <2> QED
    BY <1>4, <2>1, <2>2, IntroducedIsOpenUpwards
<1>5. ASSUME order = "gem" PROVE (Order(order, a, b) = 0) = (a = b)
  <2>1. IsGem(a) /\ IsGem(b)
    BY <1>1, <1>5 DEF IsVersion
  <2>2. Order(order, a, b) = GemOrder(a, b)
    BY <1>5 DEF Order
  <2>3. GemOrder(a, b) = 0 => a = b
    BY <2>1, GemTies
  <2>4. a = b => Order(order, a, b) = 0
    <3>1. \A k \in Int : k = -k => k = 0
      OBVIOUS
    <3>2. a = b => Order(order, a, b) = -Order(order, a, b)
      BY <1>2
    <3>3. Order(order, a, b) \in Int
      BY <1>2
    <3> QED
      BY <3>1, <3>2, <3>3
  <2> QED
    BY <2>2, <2>3, <2>4, Zenon
<1> QED
  BY <1>2, <1>3, <1>4, <1>5, Zenon DEF OrdersAreTotal, order, a, b
=============================================================================
