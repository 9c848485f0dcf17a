------------------------------ MODULE FixPlan ------------------------------
(***************************************************************************)
(* `fix plan`: from the findings on one package to an edit per repo         *)
(* (crates/core/src/remediation.rs, build_plan in crates/cli/src/fix.rs and *)
(* crates/cli/src/fix_targets.rs).                                          *)
(*                                                                          *)
(* A situation s holds the package's advisories by id, each with ranges     *)
(* (OsvRanges) and versions it lists one by one; the fleet's copies, each   *)
(* in a repo at a version; the advisories whose function is soundly         *)
(* unreachable (dead); and whether breaking upgrades were asked for.        *)
(*                                                                          *)
(* Abstracted: one package of an ecosystem `fix apply` can bump, releases   *)
(* only, no malware.  Severity, risk and fleet evidence label an edit and   *)
(* decide nothing.                                                          *)
(***************************************************************************)
EXTENDS Cases, OsvRanges

CONSTANT LineSize    \* how many versions share a compatibility line
ASSUME LineSizeAssumption == LineSize \in Nat \ {0}

Line(v) == v \div LineSize

(***************************************************************************)
(* The findings.                                                            *)
(***************************************************************************)
Ids(s) == DOMAIN s.advisories
Hits(s, id, v) ==
    Affected(s.advisories[id].ranges, v) \/ v \in s.advisories[id].versions
Occurrences(s, ids) == {c \in s.fleet : \E id \in ids : Hits(s, id, c.version)}
Installed(s, ids) == {c.version : c \in Occurrences(s, ids)}
Findings(s) == {id \in Ids(s) : Occurrences(s, {id}) # {}}

\* What every occurrence of a finding says is safe.
Patched(s, id) ==
    UNION {SafeIntervals(s.advisories[id].ranges, v) : v \in Installed(s, {id})}
Floors(s, id) == {i.from : i \in Patched(s, id)}
Satisfied(s, id, v) == \E i \in Patched(s, id) : Covers(i, v)

(***************************************************************************)
(* The remediation items: what cannot be fixed, and one upgrade for all the *)
(* rest, or one each when their ranges conflict.  An item's `to` is empty   *)
(* when there is no upgrade.                                                *)
(***************************************************************************)
Target(s, id, newest) ==
    LET ahead == {v \in Floors(s, id) : \A n \in newest : n <= v}
    IN  IF ahead # {} THEN Least(ahead) ELSE Greatest(Floors(s, id))

Fixable(s) == {id \in Findings(s) : Floors(s, id) # {}}
CommonTarget(s) ==
    LET newest == Greatest(Installed(s, Fixable(s)))
        start == Greatest(UNION {Target(s, id, newest) : id \in Fixable(s)})
    IN  Least({v \in UNION {Floors(s, id) : id \in Fixable(s)} :
                 (\A b \in start : b <= v) /\ \A id \in Fixable(s) : Satisfied(s, id, v)})
Items(s) ==
    LET stuck == Findings(s) \ Fixable(s)
        common == CommonTarget(s)
    IN  {[advisories |-> ids, to |-> {}] : ids \in {stuck} \ {{}}}
        \cup IF common # {}
             THEN {[advisories |-> Fixable(s), to |-> common]}
             ELSE {[advisories |-> {id}, to |-> Target(s, id, Greatest(Installed(s, {id})))] :
                     id \in Fixable(s)}

\* The smallest version on an older line that clears what it can of what repos on it have.
Alternatives(s, item) ==
    LET lines == {k \in {Line(v) : v \in Installed(s, item.advisories)} :
                    \A t \in item.to : k < Line(t)}
        on(k) == {v \in Installed(s, item.advisories) : Line(v) = k}
        here(k) == {id \in item.advisories : Installed(s, {id}) \cap on(k) # {}}
        fixes(k, id) == {b \in Floors(s, id) : Line(b) = k /\ \A v \in on(k) : v <= b}
        candidate(k) == Greatest(UNION {Least(fixes(k, id)) : id \in here(k)})
    IN  IF item.to = {} THEN {}
        ELSE {[line |-> k, to |-> candidate(k), here |-> here(k),
               clears |-> {id \in here(k) : \E b \in candidate(k) : Satisfied(s, id, b)}] :
                 k \in {k \in lines : candidate(k) # {}}}

(***************************************************************************)
(* The plan: an edit for each repo that has what an item fixes.             *)
(***************************************************************************)
\* An alternative takes a repo all of whose copies are on its line, when it clears everything.
TakesWhatItCan(alternative, from) == \A v \in from : Line(v) = alternative.line
Takes(alternative, from) ==
    /\ alternative.clears = alternative.here
    /\ \A v \in from : Line(v) = alternative.line

BreaksNewest(s, item, from) ==
    \E t \in item.to : \E v \in Greatest(Installed(s, item.advisories)) : Line(v) # Line(t)
Breaks(s, item, from) ==
    \E t \in item.to : \E v \in from \cup Greatest(Installed(s, item.advisories)) : Line(v) # Line(t)
EditFor(s, item, repo) ==
    LET from == {c.version : c \in {c \in Occurrences(s, item.advisories) : c.repo = repo}}
        taken == {a \in Alternatives(s, item) : Takes(a, from)}
        edit(to, ids, breaking) ==
            [repo |-> repo, from |-> from, to |-> to, advisories |-> ids, breaking |-> breaking,
             blocked |-> to = {} \/ (breaking /\ ~s.allowBreaking)]
    IN  IF taken # {}
        THEN {edit(a.to, a.clears, FALSE) : a \in taken}
        ELSE {edit(item.to, item.advisories, Breaks(s, item, from))}

BuildPlan(s) ==
    UNION {UNION {EditFor(s, item, c.repo) : c \in Occurrences(s, item.advisories)} :
             item \in {item \in Items(s) : item.advisories \ s.dead # {}}}

(***************************************************************************)
(* The targets checked against the export: an advisory the repo has and the *)
(* edit does not fix is no new finding, any other one moves the target on.  *)
(***************************************************************************)
CountedOnlyTargeted(s, edit) == edit.advisories
Counted(s, edit) ==
    {id \in Ids(s) : id \in edit.advisories \/ \A v \in edit.from : ~Hits(s, id, v)}
ClearAfter(s, edit, t) ==
    Least({b \in UNION {Bounds(s.advisories[id].ranges, t) : id \in Ids(s)} :
             /\ \E id \in Ids(s) : EventAt(s.advisories[id].ranges, {"fixed"}, b)
             /\ \A id \in Counted(s, edit) : ~Hits(s, id, b)})

Settled(s, edit) ==
    IF edit.blocked \/ \A t \in edit.to : \A id \in Counted(s, edit) : ~Hits(s, id, t) THEN edit
    ELSE LET to == UNION {ClearAfter(s, edit, t) : t \in edit.to}
             crosses == \E t \in to, v \in edit.from : Line(v) # Line(t)
         IN  IF to = {} THEN [edit EXCEPT !.blocked = TRUE]
             ELSE [edit EXCEPT !.to = to, !.breaking = @ \/ crosses,
                               !.blocked = crosses /\ ~edit.breaking /\ ~s.allowBreaking]

Plan(s) == {Settled(s, edit) : edit \in BuildPlan(s)}

(***************************************************************************)
(* Properties.                                                              *)
(***************************************************************************)
Planned == IF case.of = "plan" THEN BuildPlan(case.situation) ELSE {}
Final == IF case.of = "plan" THEN Plan(case.situation) ELSE {}

\* osv.rs:138 "The versions above `version` that no range leaves affected": an upgrade that the
\* plan makes from the report alone is in no range of the advisories it is for, whichever repos
\* and lines they came from and wherever a later release brings one of them back.
UpgradeClearsItsAdvisories ==
    \A edit \in Planned : \A t \in edit.to, id \in edit.advisories :
        ~Affected(case.situation.advisories[id].ranges, t)

\* fix_targets.rs: a target that was checked has none of the advisories it is for, and none that
\* the repo does not have already, those that list versions one by one included.
TargetAddsNothing ==
    \A edit \in Final : ~edit.blocked =>
        \A t \in edit.to, id \in Ids(case.situation) : Hits(case.situation, id, t) =>
            id \notin edit.advisories /\ \E v \in edit.from : Hits(case.situation, id, v)

\* Without --allow-breaking no edit is carried out that takes a copy of any repo across a
\* compatibility line, whatever the rest of the fleet runs and wherever a check moved the target.
NoUnaskedMajor ==
    \A edit \in Final : ~edit.blocked /\ ~case.situation.allowBreaking =>
        \A t \in edit.to, v \in edit.from : Line(v) = Line(t)

\* Every finding that may be reachable is in an edit of each repo that has it, to be carried out
\* or blocked with its reason: none is lost when advisories are batched, split or taken by an
\* older line's fix.
EveryFindingPlanned ==
    case.of = "plan" =>
        LET final == Final
        IN  \A c \in case.situation.fleet, id \in Ids(case.situation) \ case.situation.dead :
              Hits(case.situation, id, c.version) =>
                \E edit \in final :
                    edit.repo = c.repo /\ id \in edit.advisories /\ c.version \in edit.from
=============================================================================
