--------------------------- MODULE FleetScan_proofs ---------------------------
(***************************************************************************)
(* What FleetScan promises for every fleet, advisory set and command line:  *)
(* the type invariant, and the safety invariants the runs check, through    *)
(* three strengthenings.  Sound follows what was read up to the verdict;    *)
(* Covered follows every hit through the filters, Followed every warning.   *)
(***************************************************************************)
EXTENDS FleetScan, WellFoundedInduction, TLAPS

-----------------------------------------------------------------------------
\* A non-empty set of severities has a worst one: what the Max of correlate picks.
LEMMA WorstSeverity ==
    ASSUME NEW S \in SUBSET Severity, S # {}
    PROVE  Max(S) \in S /\ \A s \in S : Max(S) >= s
<1> DEFINE T == {t \in Nat : Critical - t \in S}
<1> DEFINE R == {p \in Nat \X Nat : p[1] < p[2]}
<1>1. Critical \in Nat BY FleetScanAssumption
<1>2. \A s \in S : Critical - s \in T /\ s \in Int BY <1>1 DEF Severity
<1>3. T \subseteq Nat /\ T # {} BY <1>2
<1>4. IsWellFoundedOn(R, Nat) BY NatLessThanWellFounded, Zenon DEF OpToRel
<1>5. \A t, u \in T : ~(<<u, t>> \in R) => t <= u BY <1>3
<1>6. \E t \in T : \A u \in T : ~(<<u, t>> \in R)
  <2> HIDE DEF T
  <2> QED BY <1>3, <1>4, WFMin, Zenon
<1>7. PICK t \in T : \A u \in T : t <= u
  <2> HIDE DEF R
  <2> QED BY <1>5, <1>6
<1>8. Critical - t \in S BY <1>3
<1>9. \A s \in S : Critical - t >= s BY <1>1, <1>2, <1>3, <1>7
<1>10. \E x \in S : \A y \in S : x >= y BY <1>8, <1>9
<1> QED BY <1>10 DEF Max

\* The severity correlate gives a finding is one of the severities.
LEMMA CorrelatedSevType ==
    ASSUME TypeOK, NEW a \in Advisories
    PROVE  CorrelatedSev(a) \in Severity
<1> DEFINE S == {h.sev : h \in HitsOf(a)}
<1>1. S \subseteq Severity BY DEF TypeOK, HitsOf, Hit
<1>2. HitsOf(a) # {} => Max(S) \in Severity BY <1>1, WorstSeverity
<1>3. Critical \in Severity /\ Unknown \in Severity
  BY FleetScanAssumption DEF Severity, Unknown
<1> QED BY <1>2, <1>3 DEF CorrelatedSev

\* What a unit's hits are drawn from bounds them.
LEMMA UpToSubsets ==
    ASSUME NEW n, NEW S, NEW H \in UpTo(n, S)
    PROVE  H \subseteq S
<1>1. CASE H = {} BY <1>1
<1>2. CASE H \in {{f[i] : i \in 1 .. n} : f \in [1 .. n -> S]}
  <2>1. PICK f \in [1 .. n -> S] : H = {f[i] : i \in 1 .. n} BY <1>2
  <2> QED BY <2>1
<1> QED BY <1>1, <1>2 DEF UpTo

-----------------------------------------------------------------------------
LEMMA TypeInit == Init => TypeOK
<1>1. Unknown \in Severity BY FleetScanAssumption DEF Severity, Unknown
<1> SUFFICES ASSUME Init PROVE TypeOK
  OBVIOUS
<1>2. args \in Args BY ArgSetAssumption DEF Init
<1>3. sev \in [Advisories -> Severity] BY <1>1 DEF Init
<1>4. /\ unit \in [Units -> {"waiting", "scanned", "errored"}]
      /\ status \in [Repos -> {"waiting", "scanned", "errored"}]
  BY DEF Init
<1>5. stale \in BOOLEAN /\ known \in BOOLEAN BY Zenon DEF Init
<1>6. phase \in Phases /\ exit \in 0 .. 2 BY DEF Init, Phases
<1>7. /\ failed \subseteq Repos /\ gaps \subseteq Repos
      /\ raw \subseteq Hit /\ rawWarn \subseteq Warned
      /\ live \subseteq Decisions /\ expired \subseteq Decisions
      /\ occ \subseteq Occurrence /\ warn \subseteq Warned /\ suppressed \subseteq Occurrence
      /\ catalog \subseteq Advisories /\ scored \subseteq Advisories
      /\ unreachable \subseteq Advisories /\ old \subseteq Advisories \cup Warnings
      /\ urgent \subseteq Advisories /\ recorded \subseteq Record
  BY DEF Init
<1> QED BY <1>2, <1>3, <1>4, <1>5, <1>6, <1>7 DEF TypeOK

LEMMA TypeStep == TypeOK /\ [Next]_vars => TypeOK'
<1> SUFFICES ASSUME TypeOK, [Next]_vars PROVE TypeOK'
  OBVIOUS
<1> USE DEF TypeOK, Phases, Stop, Goto, inputVars, scanVars, reportVars, signalVars
<1>1. CASE RefuseNarrowedHistory BY <1>1 DEF RefuseNarrowedHistory
<1>2. CASE LoadFleet BY <1>2 DEF LoadFleet
<1>3. CASE LoadTriage BY <1>3 DEF LoadTriage
<1>4. CASE LoadFeeds BY <1>4 DEF LoadFeeds
<1>5. ASSUME NEW u \in Units, ScanUnit(u) PROVE TypeOK'
  <2>1. unit' \in [Units -> {"waiting", "scanned", "errored"}] BY <1>5 DEF ScanUnit
  <2>2. raw' \subseteq Hit /\ rawWarn' \subseteq Warned
    <3>1. \A H \in HitSets(u.repo) : H \subseteq Hit BY UpToSubsets DEF HitSets
    <3>2. \A W \in WarnSets(u.repo) : W \subseteq Warned BY UpToSubsets DEF WarnSets
    <3> QED BY <1>5, <3>1, <3>2 DEF ScanUnit
  <2>3. gaps' \subseteq Repos BY <1>5, FleetScanAssumption DEF ScanUnit
  <2> QED BY <1>5, <2>1, <2>2, <2>3 DEF ScanUnit
<1>6. ASSUME NEW r \in Repos, MergeUnits(r) PROVE TypeOK' BY <1>6 DEF MergeUnits
<1>7. CASE AddFleetSignals
  <2>1. \A W \in UpTo(MaxHits, Warned) : W \subseteq Warned BY UpToSubsets
  <2> QED BY <1>7, <2>1 DEF AddFleetSignals
<1>8. CASE Assemble
  <2>1. sev' \in [Advisories -> Severity] BY <1>8, CorrelatedSevType DEF Assemble
  <2>2. {Where(h) : h \in raw} \subseteq Occurrence BY DEF Hit, Where, Occurrence
  <2>3. occ' \subseteq Occurrence /\ suppressed' \subseteq Occurrence
    BY <1>8, <2>2 DEF Assemble
  <2>4. warn' \subseteq Warned BY <1>8 DEF Assemble
  <2> QED BY <1>8, <2>1, <2>3, <2>4 DEF Assemble
<1>9. CASE Enrich
  <2>1. Findings \subseteq Advisories BY DEF Findings, Occurrence
  <2>2. occ' \subseteq Occurrence /\ sev' \in [Advisories -> Severity] /\ known' \in BOOLEAN
    BY <1>9 DEF Enrich, Args
  <2>3. catalog' \subseteq Advisories /\ scored' \subseteq Advisories BY <1>9, <2>1 DEF Enrich
  <2> QED BY <1>9, <2>2, <2>3 DEF Enrich
<1>10. CASE AssessReachability
  <2>1. Findings \subseteq Advisories BY DEF Findings, Occurrence
  <2> QED BY <1>10, <2>1 DEF AssessReachability
<1>11. CASE ApplyBaseline
  <2>1. Findings \cup {w.adv : w \in warn} \subseteq Advisories \cup Warnings
    BY DEF Findings, Occurrence, Warned
  <2> QED BY <1>11, <2>1 DEF ApplyBaseline
<1>12. CASE DecideSsvc
  <2>1. Findings \subseteq Advisories BY DEF Findings, Occurrence
  <2> QED BY <1>12, <2>1 DEF DecideSsvc
<1>13. CASE RenderAndGate BY <1>13 DEF RenderAndGate, Verdict
<1>14. CASE RecordHistory
  <2>1. Trustworthy \subseteq Repos BY DEF Trustworthy
  <2>2. recorded' \subseteq Record BY <1>14, <2>1 DEF RecordHistory, Record
  <2> QED BY <1>14, <2>2 DEF RecordHistory
<1>15. CASE UNCHANGED vars BY <1>15 DEF vars
<1> QED BY <1>1, <1>2, <1>3, <1>4, <1>5, <1>6, <1>7, <1>8, <1>9, <1>10, <1>11, <1>12,
            <1>13, <1>14, <1>15 DEF Next

\* The program's state keeps its shape through every phase.
THEOREM TypeCorrect == Spec => []TypeOK
<1> QED BY TypeInit, TypeStep, PTL DEF Spec

-----------------------------------------------------------------------------
\* What was read, phase by phase: a repository counts as scanned only with all its units,
\* nothing is left waiting once the scan is over, and an exit code other than 2 was given
\* by a verdict over repositories that were all scanned.
BeforeScan == {"args", "fleet", "triage", "feeds"}
AfterScan == {"assemble", "enrich", "reach", "baseline", "ssvc", "gate"}

Sound ==
    /\ phase \in BeforeScan => \A r \in Repos : status[r] = "waiting"
    /\ \A r \in Repos : status[r] = "scanned" =>
          r \notin failed /\ \A u \in UnitsOf(r) : unit[u] = "scanned"
    /\ phase \in AfterScan => \A r \in Repos : status[r] # "waiting"
    /\ stale => phase = "done" /\ exit = 2
    /\ exit # 2 => /\ phase \in {"record", "done"}
                   /\ Repos # {} /\ \A r \in Repos : status[r] = "scanned"
                   /\ args.requireFull => gaps = {}

LEMMA SoundInit == Init => Sound
BY DEF Init, Sound, AfterScan

LEMMA SoundStep == TypeOK /\ Sound /\ [Next]_vars => Sound'
<1> SUFFICES ASSUME TypeOK, Sound, [Next]_vars PROVE Sound'
  OBVIOUS
<1> USE DEF Sound, BeforeScan, AfterScan, Stop, Goto, UnitsOf,
            inputVars, scanVars, reportVars, signalVars
<1>1. CASE RefuseNarrowedHistory BY <1>1 DEF RefuseNarrowedHistory
<1>2. CASE LoadFleet BY <1>2 DEF LoadFleet
<1>3. CASE LoadTriage BY <1>3 DEF LoadTriage
<1>4. CASE LoadFeeds BY <1>4 DEF LoadFeeds
<1>5. ASSUME NEW u \in Units, ScanUnit(u) PROVE Sound'
  <2>1. \A v \in Units : unit[v] = "scanned" => unit'[v] = "scanned"
    BY <1>5 DEF ScanUnit, TypeOK
  <2> QED BY <1>5, <2>1 DEF ScanUnit
<1>6. ASSUME NEW r \in Repos, MergeUnits(r) PROVE Sound'
  <2>1. ASSUME status'[r] = "scanned" PROVE \A u \in UnitsOf(r) : unit[u] = "scanned"
    BY <1>6, <2>1 DEF MergeUnits, TypeOK
  <2>2. \A q \in Repos \ {r} : status'[q] = status[q] BY <1>6 DEF MergeUnits, TypeOK
  <2> QED BY <1>6, <2>1, <2>2 DEF MergeUnits
<1>7. CASE AddFleetSignals BY <1>7 DEF AddFleetSignals, TypeOK
<1>8. CASE Assemble BY <1>8 DEF Assemble
<1>9. CASE Enrich BY <1>9 DEF Enrich
<1>10. CASE AssessReachability BY <1>10 DEF AssessReachability
<1>11. CASE ApplyBaseline BY <1>11 DEF ApplyBaseline
<1>12. CASE DecideSsvc BY <1>12 DEF DecideSsvc
<1>13. CASE RenderAndGate
  <2>1. CASE Stop(2) BY <1>13, <2>1 DEF RenderAndGate
  <2>2. CASE phase' = "record" /\ exit' = Verdict
    <3>1. Verdict # 2 => /\ Repos # {} /\ \A r \in Repos : status[r] = "scanned"
                         /\ args.requireFull => gaps = {}
      BY <1>13 DEF RenderAndGate, Verdict, Unread, TypeOK
    <3> QED BY <1>13, <2>2, <3>1 DEF RenderAndGate
  <2> QED BY <1>13, <2>1, <2>2 DEF RenderAndGate
<1>14. CASE RecordHistory BY <1>14 DEF RecordHistory
<1>15. CASE UNCHANGED vars BY <1>15 DEF vars
<1> QED BY <1>1, <1>2, <1>3, <1>4, <1>5, <1>6, <1>7, <1>8, <1>9, <1>10, <1>11, <1>12,
            <1>13, <1>14, <1>15 DEF Next

LEMMA SoundAlways == Spec => [](TypeOK /\ Sound)
<1> QED BY TypeInit, TypeStep, SoundInit, SoundStep, PTL DEF Spec

\* Once the verdict is not 2, everything was read.
LEMMA VerdictMeansRead == TypeOK /\ Sound /\ exit # 2 => ReadInFull
<1>1. \A u \in Units : u.repo \in Repos BY FleetScanAssumption
<1> QED BY <1>1 DEF Sound, TypeOK, ReadInFull, UnitsOf

\* The fail-closed spine: exit 0 or 1 means every repository was read whole, from data as
\* fresh and as complete as the command line asked for.
THEOREM PassMeansReadAlways == Spec => []PassMeansRead
<1>1. TypeOK /\ Sound => PassMeansRead BY VerdictMeansRead DEF PassMeansRead, Passed
<1> QED BY <1>1, SoundAlways, PTL

-----------------------------------------------------------------------------
\* Where every hit went: from assemble on it is in the report or hidden for a reason the
\* user gave, what later filters will decide by is not yet set, and the verdict stands.
Assembled == phase \in {"enrich", "reach", "baseline", "ssvc", "gate", "record"} \/ exit # 2
Gated == phase = "record" \/ exit # 2

Pending ==
    /\ phase \in BeforeScan \cup {"scan", "assemble", "enrich"} => scored = {}
    /\ phase \in BeforeScan \cup {"scan", "assemble", "enrich", "reach"} => unreachable = {}
    /\ phase \in BeforeScan \cup {"scan", "assemble", "enrich", "reach", "baseline"} => old = {}

Covered ==
    /\ Pending
    /\ phase = "args" \/ (phase = "done" /\ exit = 2) \/ (args.history => ~Narrowing(args))
    /\ Assembled =>
         /\ occ \subseteq {Where(h) : h \in raw}
         /\ suppressed = {o \in {Where(h) : h \in raw} : SetAside(o, live)}
         /\ occ \cap suppressed = {}
         /\ \A h \in raw : Hidden(h) \/ Where(h) \in occ
         /\ ~Narrowing(args) => {Where(h) : h \in raw} \subseteq occ \cup suppressed
    /\ phase = "gate" \/ Gated => (args.failOnSsvc => known)
    /\ Gated => exit \in {2, Verdict}
    /\ phase # "done" => recorded = {}
    /\ RecordIsWhole

LEMMA CoveredInit == Init => Covered
BY DEF Init, Covered, Pending, Assembled, Gated, RecordIsWhole, Passed, BeforeScan

\* Before the report exists, a step can only break what Covered says of the filters' inputs
\* and of the refusal.
LEMMA CoveredBeforeReport ==
    ASSUME TypeOK, Sound, Covered,
           phase \in BeforeScan \cup {"scan"},
           phase' \in BeforeScan \cup {"scan", "assemble", "done"},
           phase = "args" => phase' = "done" \/ (args.history => ~Narrowing(args)),
           phase' # "args", args' = args, exit' = 2,
           UNCHANGED <<reportVars, signalVars, recorded>>
    PROVE  Covered'
<1> USE DEF reportVars, signalVars, BeforeScan
<1>1. recorded' = {} BY DEF Covered
<1>2. Pending' BY DEF Covered, Pending
<1>3. ~Assembled' /\ ~Gated' BY DEF Assembled, Gated
<1>4. phase' = "done" \/ (args'.history => ~Narrowing(args)') BY DEF Covered, Narrowing
<1>5. RecordIsWhole' BY <1>1 DEF RecordIsWhole, Passed
<1> QED BY <1>1, <1>2, <1>3, <1>4, <1>5 DEF Covered

\* A filter keeps Covered when what it drops becomes hidden and nothing hidden comes back.
LEMMA CoveredByFilter ==
    ASSUME Covered, Assembled, recorded' = {}, exit' = 2, phase' # "record", Pending',
           args' = args, raw' = raw, live' = live, suppressed' = suppressed,
           phase \notin {"args", "done"},
           occ' \subseteq occ,
           \A h \in raw : Hidden(h) => Hidden(h)',
           \A h \in raw : Where(h) \in occ => Hidden(h)' \/ Where(h) \in occ',
           Narrowing(args) \/ occ' = occ,
           phase' = "gate" => (args.failOnSsvc => known')
    PROVE  Covered'
<1>1. ~Gated' BY DEF Gated
<1>2. RecordIsWhole' BY DEF RecordIsWhole, Passed
<1>3. {Where(h) : h \in raw'} = {Where(h) : h \in raw} /\ Narrowing(args)' = Narrowing(args)
  BY DEF Narrowing, Where
<1>4. {o \in {Where(h) : h \in raw'} : SetAside(o, live')} =
      {o \in {Where(h) : h \in raw} : SetAside(o, live)}
  BY <1>3
<1>5. args.history => ~Narrowing(args) BY DEF Covered
<1>6. \A h \in raw : Hidden(h)' \/ Where(h) \in occ' BY DEF Covered
<1>7. occ' \subseteq {Where(h) : h \in raw} /\ occ' \cap suppressed' = {} BY DEF Covered
<1>8. ~Narrowing(args) => {Where(h) : h \in raw} \subseteq occ' \cup suppressed'
  BY DEF Covered
<1>9. suppressed' = {o \in {Where(h) : h \in raw} : SetAside(o, live)} BY DEF Covered
<1> QED BY <1>1, <1>2, <1>3, <1>4, <1>5, <1>6, <1>7, <1>8, <1>9 DEF Covered

LEMMA CoveredAssemble == TypeOK /\ Sound /\ Covered /\ Assemble => Covered'
<1> SUFFICES ASSUME TypeOK, Sound, Covered, Assemble PROVE Covered'
  OBVIOUS
<1>1. /\ phase = "assemble" /\ phase' = "enrich" /\ exit = 2 /\ exit' = 2
      /\ UNCHANGED <<args, live, raw, recorded, scored, unreachable, old>>
  BY DEF Assemble, Goto, Sound, inputVars, scanVars, signalVars
<1>2. recorded' = {} BY <1>1 DEF Covered
<1>3. Pending' BY <1>1 DEF Covered, Pending, BeforeScan
<1>4. RecordIsWhole' BY <1>1, <1>2 DEF RecordIsWhole, Passed
<1>5. args.history => ~Narrowing(args) BY <1>1 DEF Covered
<1>6. \A h \in raw : h.adv \in Advisories /\ Where(h).adv = h.adv /\ Where(h).shape = h.shape
  BY DEF TypeOK, Hit, Where
<1>7. \A h \in raw : sev'[h.adv] = CorrelatedSev(h.adv) BY <1>6 DEF Assemble
<1>8. ASSUME NEW h \in raw PROVE Hidden(h)' \/ Where(h) \in occ'
  <2>1. Hidden(h)' <=>
          \/ SetAside(Where(h), live)
          \/ h.adv \notin Malware /\ ~Passes(CorrelatedSev(h.adv), args.minSeverity)
          \/ args.ignorePhantom /\ h.shape.phantom
          \/ args.ignoreDev /\ h.shape.dev
          \/ args.minEpss /\ h.adv \in scored
          \/ args.reachableOnly /\ h.adv \in unreachable
          \/ args.baseline /\ h.adv \in old
    BY <1>1 DEF Hidden, CorrelatedSev, HitsOf
  <2> QED BY <1>6, <1>7, <2>1 DEF Assemble
<1>9. ASSUME ~Narrowing(args), NEW h \in raw PROVE Where(h) \in occ' \cup suppressed'
  <2>1. sev'[h.adv] \in Severity BY <1>6, <1>7, CorrelatedSevType
  <2>2. Passes(sev'[h.adv], args.minSeverity)
    BY <1>9, <2>1, FleetScanAssumption DEF Narrowing, Passes, Severity
  <2> QED BY <1>6, <1>9, <2>2 DEF Assemble, Narrowing
<1>10. occ' \subseteq {Where(h) : h \in raw} /\ occ' \cap suppressed' = {}
  BY DEF Assemble
<1>11. suppressed' = {o \in {Where(h) : h \in raw} : SetAside(o, live)} BY DEF Assemble
<1>12. ~Gated' /\ phase' # "gate" BY <1>1 DEF Gated
<1>13. {Where(h) : h \in raw'} = {Where(h) : h \in raw} /\ Narrowing(args)' = Narrowing(args)
  BY <1>1 DEF Narrowing
<1> QED BY <1>1, <1>2, <1>3, <1>4, <1>5, <1>8, <1>9, <1>10, <1>11, <1>12, <1>13 DEF Covered

LEMMA CoveredFilters ==
    ASSUME TypeOK, Sound, Covered, Enrich \/ AssessReachability \/ ApplyBaseline \/ DecideSsvc
    PROVE  Covered'
<1>1. /\ phase \in {"enrich", "reach", "baseline", "ssvc"} /\ Assembled /\ exit = 2
      /\ phase' # "record" /\ exit' = 2
      /\ UNCHANGED <<args, live, raw, suppressed, recorded>>
  BY DEF Enrich, AssessReachability, ApplyBaseline, DecideSsvc, Stop, Goto, Sound, Assembled,
         inputVars, scanVars, reportVars
<1>2. recorded' = {} /\ phase \notin {"args", "done"} BY <1>1 DEF Covered
<1>3. \A h \in raw : Where(h).adv = h.adv BY DEF Where
<1>4. Pending'
  BY DEF Covered, Pending, BeforeScan, Enrich, AssessReachability, ApplyBaseline, DecideSsvc,
         Stop, Goto
<1>5. occ' \subseteq occ /\ (Narrowing(args) \/ occ' = occ)
  BY DEF Enrich, AssessReachability, ApplyBaseline, DecideSsvc, Narrowing, reportVars
<1>6. phase' = "gate" => (args.failOnSsvc => known')
  BY DEF Enrich, AssessReachability, ApplyBaseline, DecideSsvc, Stop, Goto
<1>7. /\ phase = "enrich" => scored = {}
      /\ phase \in {"enrich", "reach"} => unreachable = {}
      /\ phase \in {"enrich", "reach", "baseline"} => old = {}
  BY DEF Covered, Pending
<1>8. \A h \in raw : CorrelatedSev(h.adv)' = CorrelatedSev(h.adv)
  BY <1>1 DEF CorrelatedSev, HitsOf
<1>9. \A h \in raw : Hidden(h) => Hidden(h)'
  BY <1>1, <1>7, <1>8 DEF Hidden, Enrich, AssessReachability, ApplyBaseline, DecideSsvc
<1>10. \A h \in raw : Where(h) \in occ => Hidden(h)' \/ Where(h) \in occ'
  BY <1>1, <1>3 DEF Hidden, Enrich, AssessReachability, ApplyBaseline, DecideSsvc, reportVars
<1> QED BY <1>1, <1>2, <1>4, <1>5, <1>6, <1>9, <1>10, CoveredByFilter

LEMMA CoveredRecord == TypeOK /\ Sound /\ Covered /\ RecordHistory => Covered'
<1> SUFFICES ASSUME TypeOK, Sound, Covered, RecordHistory PROVE Covered'
  OBVIOUS
<1> USE DEF inputVars, scanVars, reportVars, signalVars
<1>1. /\ phase = "record" /\ phase' = "done" /\ exit' \in {2, exit}
      /\ UNCHANGED <<args, inputVars, scanVars, reportVars, signalVars>>
  BY DEF RecordHistory, Stop
<1>2. Pending' BY <1>1 DEF Pending, BeforeScan
<1>3. \A h \in raw : Hidden(h)' <=> Hidden(h)
  BY <1>1 DEF Hidden, CorrelatedSev, HitsOf
<1>4. Verdict' = Verdict
  BY <1>1 DEF Verdict, Unread, Hits, KevHits, SsvcHits, BaselineHits, ExpiredHits, Gates,
              WarningGates, DevGates, SeverityGated, RuntimeFloor, Findings
<1>5. RecordIsWhole'
  <2>1. recorded = {} BY <1>1 DEF Covered
  <2>2. CASE recorded' = {} /\ (exit' = 2 \/ ~args.history)
    BY <1>1, <2>2 DEF RecordIsWhole, Passed
  <2>3. CASE /\ args.history
             /\ recorded' = {[exit |-> exit, occ |-> occ, suppressed |-> suppressed,
                              trusted |-> Trustworthy]}
    <3>1. ~Narrowing(args) BY <1>1, <2>3 DEF Covered
    <3>2. {Where(h) : h \in raw} = occ \cup suppressed /\ occ \cap suppressed = {}
      BY <1>1, <3>1 DEF Covered, Assembled
    <3>3. \A r \in Trustworthy : /\ r \notin gaps \cup failed
                                 /\ \A u \in UnitsOf(r) : unit[u] = "scanned"
      BY DEF Trustworthy, Sound
    <3>4. UNCHANGED <<raw, gaps, failed, unit>> BY <1>1
    <3>5. exit # 2 => ReadInFull BY VerdictMeansRead
    <3>6. ReadInFull' = ReadInFull BY <1>1 DEF ReadInFull
    <3> QED BY <1>1, <2>3, <3>2, <3>3, <3>4, <3>5, <3>6 DEF RecordIsWhole, UnitsOf
  <2> QED BY <2>1, <2>2, <2>3 DEF RecordHistory, Stop
<1>6. /\ Assembled /\ (args.history => ~Narrowing(args)) /\ Gated
  BY <1>1 DEF Assembled, Gated, Covered
<1>7. exit' \in {2, Verdict'} BY <1>1, <1>4, <1>6 DEF Covered
<1>8. /\ {Where(h) : h \in raw'} = {Where(h) : h \in raw}
      /\ Narrowing(args)' = Narrowing(args)
  BY <1>1 DEF Narrowing
<1>9. suppressed' = {o \in {Where(h) : h \in raw'} : SetAside(o, live')}
  BY <1>1, <1>6, <1>8 DEF Covered
<1> QED BY <1>1, <1>2, <1>3, <1>5, <1>6, <1>7, <1>8, <1>9 DEF Covered

LEMMA CoveredStep == TypeOK /\ Sound /\ Covered /\ [Next]_vars => Covered'
<1> SUFFICES ASSUME TypeOK, Sound, Covered, [Next]_vars PROVE Covered'
  OBVIOUS
<1> USE DEF Stop, Goto, BeforeScan
<1>1. CASE RefuseNarrowedHistory
  BY <1>1, CoveredBeforeReport DEF RefuseNarrowedHistory, Sound
<1>2. CASE LoadFleet BY <1>2, CoveredBeforeReport DEF LoadFleet, Sound
<1>3. CASE LoadTriage BY <1>3, CoveredBeforeReport DEF LoadTriage, Sound
<1>4. CASE LoadFeeds BY <1>4, CoveredBeforeReport DEF LoadFeeds, Sound
<1>5. ASSUME NEW u \in Units, ScanUnit(u) PROVE Covered'
  BY <1>5, CoveredBeforeReport DEF ScanUnit, Sound
<1>6. ASSUME NEW r \in Repos, MergeUnits(r) PROVE Covered'
  BY <1>6, CoveredBeforeReport DEF MergeUnits, Sound
<1>7. CASE AddFleetSignals BY <1>7, CoveredBeforeReport DEF AddFleetSignals, Sound
<1>8. CASE Assemble BY <1>8, CoveredAssemble
<1>9. CASE Enrich \/ AssessReachability \/ ApplyBaseline \/ DecideSsvc
  BY <1>9, CoveredFilters
<1>10. CASE RenderAndGate
  <2> USE DEF inputVars, scanVars, reportVars, signalVars
  <2>1. /\ phase = "gate" /\ phase' \in {"record", "done"}
        /\ phase' = "record" => exit' = Verdict
        /\ phase' = "done" => exit' = 2
        /\ UNCHANGED <<args, inputVars, scanVars, reportVars, signalVars, recorded>>
    BY <1>10 DEF RenderAndGate
  <2>2. Pending' BY <2>1 DEF Pending
  <2>3. \A h \in raw : Hidden(h)' <=> Hidden(h)
    BY <2>1 DEF Hidden, CorrelatedSev, HitsOf
  <2>4. Verdict' = Verdict
    BY <2>1 DEF Verdict, Unread, Hits, KevHits, SsvcHits, BaselineHits, ExpiredHits, Gates,
                WarningGates, DevGates, SeverityGated, RuntimeFloor, Findings
  <2>5. recorded' = {} BY <2>1 DEF Covered
  <2>6. RecordIsWhole' BY <2>1, <2>5 DEF RecordIsWhole, Passed
  <2>7. Assembled /\ (args.history => ~Narrowing(args)) BY <2>1 DEF Assembled, Covered
  <2>8. exit' \in {2, Verdict'} BY <2>1, <2>4
  <2>9. /\ {Where(h) : h \in raw'} = {Where(h) : h \in raw}
        /\ Narrowing(args)' = Narrowing(args)
    BY <2>1 DEF Narrowing
  <2>10. suppressed' = {o \in {Where(h) : h \in raw'} : SetAside(o, live')}
    BY <2>1, <2>7, <2>9 DEF Covered
  <2> QED BY <2>1, <2>2, <2>3, <2>5, <2>6, <2>7, <2>8, <2>9, <2>10 DEF Covered
<1>11. CASE RecordHistory BY <1>11, CoveredRecord
<1>12. CASE UNCHANGED vars
  <2>1. UNCHANGED <<args, inputVars, scanVars, reportVars, signalVars, phase, exit, recorded>>
    BY <1>12 DEF vars, inputVars, scanVars, reportVars, signalVars
  <2> USE DEF inputVars, scanVars, reportVars, signalVars
  <2>2. Pending' BY <2>1 DEF Covered, Pending
  <2>3. \A h \in raw : Hidden(h)' <=> Hidden(h)
    BY <2>1 DEF Hidden, CorrelatedSev, HitsOf
  <2>4. Verdict' = Verdict
    BY <2>1 DEF Verdict, Unread, Hits, KevHits, SsvcHits, BaselineHits, ExpiredHits, Gates,
                WarningGates, DevGates, SeverityGated, RuntimeFloor, Findings
  <2>5. RecordIsWhole'
    <3>1. Passed' = Passed /\ ReadInFull' = ReadInFull BY <2>1 DEF Passed, ReadInFull
    <3> QED BY <2>1, <3>1 DEF Covered, RecordIsWhole, UnitsOf
  <2>6. /\ {Where(h) : h \in raw'} = {Where(h) : h \in raw}
        /\ Narrowing(args)' = Narrowing(args)
    BY <2>1 DEF Narrowing
  <2>7. Assembled' = Assembled /\ Gated' = Gated BY <2>1 DEF Assembled, Gated
  <2>8. Assembled => suppressed' = {o \in {Where(h) : h \in raw'} : SetAside(o, live')}
    BY <2>1, <2>6 DEF Covered
  <2>9. Gated => exit' \in {2, Verdict'} BY <2>1, <2>4 DEF Covered
  <2> QED BY <2>1, <2>2, <2>3, <2>5, <2>6, <2>7, <2>8, <2>9 DEF Covered
<1> QED BY <1>1, <1>2, <1>3, <1>4, <1>5, <1>6, <1>7, <1>8, <1>9, <1>10, <1>11, <1>12 DEF Next

LEMMA Invariant == Spec => [](TypeOK /\ Sound /\ Covered)
<1> QED BY SoundAlways, CoveredInit, CoveredStep, PTL DEF Spec

-----------------------------------------------------------------------------
\* At exit 0 nothing the gates look at is in the report.
LEMMA CleanVerdict ==
    ASSUME TypeOK, Sound, Covered, Ended(0)
    PROVE  /\ ~Hits /\ ~KevHits /\ ~SsvcHits /\ ~ExpiredHits
           /\ \A h \in raw : Hidden(h) \/ Where(h) \in occ
           /\ args.failOnSsvc => known
<1>1. exit = 0 BY DEF Ended
<1>2. Gated /\ Assembled BY <1>1 DEF Gated, Assembled
<1>3. Verdict = 0 BY <1>1, <1>2 DEF Covered
<1> QED BY <1>2, <1>3 DEF Verdict, Covered

\* A report is never falsely clean: at exit 0 every hit of the scan is one the user hid or
\* the levels tolerate.
THEOREM CleanMeansExcusedAlways == Spec => []CleanMeansExcused
<1>1. TypeOK /\ Sound /\ Covered => CleanMeansExcused
  <2> SUFFICES ASSUME TypeOK, Sound, Covered, Ended(0), NEW h \in raw, ~Hidden(h)
               PROVE  Tolerated(h)
    BY DEF CleanMeansExcused
  <2> DEFINE o == Where(h)
  <2>1. o \in occ /\ ~Hits /\ ~SsvcHits /\ (args.failOnSsvc => known) BY CleanVerdict
  <2>2. ~Gates(o) BY <2>1 DEF Hits
  <2>3. o.adv = h.adv /\ o.shape = h.shape BY DEF Where
  <2>4. h.adv \in Advisories /\ sev[h.adv] \in Severity BY DEF TypeOK, Hit
  <2>5. sev[h.adv] \in Int /\ RuntimeFloor \in Int /\ args.gateDev \in Int
    BY <2>4, FleetScanAssumption DEF Severity, RuntimeFloor, TypeOK, Args, NeverGates
  <2>6. args.failOnSsvc => h.adv \notin urgent BY <2>1 DEF SsvcHits, TypeOK
  <2>7. CASE ~(SeverityGated \/ h.adv \in Malware)
    BY <2>6, <2>7 DEF Tolerated, SeverityGated
  <2>8. CASE h.shape.dev /\ h.adv \notin Malware /\ ~DevGates(sev[h.adv])
    BY <2>5, <2>8 DEF Tolerated, DevGates, Passes
  <2>9. CASE /\ ~(h.shape.dev /\ h.adv \notin Malware)
             /\ ~Passes(sev[h.adv], RuntimeFloor)
    BY <2>5, <2>9 DEF Tolerated, Passes
  <2> QED BY <2>2, <2>3, <2>7, <2>8, <2>9 DEF Gates
<1> QED BY <1>1, Invariant, PTL

\* A history record lists every hit of the scan, vouches only for what was read whole, and
\* passes only a fleet that was all read, whether or not the recording then fails; and a run
\* that passes has its record.
THEOREM RecordIsWholeAlways == Spec => []RecordIsWhole
<1>1. Covered => RecordIsWhole BY DEF Covered
<1> QED BY <1>1, Invariant, PTL

\* A lapsed decision on an open finding fails the run, whatever the levels are.
THEOREM ExpiredDecisionFailsAlways == Spec => []ExpiredDecisionFails
<1>1. TypeOK /\ Sound /\ Covered => ExpiredDecisionFails
  BY CleanVerdict DEF ExpiredDecisionFails, ExpiredHits
<1> QED BY <1>1, Invariant, PTL

\* --fail-on-ssvc passes nothing it has no decision for, and nothing at its threshold.
THEOREM SsvcGateKnowsAlways == Spec => []SsvcGateKnows
<1>1. TypeOK /\ Sound /\ Covered => SsvcGateKnows
  <2> SUFFICES ASSUME TypeOK, Sound, Covered, args.failOnSsvc PROVE SsvcGateKnows
    BY DEF SsvcGateKnows
  <2>1. Passed => known BY DEF Covered, Gated, Passed
  <2>2. Ended(0) => \A h \in raw : Hidden(h) \/ h.adv \notin urgent
    BY CleanVerdict DEF SsvcHits, TypeOK
  <2> QED BY <2>1, <2>2 DEF SsvcGateKnows
<1> QED BY <1>1, Invariant, PTL

\* --fail-on-kev with the catalogue loaded passes no visible finding that is on it.
THEOREM KevGateHoldsAlways == Spec => []KevGateHolds
<1>1. TypeOK /\ Sound /\ Covered => KevGateHolds
  <2> SUFFICES ASSUME TypeOK, Sound, Covered, args.failOnKev, known, Ended(0),
                      NEW h \in raw, ~Hidden(h)
               PROVE  h.adv \notin catalog
    BY DEF KevGateHolds
  <2>1. Where(h) \in occ /\ Where(h).adv = h.adv BY CleanVerdict DEF Where
  <2>2. h.adv \in Findings BY <2>1 DEF Findings
  <2> QED BY <2>2, CleanVerdict DEF KevHits
<1> QED BY <1>1, Invariant, PTL

-----------------------------------------------------------------------------
\* Where every warning went: from assemble on it is in the report or dropped for a reason
\* the user gave.  The baseline's ids are not known before their phase (Pending).
Dropped(w) ==
    \/ \E s \in live : s.id = w.adv /\ s.repo = AnyRepo
    \/ args.ignorePhantom /\ w.shape.phantom
    \/ args.ignoreDev /\ w.shape.dev
    \/ args.baseline /\ w.adv \in old
Followed == Assembled => \A w \in rawWarn : w \in warn \/ Dropped(w)

LEMMA FollowedStep == TypeOK /\ Sound /\ Covered /\ Followed /\ [Next]_vars => Followed'
<1> SUFFICES ASSUME TypeOK, Sound, Covered, Followed, [Next]_vars, Assembled',
                    NEW w \in rawWarn'
             PROVE  w \in warn' \/ Dropped(w)'
  BY DEF Followed
<1> USE DEF Stop, Goto, inputVars, scanVars, reportVars, signalVars
<1>1. CASE Assemble BY <1>1 DEF Assemble, Dropped
<1>2. CASE ApplyBaseline
  <2>1. Assembled /\ rawWarn' = rawWarn /\ args' = args /\ live' = live
    BY <1>2 DEF ApplyBaseline, Assembled
  <2>2. old = {} BY <1>2 DEF Covered, Pending, ApplyBaseline
  <2>3. w \in warn \/ Dropped(w) BY <2>1 DEF Followed
  <2> QED BY <1>2, <2>1, <2>2, <2>3 DEF ApplyBaseline, Dropped
<1>3. CASE /\ UNCHANGED <<args, live, old, warn, rawWarn>>
           /\ Assembled
  BY <1>3 DEF Followed, Dropped
<1>4. CASE Enrich \/ AssessReachability \/ DecideSsvc \/ RenderAndGate \/ RecordHistory
           \/ UNCHANGED vars
  <2>1. UNCHANGED <<args, live, old, warn, rawWarn>>
    BY <1>4 DEF Enrich, AssessReachability, DecideSsvc, RenderAndGate, RecordHistory, vars
  <2>2. Assembled
    BY <1>4 DEF Assembled, Enrich, AssessReachability, DecideSsvc, RenderAndGate,
                RecordHistory, vars
  <2> QED BY <1>3, <2>1, <2>2
<1>5. CASE \/ RefuseNarrowedHistory \/ LoadFleet \/ LoadTriage \/ LoadFeeds \/ AddFleetSignals
           \/ (\E u \in Units : ScanUnit(u)) \/ \E r \in Repos : MergeUnits(r)
  <2>1. exit = 2 /\ exit' = 2
    BY <1>5 DEF Sound, RefuseNarrowedHistory, LoadFleet, LoadTriage, LoadFeeds, ScanUnit,
                MergeUnits, AddFleetSignals
  <2>2. phase' \in BeforeScan \cup {"scan", "assemble", "done"}
    BY <1>5 DEF BeforeScan, RefuseNarrowedHistory, LoadFleet, LoadTriage, LoadFeeds, ScanUnit,
                MergeUnits, AddFleetSignals
  <2> QED BY <2>1, <2>2 DEF Assembled, BeforeScan
<1> QED BY <1>1, <1>2, <1>4, <1>5 DEF Next

\* --fail-on-warnings: at exit 0 every warning of the scan was dropped for a reason the user
\* gave, or sits in a dev dependency that the dev gate leaves out.
THEOREM WarningsExcusedAlways == Spec => []WarningsExcused
<1>1. Init => Followed BY DEF Init, Followed, Assembled
<1>2. TypeOK /\ Sound /\ Covered /\ Followed => WarningsExcused
  <2> SUFFICES ASSUME TypeOK, Sound, Covered, Followed, args.failOnWarnings, Ended(0),
                      NEW w \in rawWarn, ~Dropped(w)
               PROVE  args.gateDev = NeverGates /\ w.shape.dev
    BY DEF WarningsExcused, Dropped
  <2>1. w \in warn /\ ~Hits BY CleanVerdict DEF Followed, Assembled, Ended
  <2>2. ~WarningGates(w) BY <2>1 DEF Hits
  <2> QED BY <2>2 DEF WarningGates
<1> QED BY <1>1, <1>2, FollowedStep, Invariant, PTL DEF Spec
=============================================================================
