------------------------------ MODULE FleetScan ------------------------------
(***************************************************************************)
(* One run of `fleetreach scan`: the pipeline of scan_and_report            *)
(* (crates/cli/src/scan.rs), from the flags to the exit code and the        *)
(* history record.  Every phase that can stop the run does so with code 2.  *)
(* Units of repositories are scanned in any order (rayon); everything after *)
(* the scan is serial.                                                      *)
(*                                                                          *)
(* Abstracted: a finding is its advisory, an occurrence the repository, its *)
(* dependency scope and whether the package is built; severities are        *)
(* 0 (unknown) .. Critical; what a feed, a catalogue or a person says is    *)
(* chosen by \E in the step that reads it.                                  *)
(***************************************************************************)
EXTENDS Integers, FiniteSets, FiniteSetsExt

CONSTANTS
    Repos,       \* the repositories of fleet.toml and of its [[source]]s
    Units,       \* the (repository, ecosystem) scan units: records with a field repo
    Advisories,  \* ids that vulnerability findings can have
    Malware,     \* those of them that are, or alias, a MAL- record
    Warnings,    \* ids of warning findings
    Critical,    \* the highest severity; 0 is unknown, 1 the lowest known one
    Shapes,      \* the [dev, phantom] kinds of occurrence considered
    MaxHits,     \* bound: hits and warnings found in one unit
    Decisions,   \* the suppressions people may have written: [id, repo]
    AnyRepo,     \* the scope of a fleet-wide suppression
    ArgSet       \* the command lines considered

ASSUME FleetScanAssumption ==
    /\ Malware \subseteq Advisories
    /\ Critical \in Nat \ {0}
    /\ MaxHits \in Nat
    /\ Shapes \subseteq [dev: BOOLEAN, phantom: BOOLEAN]
    /\ AnyRepo \notin Repos
    /\ Decisions \subseteq [id: Advisories \cup Warnings, repo: Repos \cup {AnyRepo}]
    /\ \A u \in Units : u.repo \in Repos

Unknown == 0
Severity == 0 .. Critical

\* The flags, 0 standing for a severity flag that was not given.  gateDev is the floor
\* for dev occurrences: 0 the same as others, NeverGates no gate at all.
NeverGates == -1
Args == [failOn: Severity, gateDev: Severity \cup {NeverGates}, failOnKev: BOOLEAN,
         failOnSsvc: BOOLEAN, failOnWarnings: BOOLEAN, requireFull: BOOLEAN,
         maxAge: BOOLEAN, health: BOOLEAN, history: BOOLEAN, minSeverity: Severity,
         minEpss: BOOLEAN, ignoreDev: BOOLEAN, ignorePhantom: BOOLEAN,
         reachableOnly: BOOLEAN, baseline: BOOLEAN, kevSource: BOOLEAN, enrich: BOOLEAN]

ASSUME ArgSetAssumption == ArgSet \subseteq Args

\* One vulnerable package found in a repository, and one occurrence of a finding.
Hit == [adv: Advisories, repo: Repos, shape: Shapes, sev: Severity]
Occurrence == [adv: Advisories, repo: Repos, shape: Shapes]
Warned == [adv: Warnings, repo: Repos, shape: Shapes]

VARIABLES
    args,        \* the command line
    phase,       \* the phase about to run
    exit,        \* the exit code, once phase is "done"
    unit,        \* Units -> what became of each scan unit
    failed,      \* source repositories that could not be checked out
    status,      \* Repos -> outcome of each repository
    gaps,        \* repositories with a coverage gap
    stale,       \* the advisory data's age is over --max-db-age, or unknown
    raw,         \* every hit the scan found
    rawWarn,     \* every warning the scan found
    live,        \* suppressions that hold today
    expired,     \* suppressions that have lapsed
    occ,         \* the occurrences in the report
    warn,        \* the warnings in the report
    sev,         \* Advisories -> severity in the report
    suppressed,  \* occurrences set aside by live suppressions
    known,       \* the KEV catalogue was loaded
    catalog,     \* the findings CISA lists as exploited
    scored,      \* the findings whose EPSS is known to be below --min-epss
    unreachable, \* the findings reachability marked not reachable
    old,         \* the ids of the report that the baseline has too
    urgent,      \* the findings with an SSVC decision at or over the threshold
    recorded     \* the history record written: a set of at most one

inputVars == <<live, expired, stale>>
scanVars == <<unit, failed, status, gaps, raw, rawWarn>>
reportVars == <<occ, warn, sev, suppressed>>
signalVars == <<known, catalog, scored, unreachable, old, urgent>>
vars == <<args, phase, exit, inputVars, scanVars, reportVars, signalVars, recorded>>

Phases == {"args", "fleet", "triage", "feeds", "scan", "assemble", "enrich",
           "reach", "baseline", "ssvc", "gate", "record", "done"}
Record == [exit: 0 .. 2, occ: SUBSET Occurrence, suppressed: SUBSET Occurrence,
           trusted: SUBSET Repos]

TypeOK ==
    /\ args \in Args
    /\ phase \in Phases
    /\ exit \in 0 .. 2
    /\ unit \in [Units -> {"waiting", "scanned", "errored"}]
    /\ failed \subseteq Repos
    /\ status \in [Repos -> {"waiting", "scanned", "errored"}]
    /\ gaps \subseteq Repos
    /\ stale \in BOOLEAN
    /\ raw \subseteq Hit
    /\ rawWarn \subseteq Warned
    /\ live \subseteq Decisions
    /\ expired \subseteq Decisions
    /\ occ \subseteq Occurrence
    /\ warn \subseteq Warned
    /\ sev \in [Advisories -> Severity]
    /\ suppressed \subseteq Occurrence
    /\ known \in BOOLEAN
    /\ catalog \subseteq Advisories
    /\ scored \subseteq Advisories
    /\ unreachable \subseteq Advisories
    /\ old \subseteq Advisories \cup Warnings
    /\ urgent \subseteq Advisories
    /\ recorded \subseteq Record

Init ==
    /\ args \in ArgSet
    /\ phase = "args"
    /\ exit = 2
    /\ unit = [u \in Units |-> "waiting"]
    /\ status = [r \in Repos |-> "waiting"]
    /\ failed = {} /\ gaps = {} /\ raw = {} /\ rawWarn = {}
    /\ live = {} /\ expired = {} /\ stale = FALSE
    /\ occ = {} /\ warn = {} /\ suppressed = {}
    /\ sev = [a \in Advisories |-> Unknown]
    /\ known = FALSE /\ catalog = {} /\ scored = {} /\ unreachable = {}
    /\ old = {} /\ urgent = {}
    /\ recorded = {}

-----------------------------------------------------------------------------
\* A phase that stops the run has said why; the exit code is all that is left of it.
Stop(code) == phase' = "done" /\ exit' = code
Goto(next) == phase' = next /\ exit' = exit

\* The flags that drop findings from the report.
Narrowing(a) == \/ a.baseline \/ a.minEpss \/ a.ignoreDev \/ a.ignorePhantom
                \/ a.reachableOnly \/ a.minSeverity # 0

RefuseNarrowedHistory ==
    /\ phase = "args"
    /\ IF args.history /\ Narrowing(args) THEN Stop(2) ELSE Goto("fleet")
    /\ UNCHANGED <<args, inputVars, scanVars, reportVars, signalVars, recorded>>

\* Config or a source's listing that cannot be read stops the run; so does a fleet none
\* of whose repositories could be checked out.
LoadFleet ==
    /\ phase = "fleet"
    /\ \/ Stop(2) /\ UNCHANGED failed
       \/ \E lost \in SUBSET Repos :
            /\ failed' = lost
            /\ IF lost # {} /\ lost = Repos THEN Stop(2) ELSE Goto("triage")
    /\ UNCHANGED <<args, inputVars, unit, status, gaps, raw, rawWarn, reportVars,
                   signalVars, recorded>>

\* Triage::load: what people decided, split by today's date.
LoadTriage ==
    /\ phase = "triage"
    /\ \/ Stop(2) /\ UNCHANGED <<live, expired>>
       \/ /\ Goto("feeds")
          /\ live' \in SUBSET Decisions
          /\ expired' \in SUBSET Decisions
    /\ UNCHANGED <<args, stale, scanVars, reportVars, signalVars, recorded>>

\* The advisory data: unloadable stops the run, and with --max-db-age so does data that
\* is too old or whose age cannot be told.
LoadFeeds ==
    /\ phase = "feeds"
    /\ \/ Stop(2) /\ UNCHANGED stale
       \/ /\ stale' \in BOOLEAN
          /\ stale' => args.maxAge
          /\ IF stale' THEN Stop(2) ELSE Goto("scan")
    /\ UNCHANGED <<args, live, expired, scanVars, reportVars, signalVars, recorded>>

-----------------------------------------------------------------------------
UnitsOf(r) == {u \in Units : u.repo = r}
\* The subsets of S with at most n members.
UpTo(n, S) == {{}} \cup {{f[i] : i \in 1 .. n} : f \in [1 .. n -> S]}
HitSets(r) == UpTo(MaxHits, {h \in Hit : h.repo = r})
WarnSets(r) == UpTo(MaxHits, {w \in Warned : w.repo = r})

\* scan_unit: what one ecosystem of one repository holds.  An errored unit keeps what it
\* gathered before it failed.
ScanUnit(u) ==
    /\ phase = "scan" /\ u.repo \notin failed /\ unit[u] = "waiting"
    /\ unit' \in {[unit EXCEPT ![u] = s] : s \in {"scanned", "errored"}}
    /\ \E H \in HitSets(u.repo), W \in WarnSets(u.repo) :
         /\ Cardinality(H) + Cardinality(W) <= MaxHits
         /\ raw' = raw \cup H /\ rawWarn' = rawWarn \cup W
    /\ \/ gaps' = gaps \cup {u.repo}
       \/ gaps' = gaps
    /\ Goto("scan")
    /\ UNCHANGED <<args, inputVars, failed, status, reportVars, signalVars, recorded>>

\* merge_units: a repository is errored when a unit of it errored or its directories could
\* not be walked in full.
MergeUnits(r) ==
    /\ phase = "scan" /\ r \notin failed /\ status[r] = "waiting"
    /\ \A u \in UnitsOf(r) : unit[u] # "waiting"
    /\ \E walkError \in BOOLEAN :
         status' = [status EXCEPT ![r] =
             IF walkError \/ \E u \in UnitsOf(r) : unit[u] = "errored"
             THEN "errored" ELSE "scanned"]
    /\ Goto("scan")
    /\ UNCHANGED <<args, inputVars, unit, failed, gaps, raw, rawWarn, reportVars,
                   signalVars, recorded>>

\* add_fleet_signals: --health (it stands for --signals and --release-age too) adds warnings
\* and, for a package registry with no answer, a gap; a refused lookup stops the run.  The
\* repositories that could not be checked out are errored.
AddFleetSignals ==
    /\ phase = "scan"
    /\ \A r \in Repos \ failed : status[r] # "waiting"
    /\ \/ Stop(2) /\ UNCHANGED <<gaps, status, rawWarn>>
       \/ /\ Goto("assemble")
          /\ \E unanswered \in SUBSET (Repos \ failed), W \in UpTo(MaxHits, Warned) :
               /\ args.health \/ (unanswered = {} /\ W = {})
               /\ gaps' = gaps \cup unanswered
               /\ rawWarn' = rawWarn \cup W
          /\ status' = [r \in Repos |-> IF r \in failed THEN "errored" ELSE status[r]]
    /\ UNCHANGED <<args, inputVars, unit, failed, raw, reportVars, signalVars, recorded>>

-----------------------------------------------------------------------------
HitsOf(a) == {h \in raw : h.adv = a}
Where(h) == [adv |-> h.adv, repo |-> h.repo, shape |-> h.shape]

\* correlate: one finding per advisory, with the worst severity any record gave; known
\* malware is critical whatever its records say.
CorrelatedSev(a) ==
    IF HitsOf(a) = {} THEN Unknown
    ELSE IF a \in Malware THEN Critical ELSE Max({h.sev : h \in HitsOf(a)})

Passes(s, floor) == s = Unknown \/ s >= floor

Suppresses(s, o) == s.id = o.adv /\ s.repo \in {AnyRepo, o.repo}
SetAside(o, S) == \E s \in S : Suppresses(s, o)

\* assemble_report: correlate, apply the live suppressions per occurrence, --min-severity,
\* --ignore-phantom, --ignore-dev-deps.  A warning is set aside only fleet-wide.
Assemble ==
    /\ phase = "assemble"
    /\ sev' = [a \in Advisories |-> CorrelatedSev(a)]
    /\ suppressed' = {o \in {Where(h) : h \in raw} : SetAside(o, live)}
    /\ occ' = {o \in {Where(h) : h \in raw} :
                 /\ ~SetAside(o, live)
                 /\ o.adv \in Malware \/ Passes(sev'[o.adv], args.minSeverity)
                 /\ ~(args.ignorePhantom /\ o.shape.phantom)
                 /\ ~(args.ignoreDev /\ o.shape.dev)}
    /\ warn' = {w \in rawWarn :
                  /\ ~\E s \in live : s.id = w.adv /\ s.repo = AnyRepo
                  /\ ~(args.ignorePhantom /\ w.shape.phantom)
                  /\ ~(args.ignoreDev /\ w.shape.dev)}
    /\ Goto("enrich")
    /\ UNCHANGED <<args, inputVars, scanVars, signalVars, recorded>>

Findings == {o.adv : o \in occ}

\* enrich_report: KEV, EPSS and the severities NVD knows.  A load that fails is a warning
\* and the run goes on; an EPSS file alone (kevSource FALSE) brings no catalogue.
EnrichRequested == args.enrich \/ args.failOnKev \/ args.failOnSsvc \/ args.minEpss

Enrich ==
    /\ phase = "enrich"
    /\ catalog' \in SUBSET Findings
    /\ \/ known' = FALSE /\ UNCHANGED <<scored, sev, occ>>
       \/ /\ EnrichRequested
          /\ known' = args.kevSource
          /\ scored' \in SUBSET Findings
          /\ sev' \in {f \in [Advisories -> Severity] : \A a \in Advisories :
                         f[a] # sev[a] => a \in Findings /\ sev[a] = Unknown}
          /\ occ' = IF args.minEpss THEN {o \in occ : o.adv \notin scored'} ELSE occ
    /\ Goto("reach")
    /\ UNCHANGED <<args, inputVars, scanVars, warn, suppressed, unreachable, old, urgent,
                   recorded>>

\* assess_reachability, then --reachable-only.
AssessReachability ==
    /\ phase = "reach"
    /\ \/ Stop(2) /\ UNCHANGED <<unreachable, occ>>
       \/ /\ Goto("baseline")
          /\ unreachable' \in SUBSET Findings
          /\ occ' = IF args.reachableOnly THEN {o \in occ : o.adv \notin unreachable'} ELSE occ
    /\ UNCHANGED <<args, inputVars, scanVars, warn, sev, suppressed, known, catalog, scored,
                   old, urgent, recorded>>

\* apply_baseline: keep the findings whose id the earlier report does not have.
ApplyBaseline ==
    /\ phase = "baseline"
    /\ IF args.baseline
       THEN \/ Stop(2) /\ UNCHANGED <<old, occ, warn>>
            \/ /\ Goto("ssvc")
               /\ old' \in SUBSET (Findings \cup {w.adv : w \in warn})
               /\ occ' = {o \in occ : o.adv \notin old'}
               /\ warn' = {w \in warn : w.adv \notin old'}
       ELSE Goto("ssvc") /\ UNCHANGED <<old, occ, warn>>
    /\ UNCHANGED <<args, inputVars, scanVars, sev, suppressed, known, catalog, scored,
                   unreachable, urgent, recorded>>

\* decide_ssvc: decisions need the KEV catalogue and the repositories' context (has it,
\* here); --fail-on-ssvc without decisions stops the run.
DecideSsvc ==
    /\ phase = "ssvc"
    /\ \E hasContext \in BOOLEAN :
         /\ urgent' \in SUBSET (IF hasContext /\ known THEN Findings ELSE {})
         /\ IF args.failOnSsvc /\ ~(hasContext /\ known) THEN Stop(2) ELSE Goto("gate")
    /\ UNCHANGED <<args, inputVars, scanVars, reportVars, known, catalog, scored,
                   unreachable, old, recorded>>

-----------------------------------------------------------------------------
\* The severity gate: --fail-on, else the lowest level; --fail-on-ssvc on its own takes its
\* place, for every finding that is not known malware.
SeverityGated == args.failOn # 0 \/ ~args.failOnSsvc
RuntimeFloor == IF args.failOn # 0 THEN args.failOn ELSE 1

\* vuln_gates: each occurrence answers to the floor of its own scope, known malware to the
\* runtime floor wherever it sits.
DevGates(s) ==
    /\ args.gateDev # NeverGates
    /\ Passes(s, IF args.gateDev = 0 THEN RuntimeFloor ELSE args.gateDev)
\* Mutant: malware in a dev dependency left to the dev gate.
GatesByScope(o) ==
    /\ SeverityGated \/ o.adv \in Malware
    /\ IF o.shape.dev THEN DevGates(sev[o.adv]) ELSE Passes(sev[o.adv], RuntimeFloor)
Gates(o) ==
    /\ SeverityGated \/ o.adv \in Malware
    /\ IF o.shape.dev /\ o.adv \notin Malware
       THEN DevGates(sev[o.adv]) ELSE Passes(sev[o.adv], RuntimeFloor)
\* Mutant: dev warnings never gate.
RuntimeWarningGates(w) == args.failOnWarnings /\ ~w.shape.dev
WarningGates(w) ==
    args.failOnWarnings /\ (args.gateDev # NeverGates \/ ~w.shape.dev)

\* exit_code: a repository that errored, or none scanned, is never a pass.
\* Mutant: a run is unread only when nothing of it was read.
UnreadWholly == ~\E r \in Repos : status[r] = "scanned"
Unread == \/ \E r \in Repos : status[r] = "errored"
          \/ ~\E r \in Repos : status[r] = "scanned"
Hits == \/ \E o \in occ : Gates(o)
        \/ \E w \in warn : WarningGates(w)
\* Mutant: the KEV gate left to what --fail-on lets through.
KevHitsOfGated == args.failOnKev /\ known /\ \E o \in occ : Gates(o) /\ o.adv \in catalog
KevHits == args.failOnKev /\ known /\ Findings \cap catalog # {}
\* Mutant: the SSVC gate only where it stands alone.
SsvcHitsAlone == args.failOnSsvc /\ ~SeverityGated /\ urgent # {}
SsvcHits == args.failOnSsvc /\ urgent # {}
BaselineHits == args.baseline /\ (occ # {} \/ warn # {})
\* Mutant: a lapsed decision fails only what the levels fail.
ExpiredHitsOfGated == \E o \in occ : Gates(o) /\ SetAside(o, expired)
ExpiredHits == \E o \in occ : SetAside(o, expired)

\* gate and combine_baseline: 2 wins over every hit.
Verdict ==
    IF Unread \/ (args.requireFull /\ gaps # {}) THEN 2
    ELSE IF Hits \/ KevHits \/ SsvcHits \/ BaselineHits \/ ExpiredHits THEN 1 ELSE 0

RenderAndGate ==
    /\ phase = "gate"
    /\ \/ Stop(2)
       \/ phase' = "record" /\ exit' = Verdict
    /\ UNCHANGED <<args, inputVars, scanVars, reportVars, signalVars, recorded>>

\* record_history: the run as it gated, with the repositories it vouches for (history.rs,
\* trustworthy).  What cannot be recorded fails the run, also when the snapshot is already
\* written and reading the directory or writing the index fails.
\* Mutant: gaps forgotten in what a run vouches for.
TrustworthyDespiteGaps == IF exit = 2 THEN {} ELSE {r \in Repos : status[r] = "scanned"}
Trustworthy == IF exit = 2 THEN {} ELSE {r \in Repos : status[r] = "scanned"} \ gaps
RecordHistory ==
    /\ phase = "record"
    /\ IF args.history
       THEN \E written, fails \in BOOLEAN :
              /\ written \/ fails
              /\ Stop(IF fails THEN 2 ELSE exit)
              /\ recorded' = IF written
                             THEN {[exit |-> exit, occ |-> occ, suppressed |-> suppressed,
                                    trusted |-> Trustworthy]}
                             ELSE recorded
       ELSE Stop(exit) /\ UNCHANGED recorded
    /\ UNCHANGED <<args, inputVars, scanVars, reportVars, signalVars>>

Next ==
    \/ RefuseNarrowedHistory \/ LoadFleet \/ LoadTriage \/ LoadFeeds
    \/ \E u \in Units : ScanUnit(u)
    \/ \E r \in Repos : MergeUnits(r)
    \/ AddFleetSignals \/ Assemble \/ Enrich \/ AssessReachability \/ ApplyBaseline
    \/ DecideSsvc \/ RenderAndGate \/ RecordHistory

Spec == Init /\ [][Next]_vars

-----------------------------------------------------------------------------
Ended(code) == phase = "done" /\ exit = code
Passed == phase = "done" /\ exit # 2

\* All was read: every repository, all of each one's units and checkouts included, with data
\* as fresh as asked for, and without a gap under --require-full-coverage.
ReadInFull ==
    /\ Repos # {} /\ failed = {}
    /\ \A u \in Units : unit[u] = "scanned"
    /\ args.maxAge => ~stale
    /\ args.requireFull => gaps = {}

\* The fail-closed spine (ARCHITECTURE.md): a run that ends 0 or 1 read what it was asked to.
PassMeansRead == Passed => ReadInFull

\* What the user asked not to be told of: a hit that a live decision covers, or that a
\* filter named on the command line drops.
Hidden(h) ==
    \/ SetAside(Where(h), live)
    \/ h.adv \notin Malware /\ ~Passes(CorrelatedSev(h.adv), args.minSeverity)
    \/ args.ignorePhantom /\ h.shape.phantom
    \/ args.ignoreDev /\ h.shape.dev
    \/ args.minEpss /\ h.adv \in scored
    \/ args.reachableOnly /\ h.adv \in unreachable
    \/ args.baseline /\ h.adv \in old

\* What the gate's levels tolerate: a finding whose severity is known to be below the floor
\* of its scope, which for known malware is the runtime floor; and if it is not known malware,
\* by --fail-on-ssvc standing alone with a decision below the threshold, or by a dev gate that
\* is off.
Tolerated(h) ==
    \/ /\ h.adv \notin Malware
       /\ \/ ~SeverityGated /\ h.adv \notin urgent
          \/ h.shape.dev /\ args.gateDev = NeverGates
          \/ /\ sev[h.adv] # Unknown
             /\ sev[h.adv] < (IF h.shape.dev /\ args.gateDev # 0
                              THEN args.gateDev ELSE RuntimeFloor)
    \/ h.adv \in Malware /\ sev[h.adv] # Unknown /\ sev[h.adv] < RuntimeFloor

\* A falsely clean report is the worst output: a run that ends 0 found nothing but what the
\* user hid or the levels tolerate, whatever the order the filters and gates came in.
CleanMeansExcused == Ended(0) => \A h \in raw : Hidden(h) \/ Tolerated(h)

\* --fail-on-warnings: exit 0 means that every warning was set aside fleet-wide, dropped by
\* a filter, or sits in a dev dependency that the dev gate leaves out.
WarningsExcused ==
    args.failOnWarnings /\ Ended(0) => \A w \in rawWarn :
        \/ \E s \in live : s.id = w.adv /\ s.repo = AnyRepo
        \/ args.ignorePhantom /\ w.shape.phantom
        \/ args.ignoreDev /\ w.shape.dev
        \/ args.baseline /\ w.adv \in old
        \/ args.gateDev = NeverGates /\ w.shape.dev

\* exit-codes.md: a lapsed decision on a finding that is open is a failure, at any level.
ExpiredDecisionFails ==
    Ended(0) => \A h \in raw : SetAside(Where(h), expired) => Hidden(h)

\* history.rs: "Fixed means a later trustworthy scan of that repo no longer has the finding",
\* so a record lists all the scan found, and vouches only for repositories read in full.  It
\* says 0 or 1 (no `gap` in a trend) only of a fleet that was all read, even where the run
\* itself ends 2 because the recording failed after it; and no run passes without its record.
RecordIsWhole ==
    /\ args.history /\ Passed => recorded # {}
    /\ \A rec \in recorded :
        /\ {Where(h) : h \in raw} = rec.occ \cup rec.suppressed
        /\ rec.occ \cap rec.suppressed = {}
        /\ exit \in {rec.exit, 2}
        /\ rec.exit # 2 => ReadInFull
        /\ \A r \in rec.trusted : /\ r \notin gaps \cup failed
                                  /\ \A u \in UnitsOf(r) : unit[u] = "scanned"

\* coverage-and-fail-closed.md: without KEV data --fail-on-ssvc ends 2; with it, 0 means no
\* decision at or over the threshold on anything the filters left.
SsvcGateKnows ==
    args.failOnSsvc => /\ Passed => known
                       /\ Ended(0) => \A h \in raw : Hidden(h) \/ h.adv \notin urgent

\* --fail-on-kev: with the catalogue loaded, 0 means nothing visible is on it.
KevGateHolds ==
    args.failOnKev /\ known /\ Ended(0) => \A h \in raw : Hidden(h) \/ h.adv \notin catalog
=============================================================================
