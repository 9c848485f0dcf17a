---------------------------- MODULE MCFleetScan ----------------------------
(***************************************************************************)
(* FleetScan for TLC: two repositories, one of them with two units, and     *)
(* the command lines grouped by the question a run asks.                    *)
(***************************************************************************)
EXTENDS FleetScan

MCRepos == {"app", "lib"}
OneRepo == {"app"}
MCUnits == {[repo |-> "app", eco |-> "cargo"], [repo |-> "app", eco |-> "npm"],
            [repo |-> "lib", eco |-> "cargo"]}
OneUnit == {[repo |-> "app", eco |-> "cargo"]}
Plain == {[dev |-> FALSE, phantom |-> FALSE]}
\* Runtime, dev, and of a package that is in no build.
ThreeShapes == {[dev |-> FALSE, phantom |-> FALSE], [dev |-> TRUE, phantom |-> FALSE],
                [dev |-> FALSE, phantom |-> TRUE]}

NoFlags == [failOn |-> 0, gateDev |-> 0, failOnKev |-> FALSE, failOnSsvc |-> FALSE,
            failOnWarnings |-> FALSE, requireFull |-> FALSE, maxAge |-> FALSE,
            health |-> FALSE, history |-> FALSE, minSeverity |-> 0, minEpss |-> FALSE,
            ignoreDev |-> FALSE, ignorePhantom |-> FALSE, reachableOnly |-> FALSE,
            baseline |-> FALSE, kevSource |-> TRUE, enrich |-> FALSE]

\* The command lines of each run.
Filters == {"severity", "epss", "dev", "phantom", "reach", "baseline"}
Filtering(f) == [NoFlags EXCEPT !.minSeverity = IF "severity" \in f THEN 2 ELSE 0,
                   !.minEpss = "epss" \in f, !.ignoreDev = "dev" \in f,
                   !.ignorePhantom = "phantom" \in f, !.reachableOnly = "reach" \in f,
                   !.baseline = "baseline" \in f]
CoverageArgs == {[NoFlags EXCEPT !.requireFull = f, !.maxAge = m, !.health = h, !.history = y] :
                   f, m, h, y \in BOOLEAN}
                \cup {[Filtering({f}) EXCEPT !.history = TRUE] : f \in Filters \ {"severity"}}
GateArgs == {[NoFlags EXCEPT !.failOn = s, !.gateDev = d, !.failOnKev = k, !.failOnSsvc = v] :
               s \in {0, 1, 2}, d \in {-1, 0, 1, 2}, k, v \in BOOLEAN}
FilterArgs == {Filtering(f) : f \in {g \in SUBSET Filters : Cardinality(g) \in {0, 1, 2, 6}}}
WarningArgs == {[NoFlags EXCEPT !.failOnWarnings = w, !.gateDev = g, !.ignoreDev = d,
                   !.ignorePhantom = p, !.baseline = b] :
                  w, d, p, b \in BOOLEAN, g \in {-1, 0}}
               \cup {[NoFlags EXCEPT !.failOnWarnings = TRUE, !.health = TRUE]}
MalwareArgs == {[NoFlags EXCEPT !.failOn = s, !.gateDev = d, !.failOnSsvc = v, !.minSeverity = 2] :
                  s \in {0, 2}, d \in {-1, 0}, v \in BOOLEAN}
VerdictArgs == GateArgs \cup FilterArgs \cup WarningArgs \cup MalwareArgs

OneDecision == {[id |-> "A1", repo |-> "app"]}
\* A decision on one repository, and one on the whole fleet.
EitherScope == {[id |-> "A1", repo |-> "app"], [id |-> "W1", repo |-> AnyRepo]}
=============================================================================
