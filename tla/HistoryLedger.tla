---------------------------- MODULE HistoryLedger ----------------------------
(***************************************************************************)
(* What a history directory promises (history.rs, module comment; docs/     *)
(* specs/09-history-and-triage.md): whatever runs were recorded, in         *)
(* whatever order their files arrived, a reader is told of every finding    *)
(* when it was first seen, whether it is open, ignored or fixed, since when *)
(* it is fixed and how often it came back.  Stated over the set of runs,    *)
(* with no index, no files and no order of processing.                      *)
(***************************************************************************)
EXTENDS Integers, FiniteSets, FiniteSetsExt

CONSTANTS Run   \* the runs that can be recorded: [at, hash, exit, read, seen, ignored]

VARIABLES runs, ledger
ledgerVars == <<runs, ledger>>

Earlier(r, s) == r.at < s.at \/ (r.at = s.at /\ r.hash < s.hash)
Vouches(r, k) == r.exit # 2 /\ k.repo \in r.read
Sights(r, k) == k \in r.seen \cup r.ignored
Last(S) == CHOOSE r \in S : \A s \in S \ {r} : Earlier(s, r)
First(S) == CHOOSE r \in S : \A s \in S \ {r} : Earlier(r, s)

Sightings(R, k) == {r \in R : Sights(r, k)}
\* The runs that show finding k gone: trustworthy for its repository, without it.
Clean(R, k) == {r \in R : Vouches(r, k) /\ ~Sights(r, k)}
\* The sightings that bring k back: it was shown gone since the sighting before.
Comebacks(R, k) ==
    {r \in Sightings(R, k) :
        LET before == {s \in Sightings(R, k) : Earlier(s, r)}
        IN  before # {} /\ \E c \in Clean(R, k) : Earlier(Last(before), c) /\ Earlier(c, r)}

Told(R, k) ==
    LET last == Last(Sightings(R, k))
        gone == {c \in Clean(R, k) : Earlier(last, c)}
    IN  [status |-> IF gone # {} THEN "fixed"
                    ELSE IF k \in last.ignored THEN "ignored" ELSE "open",
         first |-> First(Sightings(R, k)).at,
         fixed |-> IF gone # {} THEN First(gone).at ELSE 0,
         reopened |-> Cardinality(Comebacks(R, k))]

LedgerOf(R) == [k \in UNION {r.seen \cup r.ignored : r \in R} |-> Told(R, k)]

Init == runs = {} /\ ledger = <<>>
\* Said of the runs after the step, so that TLC need not try every run there can be.
AddRun ==
    \E r \in runs' \ runs : r \in Run /\ runs' = runs \cup {r} /\ ledger' = LedgerOf(runs')
Next == AddRun
Spec == Init /\ [][Next]_ledgerVars
=============================================================================
