------------------------------- MODULE History -------------------------------
(***************************************************************************)
(* A history directory (crates/cli/src/history.rs): one snapshot file per   *)
(* run and an index of every finding's first sighting and status, kept by   *)
(* recorders that may crash between any two steps, run at the same time,    *)
(* and share the directory with git, which brings in other machines' runs.  *)
(*                                                                          *)
(* Abstracted: a key's package and version are part of its advisory;        *)
(* severity, SSVC decision, owner, last sighting and the package list are   *)
(* left out.  Time is the second the run's id and `at` are made of; two     *)
(* runs of one second are ordered by the hash in their ids.                 *)
(***************************************************************************)
EXTENDS Integers, FiniteSets, FiniteSetsExt

CONSTANTS
    Recorders,   \* processes that record into the directory
    Repos,
    Keys,        \* finding identities: [adv, eco, repo]; eco 0 is Cargo, the default
    Real,        \* the keys a scan can really find
    Hashes,      \* what tells two runs of one second apart, and orders them
    MaxTime,     \* bound on the clock
    MaxRuns,     \* bound on the runs ever recorded
    Settings     \* the directories: [recorders: the processes that use it, keep: its
                 \* retention in seconds (0 keeps every snapshot), shared: whether git
                 \* brings snapshots of other machines and may damage its index, and
                 \* bounds of its own on the clock, the runs and their hashes: till, runs,
                 \* hashes]

ASSUME HistoryAssumption ==
    /\ Real \subseteq Keys /\ IsFiniteSet(Real)
    /\ \A k \in Keys : /\ k = [adv |-> k.adv, eco |-> k.eco, repo |-> k.repo]
                        /\ k.eco \in Nat /\ k.repo \in Repos
                        /\ \A e \in {0} \cup {j.eco : j \in Keys} : [k EXCEPT !.eco = e] \in Keys
    /\ Hashes \subseteq Nat
    /\ MaxTime \in Nat /\ MaxRuns \in Nat /\ IsFiniteSet(Recorders)
    /\ Settings \subseteq [recorders: SUBSET Recorders, keep: Nat, shared: BOOLEAN,
                            till: 0 .. MaxTime, runs: 0 .. MaxRuns,
                            hashes: SUBSET Hashes]

VARIABLES
    dir,    \* the directory's setting, one of Settings
    now,    \* the clock
    disk,   \* the snapshots in the directory
    index,  \* the file behind index.json, or NoFile
    tmp,    \* the file behind index.tmp, or NoFile
    file,   \* file -> what is in it
    proc,   \* Recorders -> the state of the recorder
    log     \* every run ever recorded, with what its scan truly found (ghost)

vars == <<dir, now, disk, index, tmp, file, proc, log>>

NoFile == 0
Files == 1 .. Cardinality(Recorders) + 2
Time == 0 .. MaxTime

\* read: the repositories scanned in full.  The ids in ignored are those the run wrote.
Snapshot == [at: Time, hash: Hashes, exit: {0, 2}, read: SUBSET Repos,
             seen: SUBSET Keys, ignored: SUBSET Keys]
Id(s) == <<s.at, s.hash>>
Empty == [runs |-> {}, entries |-> <<>>]

\* A file that holds no whole JSON value.
Unreadable == [runs |-> {<<-1, -1>>}, entries |-> <<>>]
Blank == [runs |-> {<<-1, 0>>}, entries |-> <<>>]
Idle == [pc |-> "idle", at |-> 0, list |-> {}, file |-> NoFile, mine |-> Empty]

Init ==
    /\ dir \in Settings
    /\ now = 0 /\ disk = {} /\ log = {}
    /\ index = NoFile /\ tmp = NoFile
    /\ file = [f \in Files |-> Blank]
    /\ proc = [p \in Recorders |-> Idle]

-----------------------------------------------------------------------------
\* suppressed_keys: the ecosystem is that of the report's (last) finding with the
\* advisory, Cargo when the report has none left.
EcoOf(adv, seen) ==
    LET ecos == {k.eco : k \in {j \in seen : j.adv = adv}}
    IN  IF ecos = {} THEN 0 ELSE Max(ecos)
SuppressedKeys(hidden, seen) == {[k EXCEPT !.eco = EcoOf(k.adv, seen)] : k \in hidden}

Trustworthy(s) == IF s.exit = 2 THEN {} ELSE s.read

\* fold: one run into the index.
Touched(s) == s.seen \cup s.ignored
\* Mutant: what a run does not list is fixed, whether or not the run read the repository.
FoldEntryGapFixes(ix, s, k) ==
    LET known == k \in DOMAIN ix.entries
        e == ix.entries[k]
    IN  IF k \in Touched(s)
        THEN [status |-> IF k \in s.ignored THEN "ignored" ELSE "open",
              first |-> IF known THEN e.first ELSE s.at,
              fixed |-> 0,
              reopened |-> IF known /\ e.status = "fixed" THEN e.reopened + 1
                           ELSE IF known THEN e.reopened ELSE 0]
        ELSE IF e.status # "fixed" THEN [e EXCEPT !.status = "fixed", !.fixed = s.at] ELSE e
FoldEntry(ix, s, k) ==
    LET known == k \in DOMAIN ix.entries
        e == ix.entries[k]
    IN  IF k \in Touched(s)
        THEN [status |-> IF k \in s.ignored THEN "ignored" ELSE "open",
              first |-> IF known THEN e.first ELSE s.at,
              fixed |-> 0,
              reopened |-> IF known /\ e.status = "fixed" THEN e.reopened + 1
                           ELSE IF known THEN e.reopened ELSE 0]
        ELSE IF e.status # "fixed" /\ k.repo \in Trustworthy(s)
        THEN [e EXCEPT !.status = "fixed", !.fixed = s.at]
        ELSE e
Fold(ix, s) ==
    [runs |-> ix.runs \cup {Id(s)},
     entries |-> [k \in DOMAIN ix.entries \cup Touched(s) |-> FoldEntry(ix, s, k)]]

Before(s, t) == s.at < t.at \/ (s.at = t.at /\ s.hash < t.hash)
IsNewest(s, S) == \A t \in S \ {s} : Before(t, s)
Newest(S) == CHOOSE s \in S : IsNewest(s, S)
\* (Bound by a set of one, as here, a value is computed once.)
Only(S) == CHOOSE x \in S : TRUE
FoldAll(S, ix) ==
    LET upTo[T \in SUBSET S] ==
            IF T = {} THEN ix
            ELSE Only({Only({Fold(before, last) : before \in {upTo[T \ {last}]}}) :
                         last \in {Newest(T)}})
    IN  upTo[S]

Least(a, b) == IF a < b THEN a ELSE b
Greatest(a, b) == IF a > b THEN a ELSE b
\* rebuild: from the snapshots, keeping what the old index alone knew.
Rejoined(new, old) ==
    LET both == DOMAIN new.entries \cap DOMAIN old.entries
    IN  [runs |-> new.runs \cup old.runs,
         entries |-> [k \in DOMAIN new.entries \cup DOMAIN old.entries |->
             IF k \in both
             THEN [new.entries[k] EXCEPT
                     !.first = Least(@, old.entries[k].first),
                     !.reopened = Greatest(@, old.entries[k].reopened)]
             ELSE IF k \in DOMAIN new.entries THEN new.entries[k] ELSE old.entries[k]]]
Rebuild(S, old) == Only({Rejoined(new, old) : new \in {FoldAll(S, Empty)}})

\* Mutant: an index that covers the newest snapshot is taken to cover them all.
LoadTrusting(S, ix) ==
    IF ix \in {Unreadable, Blank} \/ S = {} THEN Rebuild(S, Empty)
    ELSE IF Id(Newest(S)) \in ix.runs THEN ix
    ELSE Rebuild(S, ix)
\* load: fold what the index does not cover when all of it is newer than what it covers,
\* else rebuild; without a readable index, rebuild from the snapshots alone.
Load(S, ix) ==
    LET known == {s \in S : Id(s) \in ix.runs}
    IN  IF ix \in {Unreadable, Blank} THEN Rebuild(S, Empty)
        ELSE IF \A n \in S \ known, k \in known : Before(k, n) THEN FoldAll(S \ known, ix)
        ELSE Rebuild(S, ix)
Contents(i) == IF i = NoFile THEN Empty ELSE file[i]

\* What any reader of the directory is told now.
View == Load(disk, Contents(index)).entries

-----------------------------------------------------------------------------
\* What a scan can report: findings, some of them set aside by decisions.  found is the
\* truth; the snapshot has seen and ignored.  A run that exits 2 may have read anything.
Fresh(at, h) == ~\E r \in log : r.at = at /\ r.hash = h
Reads == {<<0, R>> : R \in SUBSET Repos} \cup {<<2, Repos>>}
Runs(at) ==
    {[at |-> at, hash |-> h, exit |-> x[1], read |-> x[2], seen |-> F \ H,
      ignored |-> SuppressedKeys(F \cap H, F \ H), found |-> F] :
         h \in {g \in dir.hashes : Fresh(at, g)}, x \in Reads,
         F \in SUBSET Real, H \in SUBSET Real}
Saved(r) == [at |-> r.at, hash |-> r.hash, exit |-> r.exit, read |-> r.read,
             seen |-> r.seen, ignored |-> r.ignored]
CanRun == Cardinality(log) < dir.runs

\* record: the snapshot first, under a name of its own.
Record(p) ==
    /\ proc[p].pc = "idle" /\ CanRun
    /\ \E r \in Runs(now) :
         /\ log' = log \cup {r}
         /\ disk' = disk \cup {Saved(r)}
    /\ proc' = [proc EXCEPT ![p] = [Idle EXCEPT !.pc = "list", !.at = now]]
    /\ UNCHANGED <<now, index, tmp, file>>

\* load reads every snapshot, and then the index.
ListSnapshots(p) ==
    /\ proc[p].pc = "list"
    /\ proc' = [proc EXCEPT ![p].pc = "load", ![p].list = disk]
    /\ UNCHANGED <<now, disk, index, tmp, file, log>>

LoadIndex(p) ==
    /\ proc[p].pc = "load"
    /\ proc' = [proc EXCEPT ![p].pc = "open", ![p].mine = Load(proc[p].list, Contents(index))]
    /\ UNCHANGED <<now, disk, index, tmp, file, log>>

\* write_atomic: open index.tmp (one name for every recorder) and truncate it, fill it,
\* rename it over index.json.  Filling a file another recorder filled leaves what is
\* written or, when that is the shorter, a mix of both.
Unused == {f \in Files : f \notin {index, tmp} /\ \A p \in Recorders : proc[p].file # f}
OpenTmp(p) ==
    /\ proc[p].pc = "open"
    /\ LET f == IF tmp = NoFile THEN Min(Unused) ELSE tmp IN
         /\ tmp' = f
         /\ file' = [file EXCEPT ![f] = Blank]
         /\ proc' = [proc EXCEPT ![p].pc = "fill", ![p].file = f]
    /\ UNCHANGED <<now, disk, index, log>>

FillTmp(p) ==
    /\ proc[p].pc = "fill"
    /\ LET f == proc[p].file IN
         file' \in {[file EXCEPT ![f] = c] :
                      c \in {proc[p].mine} \cup (IF file[f] = Blank THEN {} ELSE {Unreadable})}
    /\ proc' = [proc EXCEPT ![p].pc = "rename", ![p].file = NoFile, ![p].mine = Empty]
    /\ UNCHANGED <<now, disk, index, tmp, log>>

\* A file that loses its last name is gone once nobody has it open.
Held(f) == f = NoFile \/ \E p \in Recorders : proc[p].file = f

\* A rename that finds no index.tmp fails the run.
RenameTmp(p) ==
    /\ proc[p].pc = "rename"
    /\ IF tmp = NoFile
       THEN proc' = [proc EXCEPT ![p] = Idle] /\ UNCHANGED <<index, tmp, file>>
       ELSE /\ index' = tmp /\ tmp' = NoFile
            /\ file' = IF Held(index) THEN file ELSE [file EXCEPT ![index] = Blank]
            /\ proc' = [proc EXCEPT ![p].pc = "prune"]
    /\ UNCHANGED <<now, disk, log>>

\* Snapshots older than keep go, except the newest of those that were read.  A file that
\* cannot be removed is a note, and stays.
Outdated(p) == {s \in proc[p].list : /\ dir.keep > 0 /\ s.at < proc[p].at - dir.keep
                                     /\ ~IsNewest(s, proc[p].list)}
Prune(p) ==
    /\ proc[p].pc = "prune"
    /\ \E gone \in SUBSET Outdated(p) : disk' = disk \ gone
    /\ proc' = [proc EXCEPT ![p] = Idle]
    /\ UNCHANGED <<now, index, tmp, file, log>>

Crash(p) ==
    /\ proc[p].pc # "idle"
    /\ proc' = [proc EXCEPT ![p] = Idle]
    /\ UNCHANGED <<now, disk, index, tmp, file, log>>

-----------------------------------------------------------------------------
\* The environment: the clock, git bringing a run recorded elsewhere (its snapshot only),
\* and an index left with conflict markers by a merge, or lost.
Tick == now < dir.till /\ now' = now + 1 /\ UNCHANGED <<disk, index, tmp, file, proc, log>>

Arrive ==
    /\ dir.shared /\ CanRun
    /\ \E at \in 0 .. now : \E r \in Runs(at) :
         log' = log \cup {r} /\ disk' = disk \cup {Saved(r)}
    /\ UNCHANGED <<now, index, tmp, file, proc>>

DamageIndex ==
    /\ dir.shared /\ index # NoFile
    /\ \/ file' = [file EXCEPT ![index] = Unreadable] /\ UNCHANGED index
       \/ index' = NoFile /\ file' = [file EXCEPT ![index] = Blank]
    /\ UNCHANGED <<now, disk, tmp, proc, log>>

Next ==
    /\ \/ \E p \in dir.recorders : \/ Record(p) \/ ListSnapshots(p) \/ LoadIndex(p) \/ OpenTmp(p)
                                    \/ FillTmp(p) \/ RenameTmp(p) \/ Prune(p) \/ Crash(p)
       \/ Tick \/ Arrive \/ DamageIndex
    /\ UNCHANGED dir

Spec == Init /\ [][Next]_vars

-----------------------------------------------------------------------------
\* Mutant: new is only what was never seen before.
NewFirstSeen ==
    LET entries == View IN {k \in DOMAIN entries : /\ entries[k].status = "open"
                                                  /\ entries[k].first = Newest(disk).at}
\* Mutant: compared with the snapshot before the newest, not with the index before it.
NewSinceLastSnapshot ==
    LET earlier == disk \ {Newest(disk)}
        last == IF earlier = {} THEN {} ELSE Newest(earlier).seen
        entries == View
    IN  {k \in DOMAIN entries : entries[k].status = "open" /\ k \notin last}
\* history::changes: what the newest run changed, for `notify` and the reports.  The index
\* as it stood before that run is rebuilt from the earlier snapshots still there.
NewFindings ==
    LET latest == Newest(disk)
        before == Rebuild(disk \ {latest}, Empty).entries
        entries == View
    IN  {k \in DOMAIN entries :
           /\ entries[k].status = "open"
           /\ IF k \in DOMAIN before THEN before[k].status # "open"
              ELSE entries[k].first = latest.at}

\* The promise: with every run ever recorded as the runs, the view is the ledger, through
\* retention, crashes, recorders at once and merges.
Recorded == {Saved(r) : r \in log}
Ledger == INSTANCE HistoryLedger WITH Run <- Snapshot, runs <- Recorded, ledger <- View
ImplementsLedger == Ledger!Spec

\* history.rs, module comment: "Fixed means a later trustworthy scan of that repo no longer
\* has the finding", whether its report listed it or an ignore set it aside.
FixedMeansGone ==
    LET entries == View IN
    \A k \in DOMAIN entries : entries[k].status = "fixed" =>
        \E r \in log : /\ r.at = entries[k].fixed /\ k \notin r.found
                      /\ k.repo \in Trustworthy(r)

\* What the directory said before the newest run, by the promise.
OpenBefore ==
    LET earlier == Ledger!LedgerOf(Recorded \ {Newest(Recorded)})
    IN  {k \in DOMAIN earlier : earlier[k].status = "open"}

\* Changes.new: "Open now and not open before: first seen, back after a fix, or no longer
\* ignored": no news is left out.  With retention one may be: a finding back after a fix whose
\* snapshots were pruned has an old first sighting and nothing that says it was fixed.
NewIsReported ==
    dir.keep = 0 /\ disk # {} => LET entries == View IN
        \A k \in DOMAIN entries \ (OpenBefore \cup NewFindings) : entries[k].status # "open"

\* "a gap run in between never makes old findings look new" (history.rs:974): what was open
\* before is never told as new, whatever retention pruned and merges brought, unless a file
\* could not be pruned and newer ones could: what it ignored and they opened is then news.
Suffix == \A r \in Recorded, s \in disk : Before(s, r) => r \in disk
OldIsNotNew ==
    disk # {} /\ Suffix => OpenBefore \cap NewFindings = {}
=============================================================================
