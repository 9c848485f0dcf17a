---------------------------- MODULE FleetSources ----------------------------
(***************************************************************************)
(* Fleet sources (crates/cli/src/sources.rs): the repos of a forge are      *)
(* listed, cloned or refreshed with git, and scanned, while people push,    *)
(* rename and remove repos and make other branches the default; a listing   *)
(* or a git command can fail, and the run can be killed between commands.   *)
(* The listing cache and the checkouts stay for the runs that follow.       *)
(*                                                                          *)
(* Abstracted: one source, read in one go, with no [[repo]] of the same id; *)
(* a repo the source's filters drop is as good as gone. A git command is    *)
(* done, fails, or is killed with the run: one that writes files can stop   *)
(* half way, and one that is killed can leave a lock that nothing removes.  *)
(***************************************************************************)
EXTENDS Integers, FiniteSets, TLC

CONSTANTS
    Keys,        \* the forge's own ids of repos
    Names,       \* owner/name, the id in the report
    Branches,
    Starts,      \* what Keys are named at first
    MaxPushes,   \* bound on commits
    MaxChanges,  \* bound on renames, removals and changes of a default branch
    MaxFaults,   \* bound on failures and kills
    MaxCut       \* bound on the git commands that one kill cuts off

ASSUME FleetSourcesAssumption ==
    /\ MaxPushes \in Nat \ {0} /\ MaxChanges \in Nat
    /\ MaxFaults \in Nat /\ MaxCut \in Nat

Gone == "gone"
ASSUME NamesAssumption ==
    /\ Gone \notin Names
    /\ "main" \in Branches
    /\ Starts \subseteq [Keys -> Names \cup {Gone}]
    /\ \A names \in Starts : \A j \in Keys, k \in Keys :
         names[j] = names[k] => j = k \/ names[j] = Gone

Never == 0     \* no commit
Part == -1     \* some of a commit's files
Commits == 1 .. MaxPushes
Commands == {"fleet sync", "scan --sync", "scan"}
Steps == {"look", "sparse, reset", "reset", "sparse, checkout", "checkout", "head", "ok", "failed"}

VARIABLES
    forge,    \* Keys -> name, default branch, and the commit of each branch
    pushes, changes, faults,
    cache,    \* the listing cache: read once listed, and the repos it holds
    dirs,     \* Names -> the checkout: its repository, the branch it follows, its files, files
              \* of other commits beside them, and the step git cannot get past any more
    run,      \* the run under way, or what the last one ended with
    report    \* Names -> what the last scan says of the repo: a commit, and what it read

vars == <<forge, pushes, changes, faults, cache, dirs, run, report>>

Missing == [git |-> FALSE, follows |-> Gone, fetched |-> Never, head |-> Never, tree |-> Never,
            litter |-> {}, stuck |-> "none"]
NoReport == [commit |-> Never, tree |-> Never, litter |-> {}]
NoChange == [added |-> {}, removed |-> {}, renamed |-> {}]
Idle == [pc |-> "idle"]

\* What a listing of the forge says.
OnForge == {k \in Keys : forge[k].name # Gone}
Listing == {[id |-> forge[k].name, key |-> k, branch |-> forge[k].default] : k \in OnForge}
RecordIds(listed) == {r.id : r \in listed}
\* The commit of a branch of the repo that has a name in f, and of its default branch.
Remote(f, n, branch) ==
    IF \E k \in Keys : f[k].name = n
    THEN LET k == CHOOSE k \in Keys : f[k].name = n
         IN  f[k].heads[IF branch = "HEAD" THEN f[k].default ELSE branch]
    ELSE Never
Newest(f, n, branch) == {Remote(f, n, branch), Remote(f, n, "HEAD")}

Running == run.pc = "checkouts"
\* History: what a repo's branch has been at while the run under way went on.
Seen == run' = IF ~Running THEN run
               ELSE [run EXCEPT !.had = [n \in DOMAIN run.had |->
                       run.had[n] \cup Newest(forge', n, run.branch[n])]]

(***************************************************************************)
(* People.                                                                  *)
(***************************************************************************)
Push(k) ==
    /\ k \in OnForge /\ pushes < MaxPushes
    /\ pushes' = pushes + 1
    /\ forge' = [forge EXCEPT ![k].heads[forge[k].default] = pushes']
    /\ Seen
    /\ UNCHANGED <<changes, faults, cache, dirs, report>>

\* Another name, or none; a name can pass from one repo to another.
Rename(k, n) ==
    /\ changes < MaxChanges /\ forge[k].name # n
    /\ n # Gone => \A other \in Keys : forge[other].name # n
    /\ changes' = changes + 1
    /\ forge' = [forge EXCEPT ![k].name = n]
    /\ Seen
    /\ UNCHANGED <<pushes, faults, cache, dirs, report>>

\* The new default starts where the old one is, which stays or goes.
MoveDefault(k, branch, stays) ==
    /\ k \in OnForge /\ changes < MaxChanges /\ branch # forge[k].default
    /\ changes' = changes + 1
    /\ forge' = [forge EXCEPT ![k].default = branch,
                   ![k].heads = [b \in Branches |->
                      IF b = branch THEN forge[k].heads[forge[k].default]
                      ELSE IF stays THEN forge[k].heads[b] ELSE Never]]
    /\ Seen
    /\ UNCHANGED <<pushes, faults, cache, dirs, report>>

(***************************************************************************)
(* InventoryChange::between.                                                *)
(***************************************************************************)
Renames(before, now) ==
    {[from |-> p[1].id, to |-> p[2].id] :
       p \in {p \in before \X now : /\ p[1].key = p[2].key
                                    /\ p[1].id \notin RecordIds(now)
                                    /\ p[2].id \notin RecordIds(before)}}
BetweenToldTwice(before, now) ==
    [added |-> RecordIds(now) \ RecordIds(before), removed |-> RecordIds(before) \ RecordIds(now),
     renamed |-> Renames(before, now)]
Between(before, now) ==
    LET renamed == Renames(before, now)
        moved == {r.from : r \in renamed} \cup {r.to : r \in renamed}
    IN  [added |-> (RecordIds(now) \ RecordIds(before)) \ moved,
         removed |-> (RecordIds(before) \ RecordIds(now)) \ moved,
         renamed |-> renamed]

(***************************************************************************)
(* A run: list, check out, scan.                                            *)
(***************************************************************************)
Syncs(command) == command # "scan"

\* The cache is written before any checkout; the filters see both listings.
Started(command, before, listed) ==
    [pc |-> "checkouts", command |-> command, before |-> before, listed |-> listed,
     change |-> IF Syncs(command) /\ before.read THEN Between(before.repos, listed) ELSE NoChange,
     branch |-> [n \in RecordIds(listed) |-> (CHOOSE r \in listed : r.id = n).branch],
     at |-> [n \in RecordIds(listed) |-> "look"], commit |-> [n \in RecordIds(listed) |-> Never],
     had |-> [n \in RecordIds(listed) |->
                Newest(forge, n, (CHOOSE r \in listed : r.id = n).branch)]]

Start(command) ==
    /\ ~Running
    /\ IF Syncs(command)
       THEN /\ cache' = [read |-> TRUE, repos |-> Listing]
            /\ run' = Started(command, cache, Listing)
       ELSE /\ run' = IF cache.read THEN Started(command, cache, cache.repos)
                      ELSE [pc |-> "stopped", code |-> 2]
            /\ UNCHANGED cache
    /\ UNCHANGED <<forge, pushes, changes, faults, dirs, report>>
\* A listing that cannot be read stops the run.
StartFails(command) ==
    /\ ~Running /\ Syncs(command) /\ faults < MaxFaults
    /\ faults' = faults + 1
    /\ run' = [pc |-> "stopped", code |-> 2]
    /\ UNCHANGED <<forge, pushes, changes, cache, dirs, report>>

At(n, step) == Running /\ n \in DOMAIN run.at /\ run.at[n] = step
\* git gets to work: no lock stands in its way, and there is a remote to fetch from.
Works(n, step) == At(n, step) /\ dirs[n].stuck # step
Goes(n, step) == run' = [run EXCEPT !.at[n] = step]

\* Without a sync, the checkout there is: none is a gap.
Look(n) ==
    /\ At(n, "look") /\ ~Syncs(run.command)
    /\ Goes(n, IF dirs[n].git THEN "head" ELSE "failed")
    /\ UNCHANGED <<forge, pushes, changes, faults, cache, dirs, report>>

\* fetch follows the one branch that was cloned, and fails when the remote has it no more.
Fetch(n) ==
    /\ Works(n, "look") /\ Syncs(run.command) /\ dirs[n].git
    /\ LET commit == Remote(forge, n, dirs[n].follows)
       IN  IF commit = Never THEN Goes(n, "failed") /\ UNCHANGED dirs
           ELSE /\ Goes(n, "sparse, reset")
                /\ dirs' = [dirs EXCEPT ![n].fetched = commit]
    /\ UNCHANGED <<forge, pushes, changes, faults, cache, report>>

\* clone takes the branch that was listed, and leaves nothing when it fails.
Clone(n) ==
    /\ At(n, "look") /\ Syncs(run.command) /\ ~dirs[n].git
    /\ LET commit == Remote(forge, n, run.branch[n])
       IN  IF commit = Never THEN Goes(n, "failed") /\ dirs' = [dirs EXCEPT ![n] = Missing]
           ELSE /\ Goes(n, "sparse, checkout")
                /\ dirs' = [dirs EXCEPT ![n] = [Missing EXCEPT !.git = TRUE, !.head = commit,
                                                  !.follows = run.branch[n]]]
    /\ UNCHANGED <<forge, pushes, changes, faults, cache, report>>

Sparse(n) ==
    /\ \/ At(n, "sparse, reset") /\ Goes(n, "reset")
       \/ At(n, "sparse, checkout") /\ Goes(n, "checkout")
    /\ UNCHANGED <<forge, pushes, changes, faults, cache, dirs, report>>

ResetSoft(n) == dirs' = [dirs EXCEPT ![n].head = dirs[n].fetched]
\* Files that git does not know of stay, but those the commit has too.
ResetTo(n) ==
    \E litter \in SUBSET (dirs[n].litter \ {dirs[n].fetched}) :
      dirs' = [dirs EXCEPT ![n] = [@ EXCEPT !.tree = dirs[n].fetched, !.head = dirs[n].fetched,
                                            !.litter = litter]]
Write(n) ==
    /\ \/ Works(n, "reset") /\ ResetTo(n)
       \/ At(n, "checkout") /\ dirs' = [dirs EXCEPT ![n].tree = dirs[n].head]
    /\ Goes(n, "head")
    /\ UNCHANGED <<forge, pushes, changes, faults, cache, report>>

\* rev-parse fails where a clone was cut off.
Head(n) ==
    /\ At(n, "head")
    /\ run' = IF dirs[n].head = Never THEN [run EXCEPT !.at[n] = "failed"]
              ELSE [run EXCEPT !.at[n] = "ok", !.commit[n] = dirs[n].head]
    /\ UNCHANGED <<forge, pushes, changes, faults, cache, dirs, report>>

(***************************************************************************)
(* What a git command leaves behind when it is cut off: some of the files   *)
(* it was to write; a lock in the way of the next fetch, or of the next     *)
(* sparse or write, which is seen at the write; of a clone, a repository    *)
(* without a remote, or with a lock, or one that follows no branch yet and  *)
(* so fetches the remote's default.                                         *)
(***************************************************************************)
CutOff(n, step) ==
    LET d == dirs[n]
        cloned == [Missing EXCEPT !.git = TRUE, !.follows = "HEAD"]
        writes == IF step = "reset" THEN d.fetched ELSE d.head
    IN  CASE step = "look" /\ ~d.git ->
               {[cloned EXCEPT !.follows = branch] : branch \in {"HEAD", run.branch[n]}}
                 \cup {[cloned EXCEPT !.stuck = stuck] : stuck \in {"look", "reset"}}
          [] step = "look" /\ d.git -> {[d EXCEPT !.stuck = "look"]}
          [] step \in {"sparse, reset", "sparse, checkout"} -> {[d EXCEPT !.stuck = "reset"]}
          [] step \in {"reset", "checkout"} ->
               {[d EXCEPT !.tree = Part, !.litter = d.litter \cup {writes}, !.stuck = stuck] :
                  stuck \in {"none", "reset"}}
          [] OTHER -> {}
LeftBehind(n) ==
    {dirs[n]} \cup
      (IF /\ n \in DOMAIN run.at /\ run.at[n] # dirs[n].stuck
          /\ run.at[n] = "look" => Syncs(run.command)
       THEN CutOff(n, run.at[n]) ELSE {})

\* Any git command fails, or is killed alone; a failed clone is removed.
GitFails(n) ==
    /\ Running /\ n \in DOMAIN run.at /\ run.at[n] \notin {"ok", "failed"}
    /\ run.at[n] = "look" => Syncs(run.command)
    /\ faults < MaxFaults
    /\ faults' = faults + 1
    /\ \E left \in IF run.at[n] = "look" /\ ~dirs[n].git THEN {Missing} ELSE LeftBehind(n) :
         dirs' = [dirs EXCEPT ![n] = left]
    /\ Goes(n, "failed")
    /\ UNCHANGED <<forge, pushes, changes, cache, report>>

\* Nothing takes a lock away, or clones again what is there: git fails at it every time.
Blocked(n) ==
    /\ Running /\ n \in DOMAIN run.at /\ Syncs(run.command) /\ run.at[n] = dirs[n].stuck
    /\ Goes(n, "failed")
    /\ UNCHANGED <<forge, pushes, changes, faults, cache, dirs, report>>

\* A repo with none of the files the feeders read is a gap, as is one that failed.
ScannedDespiteFailure == {n \in DOMAIN run.at : dirs[n].git /\ dirs[n].tree # Never}
Scanned == {n \in DOMAIN run.at : run.at[n] = "ok" /\ dirs[n].tree # Never}
Finish ==
    /\ Running /\ \A n \in DOMAIN run.at : run.at[n] \in {"ok", "failed"}
    /\ LET failed == {n \in DOMAIN run.at : run.at[n] = "failed"}
           whole == IF run.command = "fleet sync" THEN failed = {}
                    ELSE Scanned = DOMAIN run.at /\ Scanned # {}
       IN  IF run.command # "fleet sync" /\ failed # {} /\ failed = DOMAIN run.at
           THEN run' = [pc |-> "stopped", code |-> 2] /\ UNCHANGED report
           ELSE /\ run' = [pc |-> "ended", command |-> run.command, commit |-> run.commit,
                           branch |-> run.branch, had |-> run.had, listed |-> run.listed,
                           code |-> IF whole THEN 0 ELSE 2]
                /\ report' = IF run.command = "fleet sync" THEN report
                             ELSE [n \in Names |->
                                     IF n \in Scanned
                                     THEN [commit |-> run.commit[n], tree |-> dirs[n].tree,
                                           litter |-> dirs[n].litter]
                                     ELSE NoReport]
    /\ UNCHANGED <<forge, pushes, changes, faults, cache, dirs>>

\* Killed, with the git commands that are under way.
Killed ==
    /\ Running /\ faults < MaxFaults
    /\ faults' = faults + 1
    /\ run' = [pc |-> "stopped", code |-> 2]
    /\ \E left \in [Names -> UNION {LeftBehind(n) : n \in Names}] :
         /\ \A n \in Names : left[n] \in LeftBehind(n)
         /\ Cardinality({n \in Names : left[n] # dirs[n]}) <= MaxCut
         /\ dirs' = left
    /\ UNCHANGED <<forge, pushes, changes, cache, report>>

(***************************************************************************)
(* The specification.                                                       *)
(***************************************************************************)
Init ==
    /\ \E names \in Starts :
         forge = [k \in Keys |-> [name |-> names[k], default |-> "main",
                                 heads |-> [b \in Branches |-> IF b = "main" THEN 1 ELSE Never]]]
    /\ pushes = 1 /\ changes = 0 /\ faults = 0
    /\ cache = [read |-> FALSE, repos |-> {}]
    /\ dirs = [n \in Names |-> Missing]
    /\ run = Idle
    /\ report = [n \in Names |-> NoReport]

CheckOut(n) == Look(n) \/ Fetch(n) \/ Clone(n) \/ Sparse(n) \/ Write(n) \/ Head(n)
               \/ Blocked(n)
GoesOn == Finish \/ \E n \in Names : CheckOut(n)

Next ==
    \/ \E k \in Keys : \/ Push(k)
                      \/ \E n \in Names \cup {Gone} : Rename(k, n)
                      \/ \E branch \in Branches, stays \in BOOLEAN : MoveDefault(k, branch, stays)
    \/ \E command \in Commands : Start(command) \/ StartFails(command)
    \/ GoesOn
    \/ \E n \in Names : GitFails(n)
    \/ Killed

Spec == Init /\ [][Next]_vars

\* A run goes on until it ends, and `scan --sync` is run again and again.
FairSpec == Spec /\ WF_vars(GoesOn) /\ SF_vars(Start("scan --sync"))

-----------------------------------------------------------------------------
TypeOK ==
    /\ forge \in [Keys -> [name: Names \cup {Gone}, default: Branches,
                           heads: [Branches -> {Never} \cup Commits]]]
    /\ dirs \in [Names -> [git: BOOLEAN, follows: Branches \cup {"HEAD", Gone},
                          fetched: {Never} \cup Commits, head: {Never} \cup Commits,
                          tree: {Never, Part} \cup Commits, litter: SUBSET ({Never} \cup Commits),
                          stuck: {"none", "look", "reset"}]]
    /\ report \in [Names -> [commit: {Never} \cup Commits, tree: {Never, Part} \cup Commits,
                            litter: SUBSET ({Never} \cup Commits)]]
    /\ run.pc \in {"idle", "checkouts", "ended", "stopped"}
    /\ Running => run.at \in [RecordIds(run.listed) -> Steps]

Reported == {n \in Names : report[n] # NoReport}
SyncedReport == run.pc = "ended" /\ run.command = "scan --sync"
Follows(n) == dirs[n].follows \in {"HEAD", run.branch[n]}

\* sources.rs:8 "a repo that cannot be cloned or refreshed becomes an errored gap": whatever
\* earlier runs left half done, a synced scan reads all the files of the commit it names, one
\* the repo was at while the run went on, of every repo listed, or else it does not end 0; and
\* it reads files of another commit beside them only where git was cut off in writing those.
SyncedIsWhole ==
    SyncedReport =>
      /\ \A n \in Reported : /\ report[n].tree = report[n].commit
                             /\ report[n].litter # {} => faults > 0
                             /\ Follows(n) => report[n].commit \in run.had[n]
      /\ Reported \subseteq RecordIds(run.listed)
      /\ run.code = 0 => Reported = RecordIds(run.listed)

\* The listing before, with what was removed, renamed and added, is the listing now; nothing
\* is told twice, and a rename keeps the forge's own id.
ChangesAreExact ==
    Running /\ Syncs(run.command) /\ run.before.read =>
      LET before == run.before.repos
          change == run.change
          froms == {r.from : r \in change.renamed}
          tos == {r.to : r \in change.renamed}
      IN  /\ (RecordIds(before) \ (change.removed \cup froms)) \cup change.added \cup tos
               = RecordIds(run.listed)
          /\ change.removed \cap froms = {} /\ change.added \cap tos = {}
          /\ \A r \in change.renamed : \E p \in before, q \in run.listed :
                p.id = r.from /\ q.id = r.to /\ p.key = q.key

\* A repo whose checkout no later sync brings up to date: git was killed in it and is blocked,
\* or it follows a branch that is not the default any more.
Stalled(k) == LET d == dirs[forge[k].name]
              IN  d.stuck # "none" \/ d.follows \notin {"HEAD", forge[k].default}

\* Once the forge and the network are quiet, scans with --sync say of every name what the forge
\* has, and of no other: no failed command, kill between commands, rename or removal keeps them
\* from it. Where git itself was killed or the default branch was changed the repo can stay a
\* gap, or at an old commit; and where all repos are so, the scan stops and says nothing new.
ScansCatchUp ==
    \A n \in Names :
        <>[](\/ \E k \in OnForge : forge[k].name = n /\ Stalled(k)
             \/ OnForge # {} /\ \A k \in OnForge : Stalled(k)
             \/ /\ report[n].commit = Remote(forge, n, "HEAD")
                /\ report[n].tree = report[n].commit)
=============================================================================
