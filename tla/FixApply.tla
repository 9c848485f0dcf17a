------------------------------ MODULE FixApply ------------------------------
(***************************************************************************)
(* `fleetreach fix apply` (crates/cli/src/fix.rs): runs that turn a plan    *)
(* into verified commits on fleetreach/* branches, push them and keep a     *)
(* request open for each, while people push to the same branches, close and *)
(* merge the requests and move the default branch.  A run may die between   *)
(* any two of its calls, any call to git or the forge may fail, and what    *)
(* one run leaves behind the next one finds.                                *)
(*                                                                          *)
(* Abstracted: an edit is its branch; whether it verifies, and every answer *)
(* that depends on the network, is chosen by \E.  One clone per repository, *)
(* one run at a time.  People's commit messages do not carry fleetreach's   *)
(* "Verified by" line.                                                      *)
(***************************************************************************)
EXTENDS Integers, FiniteSets, Sequences

CONSTANTS
    Branches,   \* fleetreach/<campaign>/<package>-<version> of a repository: [repo, name]
    Fleet,      \* the repositories of fleet.toml
    Plans,      \* the plans: [edits: Seq([branch, blocked]), scanned: SUBSET Fleet]
    ArgSet,     \* the command lines considered
    NoLimit,    \* --max-prs or --stop-after-failures not given
    MaxRuns,    \* bound on the runs
    MaxMoves    \* bound on what other people do

Repos == {b.repo : b \in Branches}
Args == [push: BOOLEAN, openPr: BOOLEAN, close: BOOLEAN, only: SUBSET Repos,
         canary: SUBSET Fleet, maxRepos: Nat, maxPrs: Nat \cup {NoLimit},
         stopAfter: Nat \cup {NoLimit}]

ASSUME FixApplyAssumption ==
    /\ NoLimit \notin Nat
    /\ MaxRuns \in Nat /\ MaxMoves \in Nat
    /\ ArgSet \subseteq Args
    /\ \A plan \in Plans :
         /\ plan.edits \in Seq([branch: Branches, blocked: BOOLEAN])
         /\ \A i, j \in DOMAIN plan.edits :
              plan.edits[i].branch = plan.edits[j].branch => i = j
         /\ plan.scanned \subseteq Repos

VARIABLES
    main,      \* Repos -> the commit of the remote's default branch
    remote,    \* Branches -> its head on the remote, or None
    request,   \* Branches -> whether a request is open, and how the last other one ended
    buried,    \* the branches whose requests are past the first page of the forge's list
    made,      \* Branches -> whether the run under way had a request opened, and if the forge
               \* that opened it could say so (ghost)
    settled,   \* the branches whose request was closed or merged when the run under way
               \* started, and had not left the page when the run listed it (ghost)
    local,     \* Branches \X BOOLEAN -> the local branch; FALSE is fleetreach-unverified/*
    tracking,  \* Branches -> refs/remotes/origin/<branch>, or None
    run,       \* the run under way
    runs,      \* runs started
    moves,     \* what other people have done so far, counted
    lost       \* the commits of other people that a run removed from a branch (ghost)

outside == <<main, remote, request, buried, made, settled, moves>>
clone == <<local, tracking>>
vars == <<main, remote, request, buried, made, settled, local, tracking, run, runs, moves, lost>>

None == [by |-> "none"]
\* A commit of a run says which base it is on and whether it verified.  One of other
\* people's is late if it came between two looks of a run that treats them as one.
OurCommit == [by: {"fleetreach"}, base: 0 .. MaxMoves, verified: BOOLEAN]
OtherCommit == [by: {"other"}, n: 1 .. MaxMoves, late: BOOLEAN]
Commit == OurCommit \cup OtherCommit \cup {None}
States == {"none", "OPEN", "CLOSED", "MERGED", "unknown"}

NoRun == [pc |-> "idle"]
\* A map that has nothing yet, and one with an entry set.
Empty == [x \in {} |-> None]
Put(map, key, value) ==
    [x \in DOMAIN map \cup {key} |-> IF x = key THEN value ELSE map[x]]
Running == run.pc # "idle"
Result == [outcome: {"Verified", "Unverified", "Blocked", "Skipped", "Closed"},
           opened: BOOLEAN]
\* A run: its command line and plan; the edits to come, by their place in the plan; what
\* came of each branch; the repositories it wrote to; the requests it listed; what is left of
\* close_obsolete; and the branch under way with its base and the head that was looked at.
RunRecord ==
    [pc: {"edit", "base", "look", "fetch", "judge", "build", "push", "request", "list",
          "close", "delete"},
     args: ArgSet, plan: Plans, left: SUBSET Nat,
     results: UNION {[D -> Result] : D \in SUBSET Branches}, touched: SUBSET Repos,
     listed: UNION {[D -> [Branches -> States]] : D \in SUBSET Repos}, todo: SUBSET Repos,
     obsolete: SUBSET Branches, branch: Branches \cup {None}, base: 0 .. MaxMoves,
     sha: Commit]

TypeOK ==
    /\ main \in [Repos -> 0 .. MaxMoves]
    /\ remote \in [Branches -> Commit] /\ tracking \in [Branches -> Commit]
    /\ request \in [Branches -> [open: BOOLEAN, last: {"none", "CLOSED", "MERGED"}]]
    /\ buried \subseteq Branches /\ settled \subseteq Branches
    /\ made \in [Branches -> {"no", "answered", "lost"}]
    /\ local \in [Branches \X BOOLEAN -> Commit]
    /\ runs \in 0 .. MaxRuns /\ moves \in 0 .. MaxMoves
    /\ lost \subseteq OtherCommit
    /\ run \in RunRecord \cup {NoRun}

Init ==
    /\ main = [r \in Repos |-> 0]
    /\ remote = [b \in Branches |-> None]
    /\ request = [b \in Branches |-> [open |-> FALSE, last |-> "none"]]
    /\ buried = {} /\ made = [b \in Branches |-> "no"] /\ settled = {}
    /\ local = [x \in Branches \X BOOLEAN |-> None]
    /\ tracking = [b \in Branches |-> None]
    /\ run = NoRun /\ runs = 0 /\ moves = 0 /\ lost = {}

-----------------------------------------------------------------------------
\* Mutant: the edits in the plan's order.
PlanOrder(i, j) == i < j
\* The order of the edits: canaries first, the plan's order within each group.
Ordered(i, j) ==
    LET isCanary(k) == run.plan.edits[k].branch.repo \in run.args.canary
    IN  IF isCanary(i) = isCanary(j) THEN i < j ELSE isCanary(i)

\* run_apply: a canary that is not in fleet.toml refuses the run (Args has none).
Start ==
    /\ ~Running /\ runs < MaxRuns
    /\ \E args \in ArgSet, plan \in Plans :
         run' = [pc |-> "edit", args |-> args, plan |-> plan,
                 left |-> DOMAIN plan.edits, results |-> Empty,
                 touched |-> {}, listed |-> Empty, todo |-> {}, obsolete |-> {},
                 branch |-> None, base |-> 0, sha |-> None]
    /\ runs' = runs + 1
    /\ made' = [b \in Branches |-> "no"]
    /\ settled' = {b \in Branches \ buried : ~request[b].open /\ request[b].last # "none"}
    /\ UNCHANGED <<main, remote, request, buried, moves, clone, lost>>

\* A run that is killed leaves its branches, its pushes and its requests behind.
Crash ==
    /\ Running
    /\ run' = NoRun
    /\ UNCHANGED <<outside, clone, runs, lost>>

Publishing == run.args.push \/ run.args.openPr
Failed(b) == run.results[b].outcome \in {"Unverified", "Blocked"}
Failures == {b \in DOMAIN run.results : Failed(b)}
Opened == {b \in DOMAIN run.results : run.results[b].opened}
IsCanary(b) == b.repo \in run.args.canary

\* r with the result of its branch, on to what comes next.
Done(r, next, outcome, opened) ==
    [r EXCEPT !.pc = next, !.branch = None, !.base = 0, !.sha = None,
              !.results = Put(@, r.branch, [outcome |-> outcome, opened |-> opened])]

\* Requests::of: a repository's requests are listed once a run, the first page of them.  An
\* open request stands for its branch, else the newest one does.  A list that failed stays
\* failed.
Listing(repo) == [b \in Branches |-> IF b.repo # repo \/ b \in buried THEN "none"
                                     ELSE IF request[b].open THEN "OPEN" ELSE request[b].last]
NoListing == [b \in Branches |-> "unknown"]
Answers(repo) == IF repo \in DOMAIN run.listed THEN {run.listed[repo]}
                 ELSE {Listing(repo), NoListing}
ListedAs(b) == run.listed[b.repo][b]

\* Mutant: a merged request taken for none.
ClosedOnly(state) == state = "CLOSED"
Settled(state) == state \in {"CLOSED", "MERGED"}

Stopped(b) ==
    \/ run.args.stopAfter # NoLimit /\ Cardinality(Failures) >= run.args.stopAfter
    \/ (\E f \in Failures : IsCanary(f)) /\ ~IsCanary(b)
OverMaxRepos(b) == /\ b.repo \notin run.touched
                   /\ Cardinality(run.touched) >= run.args.maxRepos
\* Mutant: one request too many before the limit is noticed.
OverMaxPrsLate(state) ==
    /\ state # "OPEN" /\ run.args.maxPrs # NoLimit
    /\ Cardinality(Opened) > run.args.maxPrs
OverMaxPrs(state) ==
    /\ state # "OPEN" /\ run.args.maxPrs # NoLimit
    /\ Cardinality(Opened) >= run.args.maxPrs

\* The run with its next edit, the plan's i-th, in hand.
Taken(i, listed) ==
    [run EXCEPT !.left = @ \ {i}, !.branch = run.plan.edits[i].branch, !.listed = listed]
Skip(r) == run' = Done(r, "edit", "Skipped", FALSE)
Try(r) == run' = [r EXCEPT !.pc = "base", !.touched = @ \cup {r.branch.repo}]

\* The head of run_apply's loop: what keeps an edit from being tried at all, in the order
\* the code asks.  What the plan blocks is a result even where --repos leaves it out.
TakeEdit ==
    /\ run.pc = "edit"
    /\ \E i \in run.left :
         /\ \A j \in run.left \ {i} : Ordered(i, j)
         /\ LET b == run.plan.edits[i].branch
                next == Taken(i, run.listed)
            IN  IF run.plan.edits[i].blocked THEN Skip(next)
                ELSE IF run.args.only # {} /\ b.repo \notin run.args.only
                THEN run' = [next EXCEPT !.branch = None]
                ELSE IF Stopped(b) \/ OverMaxRepos(b) \/ b.repo \notin Fleet THEN Skip(next)
                ELSE IF ~run.args.openPr THEN Try(next)
                ELSE \E answer \in Answers(b.repo) :
                  LET known == Taken(i, Put(run.listed, b.repo, answer))
                  IN  IF answer[b] = "unknown" THEN run' = Done(known, "edit", "Blocked", FALSE)
                      ELSE IF Settled(answer[b]) \/ OverMaxPrs(answer[b]) THEN Skip(known)
                      ELSE Try(known)
    /\ UNCHANGED <<outside, clone, runs, lost>>

\* A call of the edit under way failed.
Fail(outcome) == run' = Done(run, "edit", outcome, FALSE)

\* HEAD of the user's own checkout, which no run moves.
Checkout == 0
\* base_and_remote, first half: the remote's default branch, or HEAD when it cannot be
\* fetched or nothing is to be published.
ReadBase ==
    /\ run.pc = "base"
    /\ \/ Publishing /\ Fail("Blocked")
       \/ \E base \in IF Publishing THEN {main[run.branch.repo], Checkout} ELSE {Checkout} :
            run' = [run EXCEPT !.pc = IF Publishing THEN "look" ELSE "judge", !.base = base]
    /\ UNCHANGED <<outside, clone, runs, lost>>

\* base_and_remote, second half: ls-remote names the branch's head, and a fetch brings what
\* the branch holds by then.
LookUp ==
    /\ run.pc = "look"
    /\ \/ Fail("Blocked")
       \/ LET sha == remote[run.branch]
          IN  run' = [run EXCEPT !.pc = IF sha = None THEN "judge" ELSE "fetch", !.sha = sha]
    /\ UNCHANGED <<outside, clone, runs, lost>>

FetchBranch ==
    /\ run.pc = "fetch"
    /\ \/ Fail("Blocked") /\ UNCHANGED tracking
       \/ /\ remote[run.branch] # None
          /\ tracking' = [tracking EXCEPT ![run.branch] = remote[run.branch]]
          /\ run' = [run EXCEPT !.pc = "judge"]
    /\ UNCHANGED <<outside, local, runs, lost>>

-----------------------------------------------------------------------------
\* ours: the message names the campaign and says that a re-scan verified it.
Ours(commit) == commit.by = "fleetreach" /\ commit.verified
OnBase(commit) == Ours(commit) /\ commit.base = run.base
\* An edit that verified is done here unless it is to be pushed.
Verified == IF Publishing THEN run' = [run EXCEPT !.pc = "push"]
            ELSE run' = Done(run, "edit", "Verified", FALSE)

\* apply_one, up to the work tree: a head that is not fleetreach's is left alone, and a
\* branch already on the base is not rebuilt.
Judge ==
    /\ run.pc = "judge"
    /\ LET current == IF run.sha # None THEN run.sha ELSE local[<<run.branch, TRUE>>]
       IN  IF run.sha # None /\ ~Ours(run.sha) THEN Fail("Skipped") /\ UNCHANGED local
           ELSE IF OnBase(current)
           THEN \/ Fail("Blocked") /\ UNCHANGED local
                \/ Verified /\ local' = [local EXCEPT ![<<run.branch, TRUE>>] = current]
           ELSE run' = [run EXCEPT !.pc = "build"] /\ UNCHANGED local
    /\ UNCHANGED <<outside, tracking, runs, lost>>

Built(verified) == [by |-> "fleetreach", base |-> run.base, verified |-> verified]
\* Mutant: every commit goes on the branch.
SameBranch(b, verified) == <<b, TRUE>>
\* An unverified commit takes a branch of its own.
Target(b, verified) == <<b, verified>>
\* apply_one, in the work tree: scan, update, scan again, commit, move the branch.
Build ==
    /\ run.pc = "build"
    /\ \/ Fail("Blocked") /\ UNCHANGED local
       \/ \E verified \in BOOLEAN :
            /\ local' = [local EXCEPT ![Target(run.branch, verified)] = Built(verified)]
            /\ IF verified THEN Verified ELSE Fail("Unverified")
    /\ UNCHANGED <<outside, tracking, runs, lost>>

-----------------------------------------------------------------------------
\* Mutant: a plain force push.
AnyLease(b) == TRUE
\* --force-with-lease, pinned to the tracking branch: "", when there is none, expects no
\* branch on the remote.
LeaseHolds(b) == remote[b] = tracking[b]
Removed(b) == IF remote[b].by = "other" THEN {remote[b]} ELSE {}

\* publish: a push that fails is a note on an edit that stays verified.  Here and below, a
\* call whose answer is lost did its work on the remote and failed all the same.
Push ==
    /\ run.pc = "push"
    /\ \/ run' = Done(run, "edit", "Verified", FALSE) /\ UNCHANGED <<remote, tracking, lost>>
       \/ /\ LeaseHolds(run.branch)
          /\ remote' = [remote EXCEPT ![run.branch] = local[<<run.branch, TRUE>>]]
          /\ lost' = lost \cup Removed(run.branch)
          /\ \/ run' = Done(run, "edit", "Verified", FALSE) /\ UNCHANGED tracking
             \/ /\ tracking' = [tracking EXCEPT ![run.branch] = local[<<run.branch, TRUE>>]]
                /\ run' = IF run.args.openPr THEN [run EXCEPT !.pc = "request"]
                          ELSE Done(run, "edit", "Verified", FALSE)
    /\ UNCHANGED <<main, request, buried, made, settled, local, moves, runs>>

\* github_request, gitlab_request: the open request, asked for by its branch, is updated, else
\* one is opened, the newest of the list.  The forge refuses a second one, and one for a branch
\* that is gone.
OpenRequest ==
    /\ run.pc = "request"
    /\ LET b == run.branch IN
         \/ /\ run' = Done(run, "edit", "Verified", FALSE)
            /\ UNCHANGED <<request, buried, made>>
         \/ /\ ~request[b].open /\ remote[b] # None
            /\ request' = [request EXCEPT ![b].open = TRUE]
            /\ buried' = buried \ {b}
            /\ \E answered \in BOOLEAN :
                 /\ made' = [made EXCEPT ![b] = IF answered THEN "answered" ELSE "lost"]
                 /\ run' = Done(run, "edit", "Verified", answered)
    /\ UNCHANGED <<main, remote, settled, moves, clone, runs, lost>>

-----------------------------------------------------------------------------
\* Mutant: what the plan blocks is not wanted.
WantedUnblocked(plan) == {plan.edits[i].branch : i \in {j \in DOMAIN plan.edits :
                                                         ~plan.edits[j].blocked}}
Wanted(plan) == {plan.edits[i].branch : i \in DOMAIN plan.edits}

InScope(repo) == run.args.only = {} \/ repo \in run.args.only
\* The edits are done: --close-obsolete goes through the repositories the plan scanned.
FinishEdits ==
    /\ run.pc = "edit" /\ run.left = {}
    /\ run' = IF run.args.close
              THEN [run EXCEPT !.pc = "list",
                               !.todo = {r \in run.plan.scanned \cap Fleet : InScope(r)}]
              ELSE NoRun
    /\ UNCHANGED <<outside, clone, runs, lost>>

\* close_obsolete, one repository: the open requests that the plan does not want.
ListObsolete ==
    /\ run.pc = "list" /\ run.obsolete = {}
    /\ IF run.todo = {} THEN run' = NoRun
       ELSE \E repo \in run.todo : \E answer \in Answers(repo) :
              run' = [run EXCEPT !.todo = @ \ {repo}, !.listed = Put(@, repo, answer),
                        !.obsolete = {b \in Branches : answer[b] = "OPEN" /\ b.repo = repo}
                                     \ Wanted(run.plan)]
    /\ UNCHANGED <<outside, clone, runs, lost>>

\* close_one: fetch_head and its message; then the request; then the branch.
ReadHead ==
    /\ run.pc = "list"
    /\ \E b \in run.obsolete :
         LET next == [run EXCEPT !.obsolete = @ \ {b}, !.branch = b] IN
         \/ run' = Done(next, "list", "Blocked", FALSE) /\ UNCHANGED tracking
         \/ /\ remote[b] # None
            /\ tracking' = [tracking EXCEPT ![b] = remote[b]]
            /\ run' = IF Ours(remote[b]) THEN [next EXCEPT !.pc = "close"]
                      ELSE Done(next, "list", "Blocked", FALSE)
    /\ UNCHANGED <<outside, local, runs, lost>>

CloseRequest ==
    /\ run.pc = "close"
    /\ LET b == run.branch IN
         \/ run' = Done(run, "list", "Blocked", FALSE) /\ UNCHANGED request
         \/ /\ request[b].open \/ request[b].last # "MERGED"
            /\ request' = [request EXCEPT ![b] = IF @.open THEN [open |-> FALSE, last |-> "CLOSED"]
                                                 ELSE @]
            /\ \/ run' = [run EXCEPT !.pc = "delete"]
               \/ run' = Done(run, "list", "Blocked", FALSE)
    /\ UNCHANGED <<main, remote, buried, made, settled, moves, clone, runs, lost>>

DeleteBranch ==
    /\ run.pc = "delete"
    /\ LET b == run.branch IN
         \/ run' = Done(run, "list", "Blocked", FALSE) /\ UNCHANGED <<remote, tracking, lost>>
         \/ /\ remote[b] # None
            /\ remote' = [remote EXCEPT ![b] = None]
            /\ lost' = lost \cup Removed(b)
            /\ \/ /\ tracking' = [tracking EXCEPT ![b] = None]
                  /\ run' = Done(run, "list", "Closed", FALSE)
               \/ run' = Done(run, "list", "Blocked", FALSE) /\ UNCHANGED tracking
    /\ UNCHANGED <<main, request, buried, made, settled, local, moves, runs>>

-----------------------------------------------------------------------------
\* Other people.
Turn == moves < MaxMoves /\ moves' = moves + 1 /\ UNCHANGED <<made, clone, run, runs, lost>>
Move == Turn /\ UNCHANGED <<buried, settled>>

\* Between ls-remote and the fetch, and between close_one's fetch and its delete.
BetweenLooks(b) == Running /\ run.branch = b /\ run.pc \in {"fetch", "close", "delete"}
SomeonePushes(b) ==
    /\ Move
    /\ remote' = [remote EXCEPT ![b] = [by |-> "other", n |-> moves', late |-> BetweenLooks(b)]]
    /\ UNCHANGED <<main, request>>

SomeoneDeletes(b) ==
    /\ Move /\ remote[b] # None /\ ~request[b].open
    /\ remote' = [remote EXCEPT ![b] = None]
    /\ UNCHANGED <<main, request>>

SomeoneCloses(b) ==
    /\ Move /\ request[b].open
    /\ request' = [request EXCEPT ![b] = [open |-> FALSE, last |-> "CLOSED"]]
    /\ UNCHANGED <<main, remote>>

SomeoneMerges(b) ==
    /\ Move /\ request[b].open
    /\ request' = [request EXCEPT ![b] = [open |-> FALSE, last |-> "MERGED"]]
    /\ main' = [main EXCEPT ![b.repo] = moves']
    /\ UNCHANGED remote

MainMoves(repo) ==
    /\ Move
    /\ main' = [main EXCEPT ![repo] = moves']
    /\ UNCHANGED <<remote, request>>

\* Enough newer requests in the repository put those of b past the first page: 200 of gh's
\* list, 100 of glab's.  A run that has not listed them yet will not see them.
RequestBuried(b) ==
    /\ Turn /\ b \notin buried /\ (request[b].open \/ request[b].last # "none")
    /\ buried' = buried \cup {b}
    /\ settled' = IF Running /\ b.repo \notin DOMAIN run.listed THEN settled \ {b} ELSE settled
    /\ UNCHANGED <<main, remote, request>>

Next ==
    \/ Start \/ Crash \/ TakeEdit \/ ReadBase \/ LookUp \/ FetchBranch \/ Judge \/ Build
    \/ Push \/ OpenRequest \/ FinishEdits \/ ListObsolete \/ ReadHead \/ CloseRequest
    \/ DeleteBranch
    \/ \E b \in Branches : \/ SomeonePushes(b) \/ SomeoneDeletes(b) \/ SomeoneCloses(b)
                           \/ SomeoneMerges(b) \/ RequestBuried(b)
    \/ \E r \in Repos : MainMoves(r)

Spec == Init /\ [][Next]_vars

-----------------------------------------------------------------------------
\* fix.rs, module comment: "A branch only ever moves to a verified commit", through failed
\* reruns and runs killed halfway, and "unverified ones are never pushed".
OnlyVerifiedMoves ==
    \A b \in Branches :
        /\ local[<<b, TRUE>>] # None => Ours(local[<<b, TRUE>>])
        /\ remote[b].by = "fleetreach" => remote[b].verified

\* What the lease and the look at the head protect: a commit of somebody else's goes only if
\* it came between two looks that the code takes for one.
OthersKept == \A commit \in lost : commit.late

\* plan-and-apply-fixes.md: "A push leases on the commit fleetreach last saw, so it does not
\* overwrite work someone else pushed"; fix.rs: "a branch someone else has pushed to is not
\* touched".
OthersNeverLost == lost = {}

\* settled: a request that was closed or merged when a run starts is not opened again by it,
\* however the run goes, as long as newer requests have not put it past the first page before
\* the run lists its repository.  Past the page the code does open it again.
SettledStaysSettled == Running => \A b \in settled : ~request[b].open

\* The requests the forge opened for the run, and those of them the code does not count: the
\* answer was lost, or the run had listed a request as open that was closed meanwhile.
Made == {b \in Branches : made[b] # "no"}
Uncounted == {b \in Made : made[b] = "lost" \/ ListedAs(b) = "OPEN"}
\* --max-prs, "Open at most this many new pull requests this run": the forge opened no more of
\* them than that for the run, but for one more with each that the code could not count.
WithinMaxPrs ==
    Running /\ run.args.openPr /\ run.args.maxPrs # NoLimit =>
        Cardinality(Made) <= run.args.maxPrs + Cardinality(Uncounted)

\* --canary: once an edit of a canary failed, no edit of another repository is tried.
CanaryFailureStops ==
    Running => \A f, b \in Wanted(run.plan) \cap DOMAIN run.results :
        IsCanary(f) /\ Failed(f) /\ ~IsCanary(b) => run.results[b].outcome = "Skipped"

\* close_obsolete: "What the plan blocks is still wanted", and a repository that was not
\* scanned keeps its requests.
ClosesOnlyUnwanted ==
    Running => \A b \in DOMAIN run.results : run.results[b].outcome = "Closed" =>
        /\ b.repo \in run.plan.scanned
        /\ \A i \in DOMAIN run.plan.edits : run.plan.edits[i].branch # b
=============================================================================
