--------------------------- MODULE FixApply_proofs ---------------------------
(***************************************************************************)
(* What FixApply promises for every set of branches, plans and command      *)
(* lines, and however often runs start and other people move: the type      *)
(* invariant, and the safety invariants of the runs.                        *)
(***************************************************************************)
EXTENDS FixApply, FiniteSetTheorems, TLAPS

\* Where a run has an edit under way, and where it closes a request.
Trying == {"base", "look", "fetch", "judge", "build", "push", "request"}
Closing == {"close", "delete"}

\* The branch under way is one of the branches, and the edits to come are the plan's.
Known ==
    /\ run.pc \in Trying \cup Closing => run.branch \in Branches
    /\ Running => run.left \subseteq DOMAIN run.plan.edits

-----------------------------------------------------------------------------
\* What a result leaves as it was.
Kept(r, d) ==
    /\ d.args = r.args /\ d.plan = r.plan /\ d.left = r.left /\ d.touched = r.touched
    /\ d.listed = r.listed /\ d.todo = r.todo /\ d.obsolete = r.obsolete
\* What it adds to the results.
Adds(r, d, outcome, opened) ==
    /\ DOMAIN d.results = DOMAIN r.results \cup {r.branch}
    /\ d.results[r.branch] = [outcome |-> outcome, opened |-> opened]
    /\ \A b \in DOMAIN r.results \ {r.branch} : d.results[b] = r.results[b]

\* A step keeps the results there are, except that the one of b may be new.
OnlyAdds(b, outcomes) ==
    \A c \in DOMAIN run'.results :
      \/ c \in DOMAIN run.results /\ run'.results[c] = run.results[c]
      \/ c = b /\ run'.results[c].outcome \in outcomes

\* What a result does to a run: the rest of it stays as it was.
LEMMA DoneFields ==
    ASSUME NEW r \in RunRecord, r.branch \in Branches,
           NEW next \in {"edit", "list"},
           NEW outcome, NEW opened, [outcome |-> outcome, opened |-> opened] \in Result,
           NEW d, d = Done(r, next, outcome, opened)
    PROVE  d \in RunRecord /\ d.pc = next /\ Kept(r, d) /\ Adds(r, d, outcome, opened)
<1> DEFINE new == Put(r.results, r.branch, [outcome |-> outcome, opened |-> opened])
<1>1. PICK D \in SUBSET Branches : r.results \in [D -> Result] BY DEF RunRecord
<1>2. [outcome |-> outcome, opened |-> opened] \in Result OBVIOUS
<1>3. new = [b \in {r.branch} \cup D |->
               IF b = r.branch THEN [outcome |-> outcome, opened |-> opened] ELSE r.results[b]]
  BY <1>1 DEF Put
<1>4. new \in [{r.branch} \cup D -> Result] /\ {r.branch} \cup D \in SUBSET Branches
  BY <1>1, <1>2, <1>3
<1>5. new \in UNION {[E -> Result] : E \in SUBSET Branches} BY <1>4
<1>6. d = [r EXCEPT !.pc = next, !.branch = None, !.base = 0, !.sha = None, !.results = new]
  BY DEF Done
<1>7. None \in Commit /\ 0 \in 0 .. MaxMoves BY FixApplyAssumption DEF Commit
<1>8. d \in RunRecord /\ d.results = new
  <2> HIDE DEF new
  <2> QED BY <1>5, <1>6, <1>7, ZenonT(60) DEF RunRecord
<1>9. /\ d.pc = next /\ d.args = r.args /\ d.plan = r.plan /\ d.left = r.left
      /\ d.touched = r.touched /\ d.listed = r.listed /\ d.todo = r.todo
      /\ d.obsolete = r.obsolete
  <2> HIDE DEF new
  <2> QED BY <1>6 DEF RunRecord
<1>10. /\ DOMAIN new = DOMAIN r.results \cup {r.branch}
       /\ new[r.branch] = [outcome |-> outcome, opened |-> opened]
       /\ \A b \in DOMAIN r.results \ {r.branch} : new[b] = r.results[b]
  <2> DOMAIN r.results = D BY <1>1
  <2> QED BY <1>3
<1> QED BY <1>8, <1>9, <1>10, Zenon DEF Kept, Adds

\* A request is listed once for each repository: the list, or no answer.
LEMMA AnswersType ==
    ASSUME TypeOK, run \in RunRecord, NEW repo \in Repos, NEW answer \in Answers(repo)
    PROVE  /\ answer \in [Branches -> States]
           /\ Put(run.listed, repo, answer)
                \in UNION {[D -> [Branches -> States]] : D \in SUBSET Repos}
<1>1. PICK D \in SUBSET Repos : run.listed \in [D -> [Branches -> States]] BY DEF RunRecord
<1>2. Listing(repo) \in [Branches -> States] BY DEF Listing, States, TypeOK
<1>3. NoListing \in [Branches -> States] BY DEF NoListing, States
<1>4. answer \in [Branches -> States] BY <1>1, <1>2, <1>3 DEF Answers
<1>5. Put(run.listed, repo, answer) \in [D \cup {repo} -> [Branches -> States]]
  BY <1>1, <1>4 DEF Put
<1> QED BY <1>4, <1>5

\* A step from one point of a run to the next keeps the rest of it.
LEMMA Goto ==
    ASSUME NEW r \in RunRecord,
           NEW pc \in {"edit", "base", "look", "fetch", "judge", "build", "push", "request",
                       "list", "close", "delete"}
    PROVE  [r EXCEPT !.pc = pc] \in RunRecord
BY DEF RunRecord

-----------------------------------------------------------------------------
\* A run that has a place in the code is a run.
LEMMA InRun == TypeOK /\ run.pc # "idle" => run \in RunRecord /\ Running
<1> SUFFICES ASSUME TypeOK, run.pc # "idle" PROVE run \in RunRecord /\ Running
  OBVIOUS
<1>1. run \in RunRecord \cup {NoRun} BY Zenon DEF TypeOK
<1> QED BY <1>1 DEF NoRun, Running

\* Where each call is made.
LEMMA Where ==
    /\ (TakeEdit => run.pc = "edit") /\ (ReadBase => run.pc = "base")
    /\ (LookUp => run.pc = "look") /\ (FetchBranch => run.pc = "fetch")
    /\ (Judge => run.pc = "judge") /\ (Build => run.pc = "build")
    /\ (Push => run.pc = "push") /\ (OpenRequest => run.pc = "request")
    /\ (FinishEdits => run.pc = "edit") /\ (ListObsolete => run.pc = "list")
    /\ (ReadHead => run.pc = "list") /\ (CloseRequest => run.pc = "close")
    /\ (DeleteBranch => run.pc = "delete")
BY Zenon DEF TakeEdit, ReadBase, LookUp, FetchBranch, Judge, Build, Push, OpenRequest,
   FinishEdits, ListObsolete, ReadHead, CloseRequest, DeleteBranch

\* The first state.
LEMMA TypeInit == Init => TypeOK /\ Known
<1> SUFFICES ASSUME Init PROVE TypeOK /\ Known
  OBVIOUS
<1>1. MaxRuns \in Nat /\ MaxMoves \in Nat BY FixApplyAssumption
<1>2. None \in Commit BY DEF Commit
<1>3. main \in [Repos -> 0 .. MaxMoves] /\ runs \in 0 .. MaxRuns /\ moves \in 0 .. MaxMoves
  BY <1>1 DEF Init
<1>4. remote \in [Branches -> Commit] /\ tracking \in [Branches -> Commit]
  BY <1>2 DEF Init
<1>5. request \in [Branches -> [open: BOOLEAN, last: {"none", "CLOSED", "MERGED"}]]
  BY DEF Init
<1>6. local \in [Branches \X BOOLEAN -> Commit] BY <1>2 DEF Init
<1>7. run = NoRun /\ lost = {} BY DEF Init
<1>8. run.pc = "idle" BY <1>7 DEF NoRun
<1>9. Known BY <1>8 DEF Known, Running, Trying, Closing
<1>10. /\ buried \subseteq Branches /\ settled \subseteq Branches
       /\ made \in [Branches -> {"no", "answered", "lost"}]
  BY DEF Init
<1> QED BY <1>3, <1>4, <1>5, <1>6, <1>7, <1>9, <1>10 DEF TypeOK

\* The run a plan and a command line start.
LEMMA StartType ==
    ASSUME TypeOK, Start
    PROVE  /\ run' \in RunRecord /\ run'.pc = "edit" /\ run'.results = Empty
           /\ run'.listed = Empty /\ run'.obsolete = {} /\ run'.todo = {}
           /\ run'.left = DOMAIN run'.plan.edits
<1>1. PICK args \in ArgSet, plan \in Plans :
        run' = [pc |-> "edit", args |-> args, plan |-> plan,
                left |-> DOMAIN plan.edits, results |-> Empty,
                touched |-> {}, listed |-> Empty, todo |-> {}, obsolete |-> {},
                branch |-> None, base |-> 0, sha |-> None]
  BY DEF Start
<1>2. DOMAIN plan.edits \in SUBSET Nat
  <2>1. plan.edits \in Seq([branch: Branches, blocked: BOOLEAN]) BY FixApplyAssumption
  <2> QED BY <2>1
<1>3. Empty \in [{} -> Result] /\ Empty \in [{} -> [Branches -> States]] BY DEF Empty
<1>4. Empty \in UNION {[D -> Result] : D \in SUBSET Branches}
  <2> {} \in SUBSET Branches OBVIOUS
  <2> QED BY <1>3
<1>5. Empty \in UNION {[D -> [Branches -> States]] : D \in SUBSET Repos}
  <2> {} \in SUBSET Repos OBVIOUS
  <2> QED BY <1>3
<1>6. None \in Commit /\ 0 \in 0 .. MaxMoves BY FixApplyAssumption DEF Commit
<1> HIDE DEF Empty
<1> QED BY <1>1, <1>2, <1>4, <1>5, <1>6 DEF RunRecord

-----------------------------------------------------------------------------
\* What TakeEdit does with the edit it takes: a result, nothing, or a try, which it only gets
\* when nothing stops it and its request, if one is asked for, is neither settled nor over
\* the limit.
Took(i, b, listed) ==
    \/ run' = Done(Taken(i, listed), "edit", "Skipped", FALSE)
    \/ run' = Done(Taken(i, listed), "edit", "Blocked", FALSE) /\ ~Stopped(b)
    \/ run' = [Taken(i, listed) EXCEPT !.branch = None]
    \/ /\ Try(Taken(i, listed))
       /\ ~Stopped(b)
       /\ run.args.openPr => \E answer \in Answers(b.repo) :
                               /\ listed = Put(run.listed, b.repo, answer)
                               /\ answer[b] # "unknown"
                               /\ ~Settled(answer[b])
                               /\ ~OverMaxPrs(answer[b])

\* TakeEdit is one of these.
LEMMA TakeEditCases ==
    ASSUME TakeEdit
    PROVE  \E i \in run.left :
             \E listed \in {run.listed} \cup {Put(run.listed, run.plan.edits[i].branch.repo, a) :
                                               a \in Answers(run.plan.edits[i].branch.repo)} :
               /\ \A j \in run.left \ {i} : Ordered(i, j)
               /\ Took(i, run.plan.edits[i].branch, listed)
<1> USE DEF Took, Skip
<1>1. PICK i \in run.left :
        /\ \A j \in run.left \ {i} : Ordered(i, j)
        /\ LET b == run.plan.edits[i].branch
               next == Taken(i, run.listed)
           IN  IF run.plan.edits[i].blocked THEN Skip(next)
               ELSE IF run.args.only # {} /\ b.repo \notin run.args.only
               THEN run' = [next EXCEPT !.branch = None]
               ELSE IF Stopped(b) \/ OverMaxRepos(b) \/ b.repo \notin Fleet THEN Skip(next)
               ELSE IF ~run.args.openPr THEN Try(next)
               ELSE \E answer \in Answers(b.repo) :
                 LET known == Taken(i, Put(run.listed, b.repo, answer))
                 IN  IF answer[b] = "unknown" THEN run' = Done(known, "edit", "Blocked", FALSE)
                     ELSE IF Settled(answer[b]) \/ OverMaxPrs(answer[b]) THEN Skip(known)
                     ELSE Try(known)
  BY Zenon DEF TakeEdit
<1> DEFINE b == run.plan.edits[i].branch
<1>2. ASSUME \/ run.plan.edits[i].blocked
             \/ run.args.only # {} /\ b.repo \notin run.args.only
             \/ Stopped(b) \/ OverMaxRepos(b) \/ b.repo \notin Fleet
             \/ ~run.args.openPr
      PROVE  Took(i, b, run.listed)
  BY <1>1, <1>2, Zenon
<1>3. ASSUME ~run.plan.edits[i].blocked,
             ~(run.args.only # {} /\ b.repo \notin run.args.only),
             ~Stopped(b), ~OverMaxRepos(b), b.repo \in Fleet, run.args.openPr
      PROVE  \E a \in Answers(b.repo) : Took(i, b, Put(run.listed, b.repo, a))
  <2>1. PICK a \in Answers(b.repo) :
          IF a[b] = "unknown"
          THEN run' = Done(Taken(i, Put(run.listed, b.repo, a)), "edit", "Blocked", FALSE)
          ELSE IF Settled(a[b]) \/ OverMaxPrs(a[b]) THEN Skip(Taken(i, Put(run.listed, b.repo, a)))
          ELSE Try(Taken(i, Put(run.listed, b.repo, a)))
    BY <1>1, <1>3, Zenon
  <2>2. Took(i, b, Put(run.listed, b.repo, a)) BY <1>3, <2>1, Zenon
  <2> QED BY <2>2
<1> HIDE DEF Took, Skip
<1> QED BY <1>1, <1>2, <1>3, Zenon

\* An edit of a run's plan is about one of the branches.
LEMMA EditBranch ==
    ASSUME run \in RunRecord, NEW i \in DOMAIN run.plan.edits
    PROVE  run.plan.edits[i].branch \in Branches
<1>1. run.plan \in Plans BY DEF RunRecord
<1>2. run.plan.edits \in Seq([branch: Branches, blocked: BOOLEAN]) BY <1>1, FixApplyAssumption
<1> DEFINE E == [branch: Branches, blocked: BOOLEAN]
<1>3. run.plan.edits[i] \in E
  <2> HIDE DEF E
  <2>1. PICK s \in Seq(E) : s = run.plan.edits BY <1>2 DEF E
  <2>2. s \in [1 .. Len(s) -> E] BY <2>1
  <2> QED BY <2>1, <2>2
<1> QED BY <1>3

\* The run with its next edit in hand: only the edit, its branch and the lists are new.
LEMMA TakenFields ==
    ASSUME run \in RunRecord, NEW i \in DOMAIN run.plan.edits,
           NEW listed \in UNION {[D -> [Branches -> States]] : D \in SUBSET Repos},
           NEW t, t = Taken(i, listed)
    PROVE  /\ t \in RunRecord
           /\ t.branch = run.plan.edits[i].branch /\ t.left = run.left \ {i}
           /\ t.listed = listed
           /\ t.pc = run.pc /\ t.args = run.args /\ t.plan = run.plan
           /\ t.results = run.results /\ t.touched = run.touched /\ t.todo = run.todo
           /\ t.obsolete = run.obsolete
           /\ t.base = run.base /\ t.sha = run.sha
<1>1. run.plan.edits[i].branch \in Branches BY EditBranch
<1>2. PICK b \in Branches : b = run.plan.edits[i].branch BY <1>1
<1>3. t = [run EXCEPT !.left = @ \ {i}, !.branch = b, !.listed = listed]
  BY <1>2, Zenon DEF Taken
<1>4. run.left \ {i} \in SUBSET Nat BY DEF RunRecord
<1>5. t \in RunRecord BY <1>3, <1>4, ZenonT(60) DEF RunRecord
<1>6. t.branch = b /\ t.left = run.left \ {i} /\ t.listed = listed BY <1>3 DEF RunRecord
<1>7. /\ t.pc = run.pc /\ t.args = run.args /\ t.plan = run.plan
      /\ t.results = run.results /\ t.touched = run.touched /\ t.todo = run.todo
  BY <1>3 DEF RunRecord
<1>8. t.obsolete = run.obsolete /\ t.base = run.base /\ t.sha = run.sha
  BY <1>3 DEF RunRecord
<1> QED BY <1>2, <1>5, <1>6, <1>7, <1>8

\* The repository of a branch is one of the repositories.
LEMMA RepoOf == \A b \in Branches : b.repo \in Repos
BY DEF Repos

\* The lists of a run after an edit was taken, with the answer of its repository if it asked.
ListsAfter(b) == {run.listed} \cup {Put(run.listed, b.repo, a) : a \in Answers(b.repo)}

\* They are lists of known branches.
LEMMA ListsType ==
    ASSUME TypeOK, run \in RunRecord, NEW b \in Branches, NEW listed \in ListsAfter(b)
    PROVE  listed \in UNION {[D -> [Branches -> States]] : D \in SUBSET Repos}
<1>1. CASE listed = run.listed BY <1>1 DEF RunRecord
<1>2. CASE \E a \in Answers(b.repo) : listed = Put(run.listed, b.repo, a)
  <2>1. PICK repo : repo = b.repo /\ repo \in Repos BY RepoOf
  <2>2. PICK a \in Answers(repo) : listed = Put(run.listed, repo, a) BY <1>2, <2>1
  <2> QED BY <2>1, <2>2, AnswersType
<1> QED BY <1>1, <1>2, Zenon DEF ListsAfter

\* The run after TakeEdit, whatever it does with the edit.
LEMMA TookFields ==
    ASSUME run \in RunRecord, run.pc = "edit", NEW i \in DOMAIN run.plan.edits,
           NEW b \in Branches, b = run.plan.edits[i].branch,
           NEW listed \in UNION {[D -> [Branches -> States]] : D \in SUBSET Repos},
           Took(i, b, listed)
    PROVE  /\ run' \in RunRecord /\ run'.pc \in {"edit", "base"}
           /\ run'.plan = run.plan /\ run'.args = run.args /\ run'.left = run.left \ {i}
           /\ run'.listed = listed
           /\ run'.obsolete = run.obsolete /\ run'.todo = run.todo
           /\ run'.pc = "base" => run'.branch = b /\ run'.results = run.results /\ ~Stopped(b)
           /\ OnlyAdds(b, IF Stopped(b) THEN {"Skipped"} ELSE {"Skipped", "Blocked"})
<1>1. PICK t : t = Taken(i, listed) OBVIOUS
<1>2. /\ t \in RunRecord /\ t.branch = b /\ t.left = run.left \ {i} /\ t.listed = listed
      /\ t.pc = "edit" /\ t.args = run.args /\ t.plan = run.plan /\ t.results = run.results
      /\ t.todo = run.todo /\ t.obsolete = run.obsolete
  <2>1. /\ t \in RunRecord
        /\ t.branch = run.plan.edits[i].branch /\ t.left = run.left \ {i}
        /\ t.listed = listed
        /\ t.pc = run.pc /\ t.args = run.args /\ t.plan = run.plan
        /\ t.results = run.results /\ t.touched = run.touched /\ t.todo = run.todo
        /\ t.obsolete = run.obsolete
        /\ t.base = run.base /\ t.sha = run.sha
    BY <1>1, TakenFields
  <2> QED BY <2>1
<1>3. ASSUME NEW outcome \in {"Skipped", "Blocked"}, run' = Done(t, "edit", outcome, FALSE)
      PROVE  /\ run' \in RunRecord /\ run'.pc = "edit" /\ Kept(t, run')
             /\ OnlyAdds(b, {outcome})
  <2>1. t \in RunRecord /\ t.branch \in Branches BY <1>2
  <2>2. [outcome |-> outcome, opened |-> FALSE] \in Result BY DEF Result
  <2>3. "edit" \in {"edit", "list"} OBVIOUS
  <2>4. /\ run' \in RunRecord /\ run'.pc = "edit" /\ Kept(t, run')
        /\ Adds(t, run', outcome, FALSE)
    BY <1>3, <2>1, <2>2, <2>3, DoneFields, Zenon
  <2>5. run'.results[b].outcome = outcome BY <1>2, <2>4 DEF Adds
  <2>6. OnlyAdds(b, {outcome}) BY <1>2, <2>4, <2>5 DEF Adds, OnlyAdds
  <2> QED BY <2>4, <2>6
<1>4. ASSUME \/ run' = Done(t, "edit", "Skipped", FALSE)
             \/ run' = Done(t, "edit", "Blocked", FALSE) /\ ~Stopped(b)
      PROVE  /\ run' \in RunRecord /\ run'.pc = "edit" /\ Kept(t, run')
             /\ OnlyAdds(b, IF Stopped(b) THEN {"Skipped"} ELSE {"Skipped", "Blocked"})
  <2>1. CASE run' = Done(t, "edit", "Skipped", FALSE)
    <3>1. /\ run' \in RunRecord /\ run'.pc = "edit" /\ Kept(t, run')
          /\ OnlyAdds(b, {"Skipped"})
      BY <1>3, <2>1
    <3> QED BY <3>1 DEF OnlyAdds
  <2>2. CASE run' = Done(t, "edit", "Blocked", FALSE) /\ ~Stopped(b)
    <3>1. /\ run' \in RunRecord /\ run'.pc = "edit" /\ Kept(t, run')
          /\ OnlyAdds(b, {"Blocked"})
      BY <1>3, <2>2
    <3> QED BY <2>2, <3>1 DEF OnlyAdds
  <2> QED BY <1>4, <2>1, <2>2
<1>5. ASSUME run'.results = run.results
      PROVE  OnlyAdds(b, IF Stopped(b) THEN {"Skipped"} ELSE {"Skipped", "Blocked"})
  BY <1>5 DEF OnlyAdds
<1>6. CASE \/ run' = Done(t, "edit", "Skipped", FALSE)
           \/ run' = Done(t, "edit", "Blocked", FALSE) /\ ~Stopped(b)
  <2>1. /\ run' \in RunRecord /\ run'.pc = "edit" /\ Kept(t, run')
        /\ OnlyAdds(b, IF Stopped(b) THEN {"Skipped"} ELSE {"Skipped", "Blocked"})
    BY <1>4, <1>6
  <2> QED BY <1>2, <2>1 DEF Kept
<1>7. CASE run' = [t EXCEPT !.branch = None]
  <2>1. run' \in RunRecord BY <1>2, <1>7 DEF RunRecord
  <2>2. /\ run'.pc = t.pc /\ run'.plan = t.plan /\ run'.args = t.args /\ run'.left = t.left
        /\ run'.listed = t.listed
        /\ run'.obsolete = t.obsolete /\ run'.todo = t.todo /\ run'.results = t.results
    BY <1>2, <1>7 DEF RunRecord
  <2> QED BY <1>2, <1>5, <2>1, <2>2
<1>8. CASE Try(t) /\ ~Stopped(b)
  <2>1. b.repo \in Repos BY RepoOf
  <2>2. PICK touched \in SUBSET Repos : touched = t.touched \cup {t.branch.repo}
    BY <1>2, <2>1 DEF RunRecord
  <2>3. run' = [t EXCEPT !.pc = "base", !.touched = touched] BY <1>8, <2>2 DEF Try
  <2>4. run' \in RunRecord BY <1>2, <2>3 DEF RunRecord
  <2>5. /\ run'.pc = "base" /\ run'.plan = t.plan /\ run'.args = t.args /\ run'.left = t.left
        /\ run'.listed = t.listed /\ run'.branch = t.branch
        /\ run'.obsolete = t.obsolete /\ run'.todo = t.todo /\ run'.results = t.results
    BY <1>2, <2>3 DEF RunRecord
  <2> QED BY <1>2, <1>5, <1>8, <2>4, <2>5
<1> QED BY <1>1, <1>5, <1>6, <1>7, <1>8, Zenon DEF Took

\* TakeEdit as a step of the run: which edit it takes and what it leaves alone.
LEMMA TakeEditFields ==
    ASSUME TypeOK, Known, TakeEdit
    PROVE  \E i \in run.left : \E b \in Branches :
             /\ i \in DOMAIN run.plan.edits /\ b = run.plan.edits[i].branch
             /\ \A j \in run.left \ {i} : Ordered(i, j)
             /\ run' \in RunRecord /\ run'.pc \in {"edit", "base"}
             /\ run'.plan = run.plan /\ run'.args = run.args /\ run'.left = run.left \ {i}
             /\ run'.obsolete = run.obsolete /\ run'.todo = run.todo
             /\ run'.pc = "base" => run'.branch = b /\ run'.results = run.results /\ ~Stopped(b)
             /\ OnlyAdds(b, IF Stopped(b) THEN {"Skipped"} ELSE {"Skipped", "Blocked"})
<1>1. run \in RunRecord /\ run.pc = "edit" /\ Running
  BY Where, InRun
<1>2. PICK i \in run.left :
        /\ \A j \in run.left \ {i} : Ordered(i, j)
        /\ \E listed \in ListsAfter(run.plan.edits[i].branch) :
             Took(i, run.plan.edits[i].branch, listed)
  BY TakeEditCases, Zenon DEF ListsAfter
<1>3. i \in DOMAIN run.plan.edits BY <1>1 DEF Known
<1>4. PICK b \in Branches : b = run.plan.edits[i].branch BY <1>1, <1>3, EditBranch
<1>5. PICK listed \in UNION {[D -> [Branches -> States]] : D \in SUBSET Repos} :
        Took(i, b, listed)
  <2>1. \E listed \in ListsAfter(b) : Took(i, b, listed) BY <1>2, <1>4, Zenon
  <2> QED BY <1>1, <2>1, ListsType, Zenon
<1>6. /\ run' \in RunRecord /\ run'.pc \in {"edit", "base"}
      /\ run'.plan = run.plan /\ run'.args = run.args /\ run'.left = run.left \ {i}
      /\ run'.obsolete = run.obsolete /\ run'.todo = run.todo
      /\ run'.pc = "base" => run'.branch = b /\ run'.results = run.results /\ ~Stopped(b)
      /\ OnlyAdds(b, IF Stopped(b) THEN {"Skipped"} ELSE {"Skipped", "Blocked"})
  BY <1>1, <1>3, <1>4, <1>5, TookFields, Zenon
<1> QED BY <1>2, <1>3, <1>4, <1>6

\* TakeEdit keeps the types.
LEMMA TakeEditType ==
    ASSUME TypeOK, Known, TakeEdit
    PROVE  TypeOK' /\ Known' /\ run'.pc \in {"edit", "base"}
<1>1. PICK i \in run.left, b \in Branches :
        /\ run' \in RunRecord /\ run'.pc \in {"edit", "base"}
        /\ run'.plan = run.plan /\ run'.left = run.left \ {i}
        /\ run'.pc = "base" => run'.branch = b
  BY TakeEditFields, Zenon
<1>2. TypeOK' BY <1>1 DEF TypeOK, TakeEdit, outside, clone
<1>3. run.left \subseteq DOMAIN run.plan.edits BY Where, InRun DEF Known
<1>4. Known' BY <1>1, <1>3 DEF Known, Running, Trying, Closing
<1> QED BY <1>1, <1>2, <1>4

-----------------------------------------------------------------------------
\* The branch under way is done with, whatever came of it.
Stops(next) ==
    \E outcome \in {"Verified", "Unverified", "Blocked", "Skipped", "Closed"} :
      \E opened \in BOOLEAN :
        run' = Done(run, next, outcome, opened) /\ (outcome = "Closed" => next = "list")

\* What a result leaves alone, and that only close_obsolete has one that says closed.
LEMMA StopsType ==
    ASSUME TypeOK, Known, run.pc \in Trying \cup Closing, NEW next \in {"edit", "list"},
           Stops(next)
    PROVE  /\ run' \in RunRecord /\ run'.pc = next /\ Kept(run, run') /\ Known'
           /\ OnlyAdds(run.branch, IF next = "edit" THEN {"Verified", "Unverified", "Blocked", "Skipped"}
                                   ELSE {"Verified", "Unverified", "Blocked", "Skipped", "Closed"})
<1>1. run \in RunRecord /\ run.branch \in Branches /\ Running
  BY InRun DEF Known, Trying, Closing
<1>2. PICK outcome \in {"Verified", "Unverified", "Blocked", "Skipped", "Closed"},
           opened \in BOOLEAN :
        run' = Done(run, next, outcome, opened) /\ (outcome = "Closed" => next = "list")
  BY Zenon DEF Stops
<1>3. [outcome |-> outcome, opened |-> opened] \in Result BY DEF Result
<1>4. /\ run' \in RunRecord /\ run'.pc = next /\ Kept(run, run')
      /\ Adds(run, run', outcome, opened)
  BY <1>1, <1>2, <1>3, DoneFields, Zenon
<1>5. Known' BY <1>1, <1>4 DEF Known, Kept, Running, Trying, Closing
<1>6. run'.results[run.branch].outcome = outcome BY <1>4 DEF Adds
<1>7. OnlyAdds(run.branch, IF next = "edit" THEN {"Verified", "Unverified", "Blocked", "Skipped"}
                           ELSE {"Verified", "Unverified", "Blocked", "Skipped", "Closed"})
  BY <1>2, <1>4, <1>6 DEF Adds, OnlyAdds
<1> QED BY <1>4, <1>5, <1>7

\* The branch under way stays in hand.
Goes(pc) == run' = [run EXCEPT !.pc = pc]

\* What a step on to the next call leaves alone.
LEMMA GoesType ==
    ASSUME TypeOK, Known, run.pc \in Trying \cup Closing, NEW pc \in Trying \cup Closing,
           Goes(pc)
    PROVE  /\ run' \in RunRecord /\ Known' /\ run'.pc = pc /\ Kept(run, run')
           /\ run'.branch = run.branch /\ run'.base = run.base /\ run'.sha = run.sha
           /\ run'.results = run.results
<1>1. run \in RunRecord /\ run.branch \in Branches /\ Running
  BY InRun DEF Known, Trying, Closing
<1>2. run' \in RunRecord BY <1>1, Goto DEF Goes, Trying, Closing
<1>3. /\ run'.pc = pc /\ Kept(run, run') /\ run'.branch = run.branch
      /\ run'.base = run.base /\ run'.sha = run.sha /\ run'.results = run.results
  BY <1>1 DEF Goes, Kept, RunRecord
<1>4. Known' BY <1>1, <1>3 DEF Known, Kept, Running
<1> QED BY <1>2, <1>3, <1>4

\* What each call of an edit does to the run, in these terms.
LEMMA TryingCases ==
    /\ LookUp => \/ Stops("edit")
                 \/ \E pc \in {"judge", "fetch"} :
                      /\ run' = [run EXCEPT !.pc = pc, !.sha = remote[run.branch]]
                      /\ pc = "judge" <=> remote[run.branch] = None
    /\ FetchBranch => Stops("edit") \/ Goes("judge")
    /\ Judge => Stops("edit") \/ (Goes("push") /\ Publishing) \/ Goes("build")
    /\ Build => Stops("edit") \/ (Goes("push") /\ Publishing)
    /\ Push => Stops("edit") \/ (Goes("request") /\ run.args.openPr)
    /\ OpenRequest => Stops("edit")
    /\ CloseRequest => Stops("list") \/ Goes("delete")
    /\ DeleteBranch => Stops("list")
<1> USE DEF Stops, Goes
<1>1. LookUp => \/ Stops("edit")
                \/ \E pc \in {"judge", "fetch"} :
                     /\ run' = [run EXCEPT !.pc = pc, !.sha = remote[run.branch]]
                     /\ pc = "judge" <=> remote[run.branch] = None
  <2> SUFFICES ASSUME LookUp PROVE <1>1!2
    OBVIOUS
  <2>1. CASE Fail("Blocked") BY <2>1, Zenon DEF Fail
  <2>2. CASE run' = [run EXCEPT !.pc = IF remote[run.branch] = None THEN "judge" ELSE "fetch",
                                !.sha = remote[run.branch]]
    BY <2>2
  <2> QED BY <2>1, <2>2, Zenon DEF LookUp
<1>2. FetchBranch => Stops("edit") \/ Goes("judge") BY Zenon DEF FetchBranch, Fail
<1>3. Judge => Stops("edit") \/ (Goes("push") /\ Publishing) \/ Goes("build")
  BY Zenon DEF Judge, Fail, Verified
<1>4. Build => Stops("edit") \/ (Goes("push") /\ Publishing) BY Zenon DEF Build, Fail, Verified
<1>5. Push => Stops("edit") \/ (Goes("request") /\ run.args.openPr) BY Zenon DEF Push
<1>6. OpenRequest => Stops("edit") BY Zenon DEF OpenRequest
<1>7. CloseRequest => Stops("list") \/ Goes("delete") BY Zenon DEF CloseRequest
<1>8. DeleteBranch => Stops("list") BY Zenon DEF DeleteBranch
<1> QED BY <1>1, <1>2, <1>3, <1>4, <1>5, <1>6, <1>7, <1>8

\* base_and_remote's first half keeps the types; without a push there is no look.
LEMMA ReadBaseType ==
    ASSUME TypeOK, Known, ReadBase
    PROVE  /\ run' \in RunRecord /\ Known' /\ Kept(run, run')
           /\ \/ run'.pc = "edit"
              \/ /\ run'.pc = (IF Publishing THEN "look" ELSE "judge")
                 /\ run'.branch = run.branch /\ run'.sha = run.sha
                 /\ run'.results = run.results
<1>1. run \in RunRecord /\ run.branch \in Branches /\ run.pc \in Trying /\ Running
  BY Where, InRun DEF Known, Trying
<1>2. CASE Fail("Blocked")
  <2>1. Stops("edit") BY <1>2, Zenon DEF Fail, Stops
  <2>2. run' \in RunRecord /\ run'.pc = "edit" /\ Kept(run, run') /\ Known'
    BY <1>1, <2>1, StopsType
  <2> QED BY <2>2
<1>3. ASSUME NEW base \in IF Publishing THEN {main[run.branch.repo], Checkout} ELSE {Checkout},
             run' = [run EXCEPT !.pc = IF Publishing THEN "look" ELSE "judge", !.base = base]
      PROVE  /\ run' \in RunRecord /\ Known' /\ Kept(run, run')
             /\ run'.pc = (IF Publishing THEN "look" ELSE "judge")
             /\ run'.branch = run.branch /\ run'.sha = run.sha
             /\ run'.results = run.results
  <2>1. base \in 0 .. MaxMoves
    <3>1. 0 \in 0 .. MaxMoves BY FixApplyAssumption
    <3>2. main[run.branch.repo] \in 0 .. MaxMoves BY <1>1, RepoOf DEF TypeOK
    <3> QED BY <1>3, <3>1, <3>2 DEF Checkout
  <2>2. PICK pc \in {"look", "judge"} : pc = IF Publishing THEN "look" ELSE "judge" OBVIOUS
  <2>3. run' = [run EXCEPT !.pc = pc, !.base = base] BY <1>3, <2>2, Zenon
  <2>4. run' \in RunRecord BY <1>1, <2>1, <2>3 DEF RunRecord
  <2>5. /\ run'.pc = pc /\ Kept(run, run') /\ run'.branch = run.branch /\ run'.sha = run.sha
        /\ run'.results = run.results
    BY <1>1, <2>3 DEF RunRecord, Kept
  <2>6. Known' BY <1>1, <2>5 DEF Known, Kept, Running
  <2> QED BY <2>2, <2>4, <2>5, <2>6
<1> QED BY <1>2, <1>3, Zenon DEF ReadBase

\* It adds no result but a failure.
LEMMA ReadBaseStops ==
    ASSUME TypeOK, Known, ReadBase
    PROVE  \/ Stops("edit")
           \/ run'.pc \in {"look", "judge"} /\ run'.results = run.results
<1>1. run \in RunRecord BY Where, InRun
<1>2. CASE Fail("Blocked") BY <1>2, Zenon DEF Fail, Stops
<1>3. CASE \E base : run' = [run EXCEPT !.pc = IF Publishing THEN "look" ELSE "judge",
                                       !.base = base]
  BY <1>1, <1>3 DEF RunRecord
<1> QED BY <1>2, <1>3, Zenon DEF ReadBase

\* base_and_remote's second half keeps the types, and takes the head that is there.
LEMMA LookUpType ==
    ASSUME TypeOK, Known, LookUp
    PROVE  /\ run' \in RunRecord /\ Known' /\ Kept(run, run')
           /\ \/ run'.pc = "edit"
              \/ /\ run'.pc = (IF remote[run.branch] = None THEN "judge" ELSE "fetch")
                 /\ run'.branch = run.branch /\ run'.sha = remote[run.branch]
                 /\ run'.results = run.results
<1>1. run \in RunRecord /\ run.branch \in Branches /\ run.pc \in Trying /\ Running
  BY Where, InRun DEF Known, Trying
<1>2. CASE Stops("edit") BY <1>1, <1>2, StopsType
<1>3. ASSUME NEW pc \in {"judge", "fetch"}, pc = "judge" <=> remote[run.branch] = None,
             run' = [run EXCEPT !.pc = pc, !.sha = remote[run.branch]]
      PROVE  /\ run' \in RunRecord /\ Known' /\ Kept(run, run')
             /\ run'.pc = (IF remote[run.branch] = None THEN "judge" ELSE "fetch")
             /\ run'.branch = run.branch /\ run'.sha = remote[run.branch]
             /\ run'.results = run.results
  <2>1. PICK sha \in Commit : sha = remote[run.branch] BY <1>1 DEF TypeOK
  <2>2. run' = [run EXCEPT !.pc = pc, !.sha = sha] BY <1>3, <2>1, Zenon
  <2>3. run' \in RunRecord BY <1>1, <2>2 DEF RunRecord
  <2>4. /\ run'.pc = pc /\ Kept(run, run') /\ run'.branch = run.branch /\ run'.sha = sha
        /\ run'.results = run.results
    BY <1>1, <2>2 DEF RunRecord, Kept
  <2>5. Known' BY <1>1, <2>4 DEF Known, Kept, Running
  <2>6. pc = IF remote[run.branch] = None THEN "judge" ELSE "fetch" BY <1>3
  <2> QED BY <2>1, <2>3, <2>4, <2>5, <2>6
<1> QED BY <1>2, <1>3, TryingCases, Zenon

\* It adds no result but a failure.
LEMMA LookUpStops ==
    ASSUME TypeOK, Known, LookUp
    PROVE  \/ Stops("edit")
           \/ run'.pc \in {"judge", "fetch"} /\ run'.results = run.results
<1>1. run \in RunRecord BY Where, InRun
<1>2. CASE \E pc \in {"judge", "fetch"} :
             run' = [run EXCEPT !.pc = pc, !.sha = remote[run.branch]]
  BY <1>1, <1>2 DEF RunRecord
<1> QED BY <1>2, TryingCases

\* FinishEdits keeps the types; close_obsolete goes through repositories of the plan.
LEMMA FinishEditsType ==
    ASSUME TypeOK, Known, FinishEdits
    PROVE  /\ run' \in RunRecord \cup {NoRun} /\ Known'
           /\ \/ run' = NoRun
              \/ /\ run'.pc = "list" /\ run'.todo \subseteq run.plan.scanned
                 /\ run'.args = run.args /\ run'.plan = run.plan /\ run'.left = {}
                 /\ run'.results = run.results
                 /\ run'.listed = run.listed /\ run'.obsolete = run.obsolete
<1>1. run \in RunRecord /\ Running /\ run.left = {}
  BY Where, InRun DEF FinishEdits
<1>2. CASE run' = NoRun BY <1>2 DEF Known, Running, NoRun, Trying, Closing
<1>3. ASSUME run' = [run EXCEPT !.pc = "list",
                       !.todo = {r \in run.plan.scanned \cap Fleet : InScope(r)}]
      PROVE  /\ run' \in RunRecord /\ Known'
             /\ run'.pc = "list" /\ run'.todo \subseteq run.plan.scanned
             /\ run'.args = run.args /\ run'.plan = run.plan /\ run'.left = {}
             /\ run'.results = run.results
             /\ run'.listed = run.listed /\ run'.obsolete = run.obsolete
  <2>1. run.plan.scanned \subseteq Repos
    <3>1. run.plan \in Plans BY <1>1 DEF RunRecord
    <3> QED BY <3>1, FixApplyAssumption
  <2>2. PICK todo \in SUBSET Repos : todo = {r \in run.plan.scanned \cap Fleet : InScope(r)}
    BY <2>1
  <2>3. run' = [run EXCEPT !.pc = "list", !.todo = todo] BY <1>3, <2>2, Zenon
  <2>4. run' \in RunRecord BY <1>1, <2>3 DEF RunRecord
  <2>5. /\ run'.pc = "list" /\ run'.todo = todo
        /\ run'.args = run.args /\ run'.plan = run.plan /\ run'.left = {}
        /\ run'.results = run.results
        /\ run'.listed = run.listed /\ run'.obsolete = run.obsolete
    BY <1>1, <2>3 DEF RunRecord
  <2>6. todo \subseteq run.plan.scanned BY <2>2
  <2>7. Known' BY <1>1, <2>5 DEF Known, Running, Trying, Closing
  <2> QED BY <2>4, <2>5, <2>6, <2>7
<1> QED BY <1>2, <1>3, Zenon DEF FinishEdits

\* close_obsolete keeps the types; what it finds obsolete is not wanted.
LEMMA ListObsoleteType ==
    ASSUME TypeOK, Known, ListObsolete
    PROVE  /\ run' \in RunRecord \cup {NoRun} /\ Known'
           /\ \/ run' = NoRun
              \/ /\ run'.pc = "list" /\ run'.args = run.args /\ run'.plan = run.plan
                 /\ run'.left = run.left /\ run'.results = run.results
                 /\ \E repo \in run.todo : \E answer \in Answers(repo) :
                      /\ run'.listed = Put(run.listed, repo, answer)
                      /\ run'.todo = run.todo \ {repo}
                      /\ run'.obsolete \subseteq {b \in Branches : b.repo = repo} \ Wanted(run.plan)
<1>1. run \in RunRecord /\ Running BY Where, InRun
<1>2. CASE run' = NoRun BY <1>2 DEF Known, Running, NoRun, Trying, Closing
<1>3. ASSUME NEW repo \in run.todo, NEW answer \in Answers(repo),
             run' = [run EXCEPT !.todo = @ \ {repo}, !.listed = Put(@, repo, answer),
                       !.obsolete = {b \in Branches : answer[b] = "OPEN" /\ b.repo = repo}
                                    \ Wanted(run.plan)]
      PROVE  /\ run' \in RunRecord /\ Known'
             /\ run'.pc = run.pc /\ run'.args = run.args /\ run'.plan = run.plan
             /\ run'.left = run.left /\ run'.results = run.results
             /\ run'.listed = Put(run.listed, repo, answer)
             /\ run'.todo = run.todo \ {repo}
             /\ run'.obsolete \subseteq {b \in Branches : b.repo = repo} \ Wanted(run.plan)
  <2>1. repo \in Repos BY <1>1 DEF RunRecord
  <2>2. PICK listed \in UNION {[D -> [Branches -> States]] : D \in SUBSET Repos} :
          listed = Put(run.listed, repo, answer)
    BY <1>1, <2>1, AnswersType
  <2>3. PICK obsolete \in SUBSET Branches :
          obsolete = {b \in Branches : answer[b] = "OPEN" /\ b.repo = repo} \ Wanted(run.plan)
    OBVIOUS
  <2>4. PICK todo \in SUBSET Repos : todo = run.todo \ {repo} BY <1>1 DEF RunRecord
  <2>5. run' = [run EXCEPT !.todo = todo, !.listed = listed, !.obsolete = obsolete]
    BY <1>3, <2>2, <2>3, <2>4
  <2>6. run' \in RunRecord BY <1>1, <2>5 DEF RunRecord
  <2>7. /\ run'.pc = run.pc /\ run'.args = run.args /\ run'.plan = run.plan
        /\ run'.left = run.left /\ run'.results = run.results
        /\ run'.todo = todo /\ run'.obsolete = obsolete
        /\ run'.branch = run.branch /\ run'.listed = listed
    BY <1>1, <2>5 DEF RunRecord
  <2>8. obsolete \subseteq {b \in Branches : b.repo = repo} \ Wanted(run.plan) BY <2>3
  <2>9. Known' BY <1>1, <2>7 DEF Known, Running
  <2> QED BY <2>2, <2>4, <2>6, <2>7, <2>8, <2>9
<1>4. CASE \E repo \in run.todo : \E answer \in Answers(repo) :
             run' = [run EXCEPT !.todo = @ \ {repo}, !.listed = Put(@, repo, answer),
                       !.obsolete = {b \in Branches : answer[b] = "OPEN" /\ b.repo = repo}
                                    \ Wanted(run.plan)]
  <2>1. PICK repo \in run.todo : \E answer \in Answers(repo) :
             run' = [run EXCEPT !.todo = @ \ {repo}, !.listed = Put(@, repo, answer),
                       !.obsolete = {b \in Branches : answer[b] = "OPEN" /\ b.repo = repo}
                                    \ Wanted(run.plan)]
    BY <1>4, Zenon
  <2>2. run.pc = "list" BY Where
  <2> QED BY <1>3, <2>1, <2>2, Zenon
<1> QED BY <1>2, <1>4, Zenon DEF ListObsolete

\* close_one's look keeps the types, and goes on only with a head of fleetreach's own.
LEMMA ReadHeadType ==
    ASSUME TypeOK, Known, ReadHead
    PROVE  /\ run' \in RunRecord /\ Known'
           /\ run'.args = run.args /\ run'.plan = run.plan /\ run'.left = run.left
           /\ run'.todo = run.todo /\ run'.listed = run.listed
           /\ \E b \in run.obsolete :
                /\ run'.obsolete = run.obsolete \ {b}
                /\ \/ /\ run'.pc = "close" /\ run'.branch = b /\ run'.results = run.results
                      /\ remote[b] # None /\ Ours(remote[b])
                      /\ tracking' = [tracking EXCEPT ![b] = remote[b]]
                   \/ /\ run'.pc = "list"
                      /\ DOMAIN run'.results = DOMAIN run.results \cup {b}
                      /\ run'.results[b].outcome = "Blocked"
                      /\ \A c \in DOMAIN run.results \ {b} : run'.results[c] = run.results[c]
<1>1. run \in RunRecord /\ Running /\ run.pc = "list" BY Where, InRun
<1>2. PICK b \in run.obsolete :
        \/ run' = Done([run EXCEPT !.obsolete = @ \ {b}, !.branch = b], "list", "Blocked", FALSE)
        \/ /\ remote[b] # None
           /\ tracking' = [tracking EXCEPT ![b] = remote[b]]
           /\ run' = IF Ours(remote[b])
                     THEN [[run EXCEPT !.obsolete = @ \ {b}, !.branch = b] EXCEPT !.pc = "close"]
                     ELSE Done([run EXCEPT !.obsolete = @ \ {b}, !.branch = b],
                               "list", "Blocked", FALSE)
  BY Zenon DEF ReadHead
<1>3. PICK next : next = [run EXCEPT !.obsolete = @ \ {b}, !.branch = b] OBVIOUS
<1>4. b \in Branches /\ run.obsolete \ {b} \in SUBSET Branches BY <1>1 DEF RunRecord
<1>5. next \in RunRecord BY <1>1, <1>3, <1>4 DEF RunRecord
<1>6. /\ next.args = run.args /\ next.plan = run.plan /\ next.left = run.left
      /\ next.todo = run.todo /\ next.pc = run.pc
      /\ next.listed = run.listed
      /\ next.results = run.results /\ next.obsolete = run.obsolete \ {b} /\ next.branch = b
  BY <1>1, <1>3 DEF RunRecord
<1>7. CASE run' = Done(next, "list", "Blocked", FALSE)
  <2>1. [outcome |-> "Blocked", opened |-> FALSE] \in Result BY DEF Result
  <2>2. next.branch \in Branches BY <1>4, <1>6
  <2>3. /\ run' \in RunRecord /\ run'.pc = "list" /\ Kept(next, run')
        /\ Adds(next, run', "Blocked", FALSE)
    BY <1>5, <1>7, <2>1, <2>2, DoneFields, Zenon
  <2>4. /\ run'.args = run.args /\ run'.plan = run.plan /\ run'.left = run.left
        /\ run'.todo = run.todo /\ run'.listed = run.listed
        /\ run'.obsolete = run.obsolete \ {b}
    BY <1>6, <2>3 DEF Kept
  <2>5. /\ DOMAIN run'.results = DOMAIN run.results \cup {b}
        /\ run'.results[b].outcome = "Blocked"
        /\ \A c \in DOMAIN run.results \ {b} : run'.results[c] = run.results[c]
    BY <1>6, <2>3 DEF Adds
  <2>6. Known' BY <1>1, <2>3, <2>4 DEF Known, Running, Trying, Closing
  <2> QED BY <2>3, <2>4, <2>5, <2>6
<1>8. CASE run' = [next EXCEPT !.pc = "close"] /\ remote[b] # None /\ Ours(remote[b])
           /\ tracking' = [tracking EXCEPT ![b] = remote[b]]
  <2>1. run' \in RunRecord BY <1>5, <1>8, Goto
  <2>2. /\ run'.pc = "close" /\ run'.args = next.args /\ run'.plan = next.plan
        /\ run'.left = next.left /\ run'.todo = next.todo
        /\ run'.obsolete = next.obsolete /\ run'.branch = next.branch
        /\ run'.results = next.results /\ run'.listed = next.listed
    BY <1>5, <1>8 DEF RunRecord
  <2>3. Known' BY <1>1, <1>4, <1>6, <2>2 DEF Known, Running
  <2> QED BY <1>6, <1>8, <2>1, <2>2, <2>3
<1> QED BY <1>2, <1>3, <1>7, <1>8, Zenon

-----------------------------------------------------------------------------
\* A call of an edit or of a close that leaves the clone and the remote alone but for the
\* commits it moves.
LEMMA RunMoves ==
    ASSUME TypeOK, Known, FetchBranch \/ Judge \/ Build \/ Push \/ OpenRequest
                            \/ CloseRequest \/ DeleteBranch
    PROVE  run' \in RunRecord /\ Known' /\ run.branch \in Branches /\ Kept(run, run')
<1>1. run.pc \in Trying \cup Closing /\ run.branch \in Branches
  BY Where DEF Known, Trying, Closing
<1>2. \/ Stops("edit") \/ Stops("list")
      \/ \E pc \in {"judge", "build", "push", "request", "delete"} : Goes(pc)
  BY TryingCases
<1>3. ASSUME Stops("edit") \/ Stops("list") PROVE run' \in RunRecord /\ Known' /\ Kept(run, run')
  BY <1>1, <1>3, StopsType
<1>4. ASSUME NEW pc \in {"judge", "build", "push", "request", "delete"}, Goes(pc)
      PROVE  run' \in RunRecord /\ Known' /\ Kept(run, run')
  <2>1. pc \in Trying \cup Closing BY DEF Trying, Closing
  <2> QED BY <1>1, <1>4, <2>1, GoesType
<1> QED BY <1>1, <1>2, <1>3, <1>4

\* Every step keeps the types.
LEMMA TypeStep == TypeOK /\ Known /\ [Next]_vars => TypeOK' /\ Known'
<1> SUFFICES ASSUME TypeOK, Known, [Next]_vars PROVE TypeOK' /\ Known'
  OBVIOUS
<1>1. None \in Commit BY DEF Commit
<1>2. CASE Start
  <2>1. run' \in RunRecord /\ run'.pc = "edit" /\ run'.left = DOMAIN run'.plan.edits
    BY <1>2, StartType
  <2>2. runs' \in 0 .. MaxRuns BY <1>2, FixApplyAssumption DEF Start, TypeOK
  <2>3. settled' \subseteq Branches /\ made' \in [Branches -> {"no", "answered", "lost"}]
    BY <1>2 DEF Start
  <2>4. UNCHANGED <<main, remote, request, buried, moves, clone, lost>> BY <1>2 DEF Start
  <2>5. TypeOK' BY <2>1, <2>2, <2>3, <2>4 DEF TypeOK, clone
  <2>6. Known' BY <2>1 DEF Known, Trying, Closing
  <2> QED BY <2>5, <2>6
<1>3. CASE Crash
  <2>1. TypeOK' BY <1>3 DEF TypeOK, Crash, outside, clone
  <2>2. Known' BY <1>3 DEF Known, Crash, NoRun, Running, Trying, Closing
  <2> QED BY <2>1, <2>2
<1>4. CASE TakeEdit BY <1>4, TakeEditType
<1>5. CASE ReadBase
  <2>1. run' \in RunRecord /\ Known' BY <1>5, ReadBaseType
  <2> QED BY <1>5, <2>1, Zenon DEF TypeOK, ReadBase, outside, clone
<1>6. CASE LookUp
  <2>1. run' \in RunRecord /\ Known' BY <1>6, LookUpType
  <2> QED BY <1>6, <2>1, Zenon DEF TypeOK, LookUp, outside, clone
<1>7. CASE FetchBranch
  <2>1. run' \in RunRecord /\ Known' /\ run.branch \in Branches BY <1>7, RunMoves
  <2>2. tracking' \in [Branches -> Commit] BY <1>7, <2>1 DEF FetchBranch, TypeOK
  <2> QED BY <1>7, <2>1, <2>2, Zenon DEF TypeOK, FetchBranch, outside
<1>8. CASE Judge
  <2>1. run' \in RunRecord /\ Known' /\ run.branch \in Branches BY <1>8, RunMoves
  <2>2. local' \in [Branches \X BOOLEAN -> Commit]
    <3>1. run.sha \in Commit BY <1>8, Where, InRun DEF RunRecord
    <3>2. <<run.branch, TRUE>> \in Branches \X BOOLEAN BY <2>1
    <3>3. local[<<run.branch, TRUE>>] \in Commit BY <3>2 DEF TypeOK
    <3> QED BY <1>8, <3>1, <3>2, <3>3 DEF Judge, TypeOK
  <2> QED BY <1>8, <2>1, <2>2, Zenon DEF TypeOK, Judge, outside
<1>9. CASE Build
  <2>1. run' \in RunRecord /\ Known' /\ run.branch \in Branches BY <1>9, RunMoves
  <2>2. local' \in [Branches \X BOOLEAN -> Commit]
    <3>1. \A verified \in BOOLEAN : Built(verified) \in Commit
      BY <1>9, Where, InRun DEF RunRecord, Built, Commit, OurCommit
    <3>2. \A verified \in BOOLEAN : Target(run.branch, verified) \in Branches \X BOOLEAN
      BY <2>1 DEF Target
    <3> QED BY <1>9, <3>1, <3>2 DEF Build, TypeOK
  <2> QED BY <1>9, <2>1, <2>2, Zenon DEF TypeOK, Build, outside
<1>10. CASE Push
  <2>1. run' \in RunRecord /\ Known' /\ run.branch \in Branches BY <1>10, RunMoves
  <2>2. local[<<run.branch, TRUE>>] \in Commit
    <3>1. <<run.branch, TRUE>> \in Branches \X BOOLEAN BY <2>1
    <3> QED BY <3>1 DEF TypeOK
  <2>3. remote' \in [Branches -> Commit] /\ tracking' \in [Branches -> Commit]
    BY <1>10, <2>2 DEF Push, TypeOK
  <2>4. lost' \subseteq OtherCommit
    <3>1. Removed(run.branch) \subseteq OtherCommit
      BY <2>1 DEF Removed, TypeOK, Commit, OurCommit, None
    <3> QED BY <1>10, <3>1 DEF Push, TypeOK
  <2> QED BY <1>10, <2>1, <2>3, <2>4, Zenon DEF TypeOK, Push
<1>11. CASE OpenRequest
  <2>1. run' \in RunRecord /\ Known' /\ run.branch \in Branches BY <1>11, RunMoves
  <2>2. request' \in [Branches -> [open: BOOLEAN, last: {"none", "CLOSED", "MERGED"}]]
    <3>1. CASE request' = request BY <3>1 DEF TypeOK
    <3>2. CASE request' = [request EXCEPT ![run.branch].open = TRUE]
      BY <2>1, <3>2 DEF TypeOK
    <3> QED BY <1>11, <3>1, <3>2, Zenon DEF OpenRequest
  <2>3. buried' \subseteq Branches
    <3>1. buried' = buried \/ buried' = buried \ {run.branch} BY <1>11, Zenon DEF OpenRequest
    <3> QED BY <3>1 DEF TypeOK
  <2>4. made' \in [Branches -> {"no", "answered", "lost"}]
    <3>1. \/ made' = made
          \/ \E answered \in BOOLEAN :
               made' = [made EXCEPT ![run.branch] = IF answered THEN "answered" ELSE "lost"]
      BY <1>11, Zenon DEF OpenRequest
    <3> QED BY <3>1 DEF TypeOK
  <2> QED BY <1>11, <2>1, <2>2, <2>3, <2>4, ZenonT(60) DEF TypeOK, OpenRequest, clone
<1>12. CASE FinishEdits
  <2>1. run' \in RunRecord \cup {NoRun} /\ Known' BY <1>12, FinishEditsType
  <2> QED BY <1>12, <2>1, Zenon DEF TypeOK, FinishEdits, outside, clone
<1>13. CASE ListObsolete
  <2>1. run' \in RunRecord \cup {NoRun} /\ Known' BY <1>13, ListObsoleteType
  <2> QED BY <1>13, <2>1, Zenon DEF TypeOK, ListObsolete, outside, clone
<1>14. CASE ReadHead
  <2>1. run' \in RunRecord /\ Known' BY <1>14, ReadHeadType
  <2>2. tracking' \in [Branches -> Commit] BY <1>14 DEF ReadHead, TypeOK
  <2> QED BY <1>14, <2>1, <2>2, Zenon DEF TypeOK, ReadHead, outside
<1>15. CASE CloseRequest
  <2>1. run' \in RunRecord /\ Known' /\ run.branch \in Branches BY <1>15, RunMoves
  <2>2. request' \in [Branches -> [open: BOOLEAN, last: {"none", "CLOSED", "MERGED"}]]
    <3>1. CASE request' = request BY <3>1 DEF TypeOK
    <3>2. CASE request' = [request EXCEPT ![run.branch] =
                             IF @.open THEN [open |-> FALSE, last |-> "CLOSED"] ELSE @]
      <4>1. PICK R : R = [open: BOOLEAN, last: {"none", "CLOSED", "MERGED"}] OBVIOUS
      <4>2. request \in [Branches -> R] /\ [open |-> FALSE, last |-> "CLOSED"] \in R
        BY <4>1 DEF TypeOK
      <4>3. request' \in [Branches -> R] BY <2>1, <3>2, <4>2
      <4> QED BY <4>1, <4>3
    <3> QED BY <1>15, <3>1, <3>2, Zenon DEF CloseRequest
  <2> QED BY <1>15, <2>1, <2>2, Zenon DEF TypeOK, CloseRequest, clone
<1>16. CASE DeleteBranch
  <2>1. run' \in RunRecord /\ Known' /\ run.branch \in Branches BY <1>16, RunMoves
  <2>2. remote' \in [Branches -> Commit] /\ tracking' \in [Branches -> Commit]
    <3>1. /\ remote' = remote \/ remote' = [remote EXCEPT ![run.branch] = None]
          /\ tracking' = tracking \/ tracking' = [tracking EXCEPT ![run.branch] = None]
      BY <1>16, Zenon DEF DeleteBranch
    <3> QED BY <1>1, <2>1, <3>1 DEF TypeOK
  <2>3. lost' \subseteq OtherCommit
    <3>1. Removed(run.branch) \subseteq OtherCommit
      BY <2>1 DEF Removed, TypeOK, Commit, OurCommit, None
    <3> QED BY <1>16, <3>1 DEF DeleteBranch, TypeOK
  <2> QED BY <1>16, <2>1, <2>2, <2>3, Zenon DEF TypeOK, DeleteBranch
<1>17. ASSUME Move PROVE /\ moves' \in 1 .. MaxMoves /\ Known' /\ run' = run
                         /\ run' \in RunRecord \cup {NoRun}
  <2>1. moves' \in 1 .. MaxMoves BY <1>17, FixApplyAssumption DEF Move, Turn, TypeOK
  <2> QED BY <1>17, <2>1 DEF Move, Turn, Known, Running, TypeOK
<1>18. ASSUME NEW b \in Branches, SomeonePushes(b) PROVE TypeOK' /\ Known'
  <2>1. Move BY <1>18 DEF SomeonePushes
  <2>2. [by |-> "other", n |-> moves', late |-> BetweenLooks(b)] \in Commit
    BY <1>17, <2>1 DEF Commit, OtherCommit, BetweenLooks
  <2>3. remote' \in [Branches -> Commit] BY <1>18, <2>2 DEF SomeonePushes, TypeOK
  <2>4. UNCHANGED <<main, request, clone, runs, lost, buried, made, settled>>
    BY <1>18 DEF SomeonePushes, Move, Turn
  <2> QED BY <1>17, <2>1, <2>3, <2>4 DEF TypeOK, clone
<1>19. ASSUME NEW b \in Branches, SomeoneDeletes(b) PROVE TypeOK' /\ Known'
  <2>1. Move BY <1>19 DEF SomeoneDeletes
  <2>2. remote' \in [Branches -> Commit] BY <1>1, <1>19 DEF SomeoneDeletes, TypeOK
  <2>3. UNCHANGED <<main, request, clone, runs, lost, buried, made, settled>>
    BY <1>19 DEF SomeoneDeletes, Move, Turn
  <2> QED BY <1>17, <2>1, <2>2, <2>3 DEF TypeOK, clone
<1>20. ASSUME NEW b \in Branches, SomeoneCloses(b) \/ SomeoneMerges(b) PROVE TypeOK' /\ Known'
  <2>1. Move BY <1>20 DEF SomeoneCloses, SomeoneMerges
  <2>2. request' \in [Branches -> [open: BOOLEAN, last: {"none", "CLOSED", "MERGED"}]]
    <3>1. PICK R : R = [open: BOOLEAN, last: {"none", "CLOSED", "MERGED"}] OBVIOUS
    <3>2. /\ request \in [Branches -> R]
          /\ [open |-> FALSE, last |-> "CLOSED"] \in R /\ [open |-> FALSE, last |-> "MERGED"] \in R
      BY <3>1 DEF TypeOK
    <3>3. request' \in [Branches -> R] BY <1>20, <3>2 DEF SomeoneCloses, SomeoneMerges
    <3> QED BY <3>1, <3>3
  <2>3. main' \in [Repos -> 0 .. MaxMoves]
    BY <1>17, <1>20, <2>1, RepoOf DEF SomeoneCloses, SomeoneMerges, TypeOK
  <2>4. UNCHANGED <<remote, clone, runs, lost, buried, made, settled>>
    BY <1>20 DEF SomeoneCloses, SomeoneMerges, Move, Turn
  <2> QED BY <1>17, <2>1, <2>2, <2>3, <2>4 DEF TypeOK, clone
<1>21. ASSUME NEW r \in Repos, MainMoves(r) PROVE TypeOK' /\ Known'
  <2>1. Move BY <1>21 DEF MainMoves
  <2>2. main' \in [Repos -> 0 .. MaxMoves] BY <1>17, <1>21, <2>1 DEF MainMoves, TypeOK
  <2>3. UNCHANGED <<remote, request, clone, runs, lost, buried, made, settled>>
    BY <1>21 DEF MainMoves, Move, Turn
  <2> QED BY <1>17, <2>1, <2>2, <2>3 DEF TypeOK, clone
<1>22. ASSUME NEW b \in Branches, RequestBuried(b) PROVE TypeOK' /\ Known'
  <2>1. Turn /\ run' = run BY <1>22 DEF RequestBuried, Turn
  <2>2. moves' \in 1 .. MaxMoves BY <2>1, FixApplyAssumption DEF Turn, TypeOK
  <2>3. buried' \subseteq Branches /\ settled' \subseteq Branches
    BY <1>22 DEF RequestBuried, TypeOK
  <2>4. UNCHANGED <<main, remote, request, clone, runs, lost, made>>
    BY <1>22, <2>1 DEF RequestBuried, Turn
  <2> QED BY <2>1, <2>2, <2>3, <2>4 DEF TypeOK, Known, Running, clone
<1>23. CASE UNCHANGED vars BY <1>23 DEF vars, TypeOK, Known, Running
<1> QED BY <1>2, <1>3, <1>4, <1>5, <1>6, <1>7, <1>8, <1>9, <1>10, <1>11, <1>12, <1>13, <1>14,
           <1>15, <1>16, <1>18, <1>19, <1>20, <1>21, <1>22, <1>23, Zenon DEF Next

\* So they hold at all times.
LEMMA TypeInvariant == Spec => [](TypeOK /\ Known)
BY TypeInit, TypeStep, PTL DEF Spec

\* Every variable keeps its type: results, lists and heads are those of known branches.
THEOREM TypeCorrect == Spec => []TypeOK
BY TypeInvariant, PTL

-----------------------------------------------------------------------------
\* The steps that no branch of the clone or of the remote notices.
LEMMA CommitsMove ==
    ASSUME Next
    PROVE  \/ Judge \/ Build \/ Push \/ DeleteBranch
           \/ \E b \in Branches : SomeonePushes(b) \/ SomeoneDeletes(b)
           \/ UNCHANGED <<local, remote, lost>>
<1> USE DEF outside, clone, Move, Turn
<1>1. Start \/ Crash \/ TakeEdit \/ ReadBase \/ LookUp \/ FetchBranch \/ OpenRequest
        => UNCHANGED <<local, remote, lost>>
  BY Zenon DEF Start, Crash, TakeEdit, ReadBase, LookUp, FetchBranch, OpenRequest
<1>2. FinishEdits \/ ListObsolete \/ ReadHead \/ CloseRequest
        => UNCHANGED <<local, remote, lost>>
  BY Zenon DEF FinishEdits, ListObsolete, ReadHead, CloseRequest
<1>3. ASSUME NEW b, SomeoneCloses(b) \/ SomeoneMerges(b) \/ MainMoves(b) \/ RequestBuried(b)
      PROVE  UNCHANGED <<local, remote, lost>>
  BY <1>3, Zenon DEF SomeoneCloses, SomeoneMerges, MainMoves, RequestBuried
<1> QED BY <1>1, <1>2, <1>3, Zenon DEF Next

\* A branch is moved by a verified commit, by nothing, or by other people.
LEMMA VerifiedStep ==
    TypeOK /\ Known /\ OnlyVerifiedMoves /\ [Next]_vars => OnlyVerifiedMoves'
<1> SUFFICES ASSUME TypeOK, Known, OnlyVerifiedMoves, [Next]_vars
             PROVE  OnlyVerifiedMoves'
  OBVIOUS
<1>1. /\ local \in [Branches \X BOOLEAN -> Commit] /\ remote \in [Branches -> Commit]
      /\ \A b \in Branches : <<b, TRUE>> \in Branches \X BOOLEAN
  BY DEF TypeOK
<1>2. CASE UNCHANGED <<local, remote>> BY <1>2 DEF OnlyVerifiedMoves, Ours
<1>3. ASSUME NEW b \in Branches, NEW commit \in Commit, Ours(commit),
             local' = [local EXCEPT ![<<b, TRUE>>] = commit], remote' = remote
      PROVE  OnlyVerifiedMoves'
  BY <1>1, <1>3 DEF OnlyVerifiedMoves, Ours
<1>4. CASE Judge
  <2>1. run.branch \in Branches /\ run.sha \in Commit /\ remote' = remote
    BY <1>4, Where, InRun DEF Known, Trying, RunRecord, Judge, outside
  <2>2. PICK current \in Commit :
          current = IF run.sha # None THEN run.sha ELSE local[<<run.branch, TRUE>>]
    BY <1>1, <2>1
  <2>3. \/ UNCHANGED local
        \/ OnBase(current) /\ local' = [local EXCEPT ![<<run.branch, TRUE>>] = current]
    BY <1>4, <2>2, Zenon DEF Judge
  <2> QED BY <1>2, <1>3, <2>1, <2>2, <2>3 DEF OnBase
<1>5. CASE Build
  <2>1. run.branch \in Branches /\ run.base \in 0 .. MaxMoves
    BY <1>5, Where, InRun DEF Known, Trying, RunRecord
  <2>2. remote' = remote BY <1>5 DEF Build, outside
  <2>3. CASE UNCHANGED local BY <1>2, <2>2, <2>3
  <2>4. ASSUME local' = [local EXCEPT ![Target(run.branch, TRUE)] = Built(TRUE)]
        PROVE  OnlyVerifiedMoves'
    <3>1. Built(TRUE) \in Commit /\ Ours(Built(TRUE))
      BY <2>1 DEF Built, Commit, OurCommit, Ours
    <3>2. PICK commit \in Commit : commit = Built(TRUE) BY <3>1
    <3> QED BY <1>3, <2>1, <2>2, <2>4, <3>1, <3>2 DEF Target
  <2>5. ASSUME local' = [local EXCEPT ![Target(run.branch, FALSE)] = Built(FALSE)]
        PROVE  OnlyVerifiedMoves'
    <3>1. \A b \in Branches : local'[<<b, TRUE>>] = local[<<b, TRUE>>]
      BY <1>1, <2>5 DEF Target
    <3> QED BY <2>2, <3>1 DEF OnlyVerifiedMoves, Ours
  <2>6. \/ UNCHANGED local
        \/ \E verified \in {TRUE, FALSE} :
             local' = [local EXCEPT ![Target(run.branch, verified)] = Built(verified)]
    BY <1>5 DEF Build
  <2> QED BY <2>3, <2>4, <2>5, <2>6, Zenon
<1>6. CASE Push
  <2>1. run.branch \in Branches BY <1>6, Where DEF Known, Trying
  <2>2. local' = local BY <1>6 DEF Push
  <2>3. CASE remote' = remote BY <1>2, <2>2, <2>3
  <2>4. CASE remote' = [remote EXCEPT ![run.branch] = local[<<run.branch, TRUE>>]]
    <3>1. PICK head \in Commit : head = local[<<run.branch, TRUE>>] BY <1>1, <2>1
    <3>2. head.by = "fleetreach" => head.verified
      <4>1. head # None => Ours(head) BY <2>1, <3>1, Zenon DEF OnlyVerifiedMoves
      <4>2. None.by # "fleetreach" BY DEF None
      <4> QED BY <4>1, <4>2, Zenon DEF Ours
    <3> QED BY <1>1, <2>1, <2>2, <2>4, <3>1, <3>2 DEF OnlyVerifiedMoves, Ours
  <2> QED BY <1>6, <2>3, <2>4, Zenon DEF Push
<1>7. ASSUME NEW b \in Branches, NEW head, head.by # "fleetreach",
             remote' = [remote EXCEPT ![b] = head], local' = local
      PROVE  OnlyVerifiedMoves'
  BY <1>1, <1>7 DEF OnlyVerifiedMoves, Ours
<1>8. None.by # "fleetreach" BY DEF None
<1>9. CASE DeleteBranch
  <2>1. run.branch \in Branches BY <1>9, Where DEF Known, Closing
  <2>2. local' = local /\ (remote' = remote \/ remote' = [remote EXCEPT ![run.branch] = None])
    BY <1>9, Zenon DEF DeleteBranch
  <2> QED BY <1>2, <1>7, <1>8, <2>1, <2>2
<1>10. ASSUME NEW b \in Branches, SomeonePushes(b) PROVE OnlyVerifiedMoves'
  <2>1. /\ local' = local
        /\ remote' = [remote EXCEPT ![b] = [by |-> "other", n |-> moves', late |-> BetweenLooks(b)]]
    BY <1>10, Zenon DEF SomeonePushes, Move, Turn, clone
  <2>2. PICK head : head = [by |-> "other", n |-> moves', late |-> BetweenLooks(b)] OBVIOUS
  <2>3. head.by # "fleetreach" BY <2>2
  <2> QED BY <1>7, <2>1, <2>2, <2>3
<1>11. ASSUME NEW b \in Branches, SomeoneDeletes(b) PROVE OnlyVerifiedMoves'
  <2>1. local' = local /\ remote' = [remote EXCEPT ![b] = None]
    BY <1>11, Zenon DEF SomeoneDeletes, Move, Turn, clone
  <2> QED BY <1>7, <1>8, <2>1
<1>12. CASE UNCHANGED vars BY <1>2, <1>12, Zenon DEF vars
<1> QED BY <1>2, <1>4, <1>5, <1>6, <1>9, <1>10, <1>11, <1>12, CommitsMove, Zenon

\* fix.rs: a branch that fleetreach names only ever moves to a commit that a second scan
\* verified, on the clone and on the remote, whatever other people do in between.
THEOREM OnlyVerifiedMovesAlways == Spec => []OnlyVerifiedMoves
<1>1. Init => OnlyVerifiedMoves
  <2> SUFFICES ASSUME Init PROVE OnlyVerifiedMoves
    OBVIOUS
  <2>1. \A b \in Branches : <<b, TRUE>> \in Branches \X BOOLEAN OBVIOUS
  <2> QED BY <2>1 DEF Init, OnlyVerifiedMoves, None
<1> QED BY <1>1, VerifiedStep, TypeInvariant, PTL DEF Spec

-----------------------------------------------------------------------------
\* A head that a run may take from the remote: not one of other people's, unless it came
\* between two looks.
Safe(head) == head.by = "other" => head.late

\* What a run knows of the head it is about to move.  Until the fetch, the remote holds what
\* ls-remote named; from then on the tracking branch does, so that the lease stands for it;
\* where ls-remote found nothing, whatever has come since is not what the tracking branch
\* remembers of an earlier run, and the lease refuses it.  The look at the message comes
\* before the work tree, and close_one's look at it before the request is closed.
Looked ==
    /\ run.pc = "fetch" =>
         run.sha # None /\ (remote[run.branch] = run.sha \/ Safe(remote[run.branch]))
    /\ run.pc \in {"judge", "build", "push"} /\ Publishing =>
         /\ run.sha = None => \/ remote[run.branch] = None
                              \/ remote[run.branch] # tracking[run.branch]
         /\ run.sha # None => tracking[run.branch] = run.sha \/ Safe(tracking[run.branch])
    /\ run.pc \in {"build", "push"} /\ run.sha # None => Ours(run.sha)
    /\ run.pc = "push" => Publishing
    /\ run.pc \in Closing => Safe(remote[run.branch])

\* No head, and a head of fleetreach's own, are safe to take.
LEMMA SafeHeads == Safe(None) /\ \A head : Ours(head) => Safe(head)
<1>1. Safe(None) BY DEF Safe, None
<1>2. "fleetreach" # "other" OBVIOUS
<1> QED BY <1>1, <1>2, Zenon DEF Safe, Ours

\* A commit of other people is counted when it comes: none that a branch or a tracking branch
\* holds is yet to come.
Counted(head) == head.by = "other" => head.n <= moves
Fresh == \A b \in Branches : Counted(remote[b]) /\ Counted(tracking[b])

LEMMA FreshInit == Init => Fresh
<1> SUFFICES ASSUME Init PROVE Fresh
  OBVIOUS
<1>1. \A b \in Branches : remote[b] = None /\ tracking[b] = None BY DEF Init
<1> QED BY <1>1 DEF Fresh, Counted, None

\* The count of a commit of other people is a number.
LEMMA CountIsNat == \A head \in Commit : head.by = "other" => head.n \in Nat
BY FixApplyAssumption DEF Commit, OurCommit, OtherCommit, None

\* Counts that were below the moves stay below them.
LEMMA CountedLater ==
    ASSUME moves \in Nat, moves' = moves + 1, NEW head \in Commit, Counted(head)
    PROVE  head.by = "other" => head.n <= moves'
BY CountIsNat DEF Counted

\* Every step keeps it, since a run pushes no commit but its own.
LEMMA FreshStep ==
    TypeOK /\ Known /\ OnlyVerifiedMoves /\ Fresh /\ [Next]_vars => Fresh'
<1> SUFFICES ASSUME TypeOK, Known, OnlyVerifiedMoves, Fresh, [Next]_vars PROVE Fresh'
  OBVIOUS
<1>1. /\ remote \in [Branches -> Commit] /\ tracking \in [Branches -> Commit]
      /\ moves \in Nat /\ \A b \in Branches : Counted(remote[b]) /\ Counted(tracking[b])
  BY FixApplyAssumption DEF TypeOK, Fresh
<1>2. Counted(None) BY DEF Counted, None
<1>3. ASSUME NEW b \in Branches, NEW head, Counted(head), moves' = moves,
             remote' = remote \/ remote' = [remote EXCEPT ![b] = head],
             tracking' = tracking \/ tracking' = [tracking EXCEPT ![b] = head]
      PROVE  Fresh'
  BY <1>1, <1>3 DEF Fresh, Counted
<1>4. CASE remote' = remote /\ tracking' = tracking /\ moves' = moves
  BY <1>4, Zenon DEF Fresh, Counted
<1>5. CASE remote' = remote /\ tracking' = tracking /\ moves' = moves + 1
  <2> SUFFICES ASSUME NEW c \in Branches PROVE Counted(remote[c])' /\ Counted(tracking[c])'
    BY DEF Fresh
  <2>1. /\ remote[c].by = "other" => remote[c].n <= moves'
        /\ tracking[c].by = "other" => tracking[c].n <= moves'
    BY <1>1, <1>5, CountedLater
  <2> QED BY <1>5, <2>1 DEF Counted
<1>6. CASE FetchBranch
  <2>1. run.branch \in Branches BY <1>6, Where DEF Known, Trying
  <2>2. /\ remote' = remote /\ moves' = moves
        /\ \/ tracking' = tracking
           \/ tracking' = [tracking EXCEPT ![run.branch] = remote[run.branch]]
    BY <1>6, Zenon DEF FetchBranch, outside
  <2>3. Counted(remote[run.branch]) BY <1>1, <2>1
  <2> QED BY <1>3, <2>1, <2>2, <2>3
<1>7. CASE Push
  <2>1. run.branch \in Branches BY <1>7, Where DEF Known, Trying
  <2>2. PICK head : head = local[<<run.branch, TRUE>>] OBVIOUS
  <2>3. head = None \/ Ours(head) BY <2>1, <2>2 DEF OnlyVerifiedMoves
  <2>4. Counted(head) BY <1>2, <2>3 DEF Counted, Ours
  <2>5. /\ moves' = moves
        /\ remote' = remote \/ remote' = [remote EXCEPT ![run.branch] = head]
        /\ tracking' = tracking \/ tracking' = [tracking EXCEPT ![run.branch] = head]
    BY <1>7, <2>2, Zenon DEF Push
  <2> QED BY <1>3, <2>1, <2>4, <2>5
<1>8. CASE DeleteBranch
  <2>1. run.branch \in Branches BY <1>8, Where DEF Known, Closing
  <2>2. /\ moves' = moves
        /\ remote' = remote \/ remote' = [remote EXCEPT ![run.branch] = None]
        /\ tracking' = tracking \/ tracking' = [tracking EXCEPT ![run.branch] = None]
    BY <1>8, Zenon DEF DeleteBranch
  <2> QED BY <1>2, <1>3, <2>1, <2>2
<1>9. CASE ReadHead
  <2>1. run \in RunRecord BY <1>9, Where, InRun
  <2>2. PICK b \in run.obsolete : tracking' = tracking
                                 \/ tracking' = [tracking EXCEPT ![b] = remote[b]]
    BY <1>9, Zenon DEF ReadHead
  <2>3. b \in Branches BY <2>1, <2>2 DEF RunRecord
  <2>4. remote' = remote /\ moves' = moves BY <1>9, Zenon DEF ReadHead, outside
  <2> QED BY <1>1, <1>3, <2>2, <2>3, <2>4
<1>10. CASE \/ Start \/ Crash \/ TakeEdit \/ ReadBase \/ LookUp \/ Judge \/ Build \/ OpenRequest
            \/ FinishEdits \/ ListObsolete \/ CloseRequest
  <2>1. remote' = remote /\ tracking' = tracking /\ moves' = moves
    BY <1>10, Zenon DEF Start, Crash, TakeEdit, ReadBase, LookUp, Judge, Build, OpenRequest,
       FinishEdits, ListObsolete, CloseRequest, outside, clone
  <2> QED BY <1>4, <2>1
<1>11. ASSUME NEW b \in Branches, SomeonePushes(b) PROVE Fresh'
  <2>1. PICK head : head = [by |-> "other", n |-> moves', late |-> BetweenLooks(b)] OBVIOUS
  <2>2. /\ remote' = [remote EXCEPT ![b] = head] /\ tracking' = tracking
        /\ moves' = moves + 1
    BY <1>11, <2>1, Zenon DEF SomeonePushes, Move, Turn, clone
  <2>3. head.n = moves' BY <2>1
  <2> SUFFICES ASSUME NEW c \in Branches PROVE Counted(remote[c])' /\ Counted(tracking[c])'
    BY DEF Fresh
  <2>4. /\ remote[c].by = "other" => remote[c].n <= moves'
        /\ tracking[c].by = "other" => tracking[c].n <= moves'
    BY <1>1, <2>2, CountedLater
  <2>5. remote'[c] = remote[c] \/ remote'[c].n = moves' BY <1>1, <2>2, <2>3
  <2> QED BY <1>1, <2>2, <2>4, <2>5 DEF Counted
<1>12. ASSUME NEW b \in Branches, SomeoneDeletes(b) PROVE Fresh'
  <2>1. /\ remote' = [remote EXCEPT ![b] = None] /\ tracking' = tracking
        /\ moves' = moves + 1
    BY <1>12, Zenon DEF SomeoneDeletes, Move, Turn, clone
  <2>2. None.by # "other" BY DEF None
  <2> SUFFICES ASSUME NEW c \in Branches PROVE Counted(remote[c])' /\ Counted(tracking[c])'
    BY DEF Fresh
  <2>3. /\ remote[c].by = "other" => remote[c].n <= moves'
        /\ tracking[c].by = "other" => tracking[c].n <= moves'
    BY <1>1, <2>1, CountedLater
  <2>4. remote'[c] = remote[c] \/ remote'[c] = None BY <1>1, <2>1
  <2> QED BY <2>1, <2>2, <2>3, <2>4 DEF Counted
<1>13. ASSUME NEW b, SomeoneCloses(b) \/ SomeoneMerges(b) \/ MainMoves(b) \/ RequestBuried(b)
       PROVE  Fresh'
  <2>1. remote' = remote /\ tracking' = tracking /\ moves' = moves + 1
    BY <1>13, Zenon DEF SomeoneCloses, SomeoneMerges, MainMoves, RequestBuried, Move, Turn, clone
  <2> QED BY <1>5, <2>1
<1>14. CASE UNCHANGED vars BY <1>4, <1>14 DEF vars
<1> QED BY <1>6, <1>7, <1>8, <1>9, <1>10, <1>11, <1>12, <1>13, <1>14, Zenon DEF Next

\* Between the looks of one edit and those of the next a run knows nothing.
LEMMA NothingLooked ==
    ASSUME run'.pc \in {"idle", "edit", "base", "look", "request", "list"} PROVE Looked'
BY DEF Looked, Closing

\* A run that goes on to the work tree or to the push has found the head to be its own.
LEMMA JudgeLooks ==
    ASSUME Judge
    PROVE  \/ Stops("edit")
           \/ Goes("push") /\ Publishing /\ (run.sha # None => Ours(run.sha))
           \/ Goes("build") /\ (run.sha # None => Ours(run.sha))
<1>1. CASE run.sha # None /\ ~Ours(run.sha) BY <1>1, Zenon DEF Judge, Fail, Stops
<1>2. CASE run.sha # None => Ours(run.sha)
  <2>1. Stops("edit") \/ (Goes("push") /\ Publishing) \/ Goes("build") BY TryingCases
  <2> QED BY <1>2, <2>1
<1> QED BY <1>1, <1>2

\* Every step keeps what a run knows of the head.
LEMMA LookedStep ==
    TypeOK /\ Known /\ Fresh /\ Looked /\ [Next]_vars => Looked'
<1> SUFFICES ASSUME TypeOK, Known, Fresh, Looked, [Next]_vars PROVE Looked'
  OBVIOUS
<1>1. remote \in [Branches -> Commit] /\ tracking \in [Branches -> Commit] BY DEF TypeOK
<1>2. ASSUME run.pc \in Trying \cup Closing, Stops("edit") \/ Stops("list") PROVE Looked'
  <2>1. run'.pc \in {"edit", "list"} BY <1>2, StopsType
  <2> QED BY <2>1, NothingLooked
<1>3. ASSUME Kept(run, run') PROVE Publishing' <=> Publishing
  BY <1>3, Zenon DEF Kept, Publishing
<1>4. CASE Start
  <2>1. run'.pc = "edit" BY <1>4, StartType
  <2> QED BY <2>1, NothingLooked
<1>5. CASE Crash
  <2>1. run'.pc = "idle" BY <1>5 DEF Crash, NoRun
  <2> QED BY <2>1, NothingLooked
<1>6. CASE TakeEdit
  <2>1. run'.pc \in {"edit", "base"} BY <1>6, TakeEditType
  <2> QED BY <2>1, NothingLooked
<1>7. CASE ReadBase
  <2>1. CASE run'.pc \in {"edit", "look"} BY <2>1, NothingLooked
  <2>2. CASE run'.pc = "judge" /\ ~Publishing
    <3>1. ~Publishing' BY <1>3, <1>7, <2>2, ReadBaseType
    <3> QED BY <2>2, <3>1 DEF Looked, Closing
  <2> QED BY <1>7, <2>1, <2>2, ReadBaseType
<1>8. CASE LookUp
  <2>1. remote' = remote BY <1>8 DEF LookUp, outside
  <2>2. CASE run'.pc = "edit" BY <2>2, NothingLooked
  <2>3. CASE /\ run'.pc = (IF remote[run.branch] = None THEN "judge" ELSE "fetch")
             /\ run'.branch = run.branch /\ run'.sha = remote[run.branch]
    <3>1. CASE remote[run.branch] = None BY <2>1, <2>3, <3>1 DEF Looked, Closing
    <3>2. CASE remote[run.branch] # None BY <2>1, <2>3, <3>2 DEF Looked, Closing
    <3> QED BY <3>1, <3>2
  <2> QED BY <1>8, <2>2, <2>3, LookUpType
<1>9. CASE FetchBranch
  <2>1. run.pc = "fetch" BY <1>9, Where
  <2>2. CASE Fail("Blocked")
    <3>1. Stops("edit") BY <2>2, Zenon DEF Fail, Stops
    <3> QED BY <1>2, <2>1, <3>1 DEF Trying
  <2>3. CASE Goes("judge") /\ tracking' = [tracking EXCEPT ![run.branch] = remote[run.branch]]
    <3>1. /\ run'.pc = "judge" /\ run'.branch = run.branch /\ run'.sha = run.sha
          /\ run.branch \in Branches
      BY <2>1, <2>3, GoesType DEF Trying, Known
    <3>2. run.sha # None /\ (remote[run.branch] = run.sha \/ Safe(remote[run.branch]))
      BY <2>1, Zenon DEF Looked
    <3>3. tracking'[run.branch] = remote[run.branch] BY <1>1, <2>3, <3>1
    <3> QED BY <3>1, <3>2, <3>3 DEF Looked, Closing
  <2> QED BY <1>9, <2>2, <2>3, Zenon DEF FetchBranch, Goes
<1>10. ASSUME NEW pc \in {"build", "push"}, Goes(pc), run.pc \in {"judge", "build"},
              remote' = remote, tracking' = tracking,
              run.sha # None => Ours(run.sha), pc = "push" => Publishing
       PROVE  Looked'
  <2>1. /\ run'.pc = pc /\ run'.branch = run.branch /\ run'.sha = run.sha
        /\ Publishing' <=> Publishing
    BY <1>3, <1>10, GoesType DEF Trying
  <2>2. Publishing =>
          /\ run.sha = None => \/ remote[run.branch] = None
                               \/ remote[run.branch] # tracking[run.branch]
          /\ run.sha # None => tracking[run.branch] = run.sha \/ Safe(tracking[run.branch])
    BY <1>10 DEF Looked
  <2> QED BY <1>10, <2>1, <2>2 DEF Looked, Closing
<1>11. CASE Judge
  <2>1. run.pc = "judge" /\ remote' = remote /\ tracking' = tracking
    BY <1>11, Zenon DEF Judge, outside
  <2>2. CASE Stops("edit") BY <1>2, <2>1, <2>2 DEF Trying
  <2>3. CASE Goes("push") /\ Publishing /\ (run.sha # None => Ours(run.sha))
    BY <1>10, <2>1, <2>3
  <2>4. CASE Goes("build") /\ (run.sha # None => Ours(run.sha))
    BY <1>10, <2>1, <2>4
  <2> QED BY <1>11, <2>2, <2>3, <2>4, JudgeLooks, Zenon
<1>12. CASE Build
  <2>1. run.pc = "build" /\ remote' = remote /\ tracking' = tracking
    BY <1>12, Zenon DEF Build, outside
  <2>2. CASE Stops("edit") BY <1>2, <2>1, <2>2 DEF Trying
  <2>3. CASE Goes("push") /\ Publishing
    <3>1. run.sha # None => Ours(run.sha) BY <2>1 DEF Looked
    <3> QED BY <1>10, <2>1, <2>3, <3>1
  <2> QED BY <1>12, <2>2, <2>3, TryingCases
<1>13. CASE Push
  <2>1. CASE Stops("edit") BY <1>2, <1>13, <2>1, Where DEF Trying
  <2>2. CASE Goes("request")
    <3>1. run'.pc = "request" BY <1>13, <2>2, GoesType, Where DEF Trying
    <3> QED BY <3>1, NothingLooked
  <2> QED BY <1>13, <2>1, <2>2, TryingCases
<1>14. CASE OpenRequest BY <1>2, <1>14, TryingCases, Where DEF Trying
<1>15. CASE FinishEdits
  <2>1. run'.pc \in {"idle", "list"} BY <1>15, FinishEditsType DEF NoRun
  <2> QED BY <2>1, NothingLooked
<1>16. CASE ListObsolete
  <2>1. run'.pc \in {"idle", "list"} BY <1>16, ListObsoleteType DEF NoRun
  <2> QED BY <2>1, NothingLooked
<1>17. CASE ReadHead
  <2>1. remote' = remote BY <1>17 DEF ReadHead, outside
  <2>2. CASE run'.pc = "list" BY <2>2, NothingLooked
  <2>3. CASE run'.pc = "close" /\ Safe(remote[run'.branch])
    <3>1. Safe(remote[run.branch])' BY <2>1, <2>3, Zenon DEF Safe
    <3> QED BY <2>3, <3>1 DEF Looked
  <2> QED BY <1>17, <2>2, <2>3, ReadHeadType, SafeHeads
<1>18. CASE CloseRequest
  <2>1. run.pc = "close" /\ remote' = remote BY <1>18, Zenon DEF CloseRequest
  <2>2. CASE Stops("list") BY <1>2, <2>1, <2>2 DEF Closing
  <2>3. CASE Goes("delete")
    <3>1. run'.pc = "delete" /\ run'.branch = run.branch BY <2>1, <2>3, GoesType DEF Closing
    <3>2. Safe(remote[run.branch]) BY <2>1 DEF Looked, Closing
    <3> QED BY <2>1, <3>1, <3>2 DEF Looked
  <2> QED BY <1>18, <2>2, <2>3, TryingCases
<1>19. CASE DeleteBranch BY <1>2, <1>19, TryingCases, Where DEF Closing
<1>20. ASSUME run' = run, remote' = remote, tracking' = tracking PROVE Looked'
  BY <1>20, Zenon DEF Looked, Publishing, Safe, Ours
<1>21. ASSUME NEW b \in Branches, NEW head, remote' = [remote EXCEPT ![b] = head],
              run' = run, tracking' = tracking, b = run.branch /\ run.pc = "fetch" => Safe(head),
              b = run.branch /\ run.pc \in Closing => Safe(head),
              head = None \/ head # tracking[b]
       PROVE  Looked'
  <2>1. CASE run.pc \notin {"fetch", "judge", "build", "push"} \cup Closing
    BY <1>21, <2>1 DEF Looked, Closing
  <2>2. CASE run.pc \in Trying \cup Closing
    <3>1. run.branch \in Branches BY <2>2 DEF Known
    <3>2. CASE b = run.branch
      <4>1. remote'[run.branch] = head BY <1>1, <1>21, <3>2
      <4> QED BY <1>21, <3>2, <4>1 DEF Looked, Publishing, Ours, Safe, Closing
    <3>3. CASE b # run.branch
      <4>1. remote'[run.branch] = remote[run.branch] BY <1>1, <1>21, <3>1, <3>3
      <4> QED BY <1>21, <4>1 DEF Looked, Publishing, Ours, Safe, Closing
    <3> QED BY <3>2, <3>3
  <2> QED BY <2>1, <2>2 DEF Trying
<1>22. ASSUME NEW b \in Branches, SomeonePushes(b) PROVE Looked'
  <2>1. /\ remote' = [remote EXCEPT ![b] = [by |-> "other", n |-> moves', late |-> BetweenLooks(b)]]
        /\ run' = run /\ tracking' = tracking /\ moves' = moves + 1
    BY <1>22, Zenon DEF SomeonePushes, Move, Turn, clone
  <2>2. PICK head : head = [by |-> "other", n |-> moves', late |-> BetweenLooks(b)] OBVIOUS
  <2>3. head.late = BetweenLooks(b) BY <2>2, Zenon
  <2>4. b = run.branch /\ run.pc \in {"fetch", "close", "delete"} => Safe(head)
    <3>1. ASSUME b = run.branch, run.pc \in {"fetch", "close", "delete"} PROVE BetweenLooks(b)
      BY <3>1 DEF BetweenLooks, Running
    <3> QED BY <2>3, <3>1, Zenon DEF Safe
  <2>5. remote' = [remote EXCEPT ![b] = head] BY <2>1, <2>2, Zenon
  <2>6. head # tracking[b]
    <3>1. head.by = "other" /\ head.n = moves + 1 BY <2>1, <2>2
    <3>2. moves \in Nat BY FixApplyAssumption DEF TypeOK
    <3>3. tracking[b].by = "other" => tracking[b].n <= moves BY DEF Fresh, Counted
    <3> QED BY <3>1, <3>2, <3>3
  <2> QED BY <1>21, <2>1, <2>4, <2>5, <2>6 DEF Closing
<1>23. ASSUME NEW b \in Branches, SomeoneDeletes(b) PROVE Looked'
  <2>1. /\ remote' = [remote EXCEPT ![b] = None]
        /\ run' = run /\ tracking' = tracking
    BY <1>23, Zenon DEF SomeoneDeletes, Move, Turn, clone
  <2> QED BY <1>21, <2>1, SafeHeads
<1>24. ASSUME NEW b, SomeoneCloses(b) \/ SomeoneMerges(b) \/ MainMoves(b) \/ RequestBuried(b)
       PROVE  Looked'
  <2>1. run' = run /\ remote' = remote /\ tracking' = tracking
    BY <1>24, Zenon DEF SomeoneCloses, SomeoneMerges, MainMoves, RequestBuried, Move, Turn, clone
  <2> QED BY <1>20, <2>1
<1>25. CASE UNCHANGED vars BY <1>20, <1>25 DEF vars
<1> QED BY <1>4, <1>5, <1>6, <1>7, <1>8, <1>9, <1>11, <1>12, <1>13, <1>14, <1>15, <1>16, <1>17,
           <1>18, <1>19, <1>22, <1>23, <1>24, <1>25, Zenon DEF Next

\* No run, nothing known.
LEMMA LookedInit == Init => Looked
<1> SUFFICES ASSUME Init PROVE Looked
  OBVIOUS
<1>1. run.pc = "idle" BY DEF Init, NoRun
<1> QED BY <1>1 DEF Looked, Closing

\* What a push or a delete removes is safe.
LEMMA OthersStep ==
    TypeOK /\ Known /\ Looked /\ OthersKept /\ [Next]_vars => OthersKept'
<1> SUFFICES ASSUME TypeOK, Known, Looked, OthersKept, [Next]_vars PROVE OthersKept'
  OBVIOUS
<1>1. CASE lost' = lost BY <1>1, Zenon DEF OthersKept
<1>2. ASSUME NEW b \in Branches, lost' = lost \cup Removed(b), Safe(remote[b])
      PROVE  OthersKept'
  BY <1>2, Zenon DEF OthersKept, Removed, Safe
<1>3. CASE Push
  <2>1. run.pc = "push" /\ run.branch \in Branches BY <1>3, Where DEF Known, Trying
  <2>2. CASE lost' = lost /\ UNCHANGED remote BY <1>1, <2>2
  <2>3. CASE LeaseHolds(run.branch) /\ lost' = lost \cup Removed(run.branch)
    <3>1. /\ run.sha = None => \/ remote[run.branch] = None
                               \/ remote[run.branch] # tracking[run.branch]
          /\ run.sha # None => tracking[run.branch] = run.sha \/ Safe(tracking[run.branch])
          /\ run.sha # None => Ours(run.sha)
      BY <2>1 DEF Looked
    <3>2. remote[run.branch] = tracking[run.branch] BY <2>3 DEF LeaseHolds
    <3>3. Safe(remote[run.branch]) BY <3>1, <3>2, SafeHeads, Zenon
    <3> QED BY <1>2, <2>1, <2>3, <3>3
  <2> QED BY <1>3, <2>2, <2>3, Zenon DEF Push
<1>4. CASE DeleteBranch
  <2>1. run.pc = "delete" /\ run.branch \in Branches BY <1>4, Where DEF Known, Closing
  <2>2. Safe(remote[run.branch]) BY <2>1 DEF Looked, Closing
  <2>3. lost' = lost \/ lost' = lost \cup Removed(run.branch) BY <1>4, Zenon DEF DeleteBranch
  <2> QED BY <1>1, <1>2, <2>1, <2>2, <2>3
<1>5. CASE Judge \/ Build BY <1>1, <1>5, Zenon DEF Judge, Build
<1>6. ASSUME NEW b, SomeonePushes(b) \/ SomeoneDeletes(b) PROVE OthersKept'
  BY <1>1, <1>6, Zenon DEF SomeonePushes, SomeoneDeletes, Move, Turn
<1>7. CASE UNCHANGED vars BY <1>1, <1>7, Zenon DEF vars
<1> QED BY <1>1, <1>3, <1>4, <1>5, <1>6, <1>7, CommitsMove, Zenon

\* fix.rs: a commit of somebody else's goes from a branch only if it came between two looks
\* that the code takes for one, however the runs die, fail and overlap with other people.
THEOREM OthersKeptAlways == Spec => []OthersKept
<1>1. Init => OthersKept BY DEF Init, OthersKept
<1>2. Spec => []Fresh
  BY FreshInit, FreshStep, OnlyVerifiedMovesAlways, TypeInvariant, PTL DEF Spec
<1>3. Spec => []Looked
  BY <1>2, LookedInit, LookedStep, TypeInvariant, PTL DEF Spec
<1> QED BY <1>1, <1>3, OthersStep, TypeInvariant, PTL DEF Spec

-----------------------------------------------------------------------------
\* The answers under which a request is left alone.
NotOpen == {"CLOSED", "MERGED", "unknown"}
ListsSettled(listed) ==
    \A b \in settled : b.repo \in DOMAIN listed => listed[b.repo][b] \in NotOpen

\* What a run knows of the requests that were settled when it started: they still are; no list
\* that it has read says otherwise; those it has yet to list are on the page; and the branch of
\* none of them is being worked on, or nothing is to be opened.
SettledKnown ==
    /\ run.pc # "idle" =>
         /\ \A b \in settled :
              b \in Branches /\ ~request[b].open /\ request[b].last \in {"CLOSED", "MERGED"}
         /\ ListsSettled(run.listed)
         /\ \A b \in settled : b.repo \notin DOMAIN run.listed => b \notin buried
    /\ run.pc \in Trying /\ run.args.openPr => run.branch \notin settled
    /\ run.pc = "request" => run.args.openPr

\* Every answer there can be leaves a settled request alone.
LEMMA AnswerSettled ==
    ASSUME SettledKnown, run.pc # "idle", NEW repo, NEW answer \in Answers(repo),
           NEW b \in settled, b.repo = repo
    PROVE  answer[b] \in NotOpen
<1>1. /\ b \in Branches /\ ~request[b].open /\ request[b].last \in {"CLOSED", "MERGED"}
      /\ ListsSettled(run.listed)
      /\ b.repo \notin DOMAIN run.listed => b \notin buried
  BY DEF SettledKnown
<1>2. CASE repo \in DOMAIN run.listed
  <2>1. answer = run.listed[repo] BY <1>2 DEF Answers
  <2> QED BY <1>1, <1>2, <2>1 DEF ListsSettled
<1>3. CASE repo \notin DOMAIN run.listed
  <2>1. CASE answer = Listing(repo) BY <1>1, <1>3, <2>1 DEF Listing, NotOpen
  <2>2. CASE answer = NoListing BY <1>1, <2>2 DEF NoListing, NotOpen
  <2> QED BY <1>3, <2>1, <2>2 DEF Answers
<1> QED BY <1>2, <1>3

\* A list that a run reads says of a settled request that it is not open.
LEMMA PutSettled ==
    ASSUME SettledKnown, run.pc # "idle", NEW repo, NEW answer \in Answers(repo)
    PROVE  ListsSettled(Put(run.listed, repo, answer))
<1> SUFFICES ASSUME NEW b \in settled, b.repo \in DOMAIN Put(run.listed, repo, answer)
             PROVE  Put(run.listed, repo, answer)[b.repo][b] \in NotOpen
  BY DEF ListsSettled
<1>1. ListsSettled(run.listed) BY DEF SettledKnown
<1>2. CASE b.repo = repo
  <2>1. answer[b] \in NotOpen BY <1>2, AnswerSettled
  <2> QED BY <1>2, <2>1 DEF Put
<1>3. CASE b.repo # repo BY <1>1, <1>3 DEF ListsSettled, Put
<1> QED BY <1>2, <1>3

\* What keeps it: the requests of other branches may change.
LEMMA SettledRun ==
    ASSUME SettledKnown, run.pc # "idle",
           settled' = settled, buried' \subseteq buried,
           ListsSettled(run'.listed), DOMAIN run.listed \subseteq DOMAIN run'.listed,
           \A b \in settled : request'[b] = request[b],
           run'.pc \in Trying /\ run'.args.openPr => run'.branch \notin settled,
           run'.pc = "request" => run'.args.openPr
    PROVE  SettledKnown'
BY DEF SettledKnown, ListsSettled

\* An edit whose request is settled is not tried when requests are opened.
LEMMA SettledTake ==
    ASSUME TypeOK, Known, SettledKnown, TakeEdit PROVE SettledKnown'
<1>1. run \in RunRecord /\ run.pc = "edit" /\ Running BY Where, InRun
<1>2. PICK i \in run.left : \E listed \in ListsAfter(run.plan.edits[i].branch) :
        Took(i, run.plan.edits[i].branch, listed)
  BY TakeEditCases, Zenon DEF ListsAfter
<1>3. i \in DOMAIN run.plan.edits BY <1>1 DEF Known
<1>4. PICK b \in Branches : b = run.plan.edits[i].branch BY <1>1, <1>3, EditBranch
<1>5. PICK listed \in ListsAfter(b) : Took(i, b, listed) BY <1>2, <1>4
<1>6. listed \in UNION {[D -> [Branches -> States]] : D \in SUBSET Repos}
  BY <1>1, ListsType, Zenon
<1>7. /\ run' \in RunRecord /\ run'.pc \in {"edit", "base"} /\ run'.args = run.args
      /\ run'.listed = listed
      /\ run'.pc = "base" => run'.branch = b
  BY <1>1, <1>3, <1>4, <1>5, <1>6, TookFields, Zenon
<1>8. ListsSettled(listed)
  <2>1. CASE listed = run.listed BY <1>1, <2>1 DEF SettledKnown
  <2>2. ASSUME NEW a \in Answers(b.repo), listed = Put(run.listed, b.repo, a)
        PROVE  ListsSettled(listed)
    BY <1>1, <2>2, PutSettled
  <2> QED BY <2>1, <2>2, Zenon DEF ListsAfter
<1>9. run'.pc = "base" /\ run.args.openPr => b \notin settled
  <2> SUFFICES ASSUME run'.pc = "base", run.args.openPr, b \in settled PROVE FALSE
    OBVIOUS
  <2>1. PICK a \in Answers(b.repo) : a[b] # "unknown" /\ ~Settled(a[b])
    <3>1. PICK t : t = Taken(i, listed) OBVIOUS
    <3>2. /\ t \in RunRecord /\ t.branch = b /\ t.pc = "edit"
      BY <1>1, <1>3, <1>4, <1>6, <3>1, TakenFields
    <3>3. run' # [t EXCEPT !.branch = None] BY <3>2 DEF RunRecord
    <3>4. ASSUME NEW outcome \in {"Skipped", "Blocked"}, run' = Done(t, "edit", outcome, FALSE)
          PROVE  FALSE
      <4>1. [outcome |-> outcome, opened |-> FALSE] \in Result BY DEF Result
      <4>2. t.branch \in Branches BY <3>2
      <4>3. run'.pc = "edit" BY <3>2, <3>4, <4>1, <4>2, DoneFields, Zenon
      <4> QED BY <4>3
    <3>5. /\ run' # Done(t, "edit", "Skipped", FALSE)
          /\ run' # Done(t, "edit", "Blocked", FALSE)
      BY <3>4
    <3> QED BY <1>5, <3>1, <3>3, <3>5, Zenon DEF Took
  <2>2. a[b] \in NotOpen BY <1>1, AnswerSettled
  <2> QED BY <2>1, <2>2 DEF NotOpen, Settled
<1>10. UNCHANGED <<request, settled, buried>> BY DEF TakeEdit, outside
<1>11. DOMAIN run.listed \subseteq DOMAIN listed BY <1>5 DEF ListsAfter, Put
<1> QED BY <1>1, <1>7, <1>8, <1>9, <1>10, <1>11, SettledRun DEF Trying

\* No run, nothing settled.
LEMMA SettledInit == Init => SettledKnown
<1> SUFFICES ASSUME Init PROVE SettledKnown
  OBVIOUS
<1>1. run.pc = "idle" BY DEF Init, NoRun
<1> QED BY <1>1 DEF SettledKnown, Trying

\* Every step keeps it.
LEMMA SettledStep ==
    TypeOK /\ Known /\ SettledKnown /\ [Next]_vars => SettledKnown'
<1> SUFFICES ASSUME TypeOK, Known, SettledKnown, [Next]_vars PROVE SettledKnown'
  OBVIOUS
<1>1. /\ request \in [Branches -> [open: BOOLEAN, last: {"none", "CLOSED", "MERGED"}]]
      /\ run.pc # "idle" => \A b \in settled : b \in Branches /\ ~request[b].open
  BY DEF TypeOK, SettledKnown
<1>2. ASSUME run.pc # "idle", Kept(run, run'), run'.pc \notin Trying,
             \A b \in settled : request'[b] = request[b], settled' = settled,
             buried' \subseteq buried
      PROVE  SettledKnown'
  <2>1. ListsSettled(run'.listed) /\ run'.listed = run.listed
    BY <1>2, Zenon DEF Kept, SettledKnown
  <2> QED BY <1>2, <2>1, SettledRun DEF Trying
<1>3. ASSUME run.pc \in Trying, Kept(run, run'), run'.branch = run.branch,
             UNCHANGED <<request, settled, buried>>, run'.pc = "request" => run.args.openPr
      PROVE  SettledKnown'
  <2>1. ListsSettled(run'.listed) /\ run'.listed = run.listed /\ run'.args = run.args
    BY <1>3, Zenon DEF Kept, SettledKnown, Trying
  <2>2. run.args.openPr => run.branch \notin settled BY <1>3 DEF SettledKnown
  <2> QED BY <1>3, <2>1, <2>2, SettledRun DEF Trying
<1>4. ASSUME NEW next \in {"edit", "list"}, Stops(next), run.pc \in Trying \cup Closing,
             \A b \in settled : request'[b] = request[b], settled' = settled,
             buried' \subseteq buried
      PROVE  SettledKnown'
  <2>1. Kept(run, run') /\ run'.pc = next BY <1>4, StopsType
  <2> QED BY <1>2, <1>4, <2>1 DEF Trying, Closing
<1>5. ASSUME NEW pc \in Trying \cup Closing, Goes(pc), run.pc \in Trying,
             UNCHANGED <<request, settled, buried>>, pc = "request" => run.args.openPr
      PROVE  SettledKnown'
  <2>1. Kept(run, run') /\ run'.pc = pc /\ run'.branch = run.branch BY <1>5, GoesType
  <2> QED BY <1>3, <1>5, <2>1
<1>6. ASSUME run'.pc = "idle" PROVE SettledKnown' BY <1>6 DEF SettledKnown, Trying
<1>7. CASE Start
  <2>1. /\ run'.pc = "edit" /\ run'.listed = Empty /\ request' = request /\ buried' = buried
        /\ settled' = {b \in Branches \ buried : ~request[b].open /\ request[b].last # "none"}
    BY <1>7, StartType DEF Start
  <2>2. DOMAIN Empty = {} BY DEF Empty
  <2> QED BY <1>1, <2>1, <2>2 DEF SettledKnown, ListsSettled, Trying
<1>8. CASE Crash BY <1>6, <1>8 DEF Crash, NoRun
<1>9. CASE TakeEdit BY <1>9, SettledTake
<1>10. CASE ReadBase
  <2>1. UNCHANGED <<request, settled, buried>> /\ run.pc = "base"
    BY <1>10, Where DEF ReadBase, outside
  <2>2. Kept(run, run') BY <1>10, ReadBaseType
  <2>3. CASE run'.pc = "edit" BY <1>2, <2>1, <2>2, <2>3 DEF Trying
  <2>4. CASE run'.pc \in {"look", "judge"} /\ run'.branch = run.branch
    BY <1>3, <2>1, <2>2, <2>4 DEF Trying
  <2> QED BY <1>10, <2>3, <2>4, ReadBaseType
<1>11. CASE LookUp
  <2>1. UNCHANGED <<request, settled, buried>> /\ run.pc = "look"
    BY <1>11, Where DEF LookUp, outside
  <2>2. Kept(run, run') BY <1>11, LookUpType
  <2>3. CASE run'.pc = "edit" BY <1>2, <2>1, <2>2, <2>3 DEF Trying
  <2>4. CASE run'.pc \in {"judge", "fetch"} /\ run'.branch = run.branch
    BY <1>3, <2>1, <2>2, <2>4 DEF Trying
  <2> QED BY <1>11, <2>3, <2>4, LookUpType
<1>12. CASE FetchBranch \/ Judge \/ Build \/ Push
  <2>1. UNCHANGED <<request, settled, buried>> /\ run.pc \in {"fetch", "judge", "build", "push"}
    BY <1>12, Where, Zenon DEF FetchBranch, Judge, Build, Push, outside
  <2>2. \/ Stops("edit")
        \/ \E pc \in {"judge", "push", "build", "request"} :
             Goes(pc) /\ (pc = "request" => run.args.openPr)
    BY <1>12, TryingCases
  <2>3. CASE Stops("edit") BY <1>4, <2>1, <2>3 DEF Trying
  <2>4. CASE \E pc \in {"judge", "push", "build", "request"} :
               Goes(pc) /\ (pc = "request" => run.args.openPr)
    BY <1>5, <2>1, <2>4 DEF Trying
  <2> QED BY <2>2, <2>3, <2>4
<1>13. CASE OpenRequest
  <2>1. run.pc = "request" /\ Stops("edit") BY <1>13, Where, TryingCases
  <2>2. run.branch \notin settled BY <2>1 DEF SettledKnown, Trying
  <2>3. \A b \in Branches \ {run.branch} : request'[b] = request[b]
    BY <1>1, <1>13 DEF OpenRequest
  <2>4. \A b \in settled : request'[b] = request[b] BY <1>1, <2>1, <2>2, <2>3
  <2>5. settled' = settled /\ buried' \subseteq buried BY <1>13 DEF OpenRequest
  <2> QED BY <1>4, <2>1, <2>4, <2>5 DEF Trying
<1>14. CASE FinishEdits
  <2>1. UNCHANGED <<request, settled, buried>> /\ run.pc = "edit"
    BY <1>14, Where DEF FinishEdits, outside
  <2>2. CASE run' = NoRun BY <1>6, <2>2 DEF NoRun
  <2>3. CASE run'.pc = "list" /\ run'.listed = run.listed
    <3>1. ListsSettled(run'.listed) BY <2>1, <2>3 DEF SettledKnown
    <3> QED BY <2>1, <2>3, <3>1, SettledRun DEF Trying
  <2> QED BY <1>14, <2>2, <2>3, FinishEditsType
<1>15. CASE ListObsolete
  <2>1. UNCHANGED <<request, settled, buried>> /\ run.pc = "list"
    BY <1>15, Where DEF ListObsolete, outside
  <2>2. CASE run' = NoRun BY <1>6, <2>2 DEF NoRun
  <2>3. ASSUME run'.pc = "list",
               NEW repo, NEW answer \in Answers(repo),
               run'.listed = Put(run.listed, repo, answer)
        PROVE  SettledKnown'
    <3>1. ListsSettled(run'.listed) BY <2>1, <2>3, PutSettled
    <3>2. DOMAIN run.listed \subseteq DOMAIN run'.listed BY <2>3 DEF Put
    <3> QED BY <2>1, <2>3, <3>1, <3>2, SettledRun DEF Trying
  <2> QED BY <1>15, <2>2, <2>3, ListObsoleteType
<1>16. CASE ReadHead
  <2>1. UNCHANGED <<request, settled, buried>> /\ run.pc = "list"
    BY <1>16, Where DEF ReadHead, outside
  <2>2. /\ run'.pc \in {"close", "list"}
        /\ run'.listed = run.listed
    BY <1>16, ReadHeadType
  <2>3. ListsSettled(run'.listed) BY <2>1, <2>2 DEF SettledKnown
  <2> QED BY <2>1, <2>2, <2>3, SettledRun DEF Trying
<1>17. CASE CloseRequest
  <2>1. run.pc = "close" /\ UNCHANGED <<settled, buried>> BY <1>17, Where DEF CloseRequest
  <2>2. \A b \in settled : request'[b] = request[b]
    <3>1. CASE request' = request BY <3>1
    <3>2. CASE request' = [request EXCEPT ![run.branch] =
                             IF @.open THEN [open |-> FALSE, last |-> "CLOSED"] ELSE @]
      BY <1>1, <2>1, <3>2
    <3> QED BY <1>17, <3>1, <3>2, Zenon DEF CloseRequest
  <2>3. CASE Stops("list") BY <1>4, <2>1, <2>2, <2>3 DEF Closing
  <2>4. CASE Goes("delete")
    <3>1. Kept(run, run') /\ run'.pc = "delete" BY <2>1, <2>4, GoesType DEF Closing
    <3> QED BY <1>2, <2>1, <2>2, <3>1 DEF Trying
  <2> QED BY <1>17, <2>3, <2>4, TryingCases
<1>18. CASE DeleteBranch
  <2>1. run.pc = "delete" /\ Stops("list") /\ UNCHANGED <<request, settled, buried>>
    BY <1>18, Where, TryingCases DEF DeleteBranch
  <2> QED BY <1>4, <2>1 DEF Closing
<1>19. ASSUME run' = run, UNCHANGED <<settled, buried>>,
              run.pc # "idle" => \A b \in settled : request'[b] = request[b]
       PROVE  SettledKnown'
  BY <1>19 DEF SettledKnown, ListsSettled
<1>20. ASSUME NEW b \in Branches, SomeonePushes(b) \/ SomeoneDeletes(b) PROVE SettledKnown'
  BY <1>19, <1>20, Zenon DEF SomeonePushes, SomeoneDeletes, Move, Turn
<1>21. ASSUME NEW b \in Branches, SomeoneCloses(b) \/ SomeoneMerges(b) PROVE SettledKnown'
  <2>1. request[b].open /\ UNCHANGED <<run, settled, buried>>
    BY <1>21, Zenon DEF SomeoneCloses, SomeoneMerges, Move, Turn
  <2>2. \A c \in Branches \ {b} : request'[c] = request[c]
    BY <1>1, <1>21 DEF SomeoneCloses, SomeoneMerges
  <2> QED BY <1>1, <1>19, <2>1, <2>2
<1>22. ASSUME NEW r \in Repos, MainMoves(r) PROVE SettledKnown'
  BY <1>19, <1>22, Zenon DEF MainMoves, Move, Turn
<1>23. ASSUME NEW b \in Branches, RequestBuried(b) PROVE SettledKnown'
  <2>1. UNCHANGED <<run, request>> /\ buried' = buried \cup {b} /\ settled' \subseteq settled
    BY <1>23 DEF RequestBuried, Turn
  <2>2. run.pc # "idle" => \A c \in settled' : c.repo \notin DOMAIN run.listed => c # b
    BY <1>23 DEF RequestBuried, Running
  <2> QED BY <2>1, <2>2 DEF SettledKnown, ListsSettled
<1>24. CASE UNCHANGED vars BY <1>19, <1>24 DEF vars
<1> QED BY <1>7, <1>8, <1>9, <1>10, <1>11, <1>12, <1>13, <1>14, <1>15, <1>16, <1>17, <1>18, <1>20,
           <1>21, <1>22, <1>23, <1>24, Zenon DEF Next

\* settled: a request that was closed or merged when a run starts is not opened again by it,
\* whatever the forge answers, whichever lists fail, and however the run goes, unless newer
\* requests put it past the first page before the run lists its repository.
THEOREM SettledStaysSettledAlways == Spec => []SettledStaysSettled
<1>1. Spec => []SettledKnown
  BY SettledInit, SettledStep, TypeInvariant, PTL DEF Spec
<1>2. SettledKnown => SettledStaysSettled BY DEF SettledKnown, SettledStaysSettled, Running
<1> QED BY <1>1, <1>2, PTL

-----------------------------------------------------------------------------
\* A branch that close_obsolete may close the request of.
Unwanted(b) == b.repo \in run.plan.scanned /\ b \notin Wanted(run.plan)

ClosingKnown ==
    run.pc # "idle" =>
      /\ run.todo \subseteq run.plan.scanned
      /\ \A b \in run.obsolete : Unwanted(b)
      /\ run.pc \in Closing => Unwanted(run.branch)
      /\ \A b \in DOMAIN run.results : run.results[b].outcome = "Closed" => Unwanted(b)

\* What keeps it, once the plan stays.
LEMMA ClosingRun ==
    ASSUME ClosingKnown, run.pc # "idle", run'.plan = run.plan,
           run'.todo \subseteq run.plan.scanned,
           \A b \in run'.obsolete : Unwanted(b),
           run'.pc \in Closing => Unwanted(run'.branch),
           NEW b, NEW outcomes, OnlyAdds(b, outcomes), "Closed" \in outcomes => Unwanted(b)
    PROVE  ClosingKnown'
<1>1. \A c : Unwanted(c)' <=> c.repo \in run.plan.scanned /\ c \notin Wanted(run.plan)
  BY Zenon DEF Unwanted, Wanted
<1>2. \A c : Unwanted(c) <=> c.repo \in run.plan.scanned /\ c \notin Wanted(run.plan)
  BY DEF Unwanted
<1>3. \A c \in DOMAIN run'.results : run'.results[c].outcome = "Closed" => Unwanted(c)
  BY DEF OnlyAdds, ClosingKnown
<1>4. /\ run'.todo \subseteq run'.plan.scanned
      /\ \A c \in run'.obsolete : c.repo \in run.plan.scanned /\ c \notin Wanted(run.plan)
      /\ run'.pc \in Closing => /\ run'.branch.repo \in run.plan.scanned
                                /\ run'.branch \notin Wanted(run.plan)
      /\ \A c \in DOMAIN run'.results : run'.results[c].outcome = "Closed" =>
           c.repo \in run.plan.scanned /\ c \notin Wanted(run.plan)
  BY <1>2, <1>3
<1> QED BY <1>1, <1>4, Zenon DEF ClosingKnown, Closing, Unwanted, Wanted

\* Every step keeps it.
LEMMA ClosingStep ==
    TypeOK /\ Known /\ ClosingKnown /\ [Next]_vars => ClosingKnown'
<1> SUFFICES ASSUME TypeOK, Known, ClosingKnown, [Next]_vars PROVE ClosingKnown'
  OBVIOUS
<1>1. ASSUME run'.pc = "idle" PROVE ClosingKnown' BY <1>1 DEF ClosingKnown
<1>2. run.pc # "idle" =>
        /\ run.todo \subseteq run.plan.scanned
        /\ \A b \in run.obsolete : Unwanted(b)
        /\ run.pc \in Closing => Unwanted(run.branch)
  BY DEF ClosingKnown
<1>3. ASSUME run.pc \in Trying \cup Closing, NEW next \in {"edit", "list"}, Stops(next),
             next = "list" => run.pc \in Closing
      PROVE  ClosingKnown'
  <2>1. PICK outcomes : outcomes = IF next = "edit" THEN {"Verified", "Unverified", "Blocked", "Skipped"}
                        ELSE {"Verified", "Unverified", "Blocked", "Skipped", "Closed"}
    OBVIOUS
  <2>2. Kept(run, run') /\ run'.pc = next /\ OnlyAdds(run.branch, outcomes)
    BY <1>3, <2>1, StopsType
  <2>3. "Closed" \in outcomes => Unwanted(run.branch) BY <1>2, <1>3, <2>1 DEF Closing
  <2>4. run.pc # "idle" /\ run'.pc \notin Closing BY <1>3, <2>2 DEF Trying, Closing
  <2>5. run'.plan = run.plan /\ run'.todo = run.todo /\ run'.obsolete = run.obsolete
    BY <2>2 DEF Kept
  <2> QED BY <1>2, <2>2, <2>3, <2>4, <2>5, ClosingRun
<1>4. ASSUME run.pc # "idle", run'.results = run.results, run'.plan = run.plan,
             run'.todo \subseteq run.plan.scanned, \A b \in run'.obsolete : Unwanted(b),
             run'.pc \in Closing => Unwanted(run'.branch)
      PROVE  ClosingKnown'
  <2>1. OnlyAdds(None, {}) BY <1>4 DEF OnlyAdds
  <2> QED BY <1>4, <2>1, ClosingRun
<1>5. ASSUME NEW pc \in Trying \cup Closing, Goes(pc), run.pc \in Trying \cup Closing,
             pc \in Closing => run.pc \in Closing
      PROVE  ClosingKnown'
  <2>1. Kept(run, run') /\ run'.pc = pc /\ run'.branch = run.branch /\ run'.results = run.results
    BY <1>5, GoesType
  <2>2. run'.plan = run.plan /\ run'.todo = run.todo /\ run'.obsolete = run.obsolete
    BY <2>1 DEF Kept
  <2>3. run.pc # "idle" BY <1>5 DEF Trying, Closing
  <2> QED BY <1>2, <1>4, <1>5, <2>1, <2>2, <2>3
<1>6. CASE Start
  <2>1. /\ run'.pc = "edit" /\ run'.results = Empty /\ run'.todo = {} /\ run'.obsolete = {}
    BY <1>6, StartType
  <2>2. DOMAIN Empty = {} BY DEF Empty
  <2> QED BY <2>1, <2>2 DEF ClosingKnown, Closing
<1>7. CASE Crash BY <1>1, <1>7 DEF Crash, NoRun
<1>8. CASE TakeEdit
  <2>1. run \in RunRecord /\ run.pc = "edit" /\ Running BY <1>8, Where, InRun
  <2>2. PICK b : /\ run'.pc \in {"edit", "base"} /\ run'.plan = run.plan
                 /\ run'.obsolete = run.obsolete /\ run'.todo = run.todo
                 /\ OnlyAdds(b, IF Stopped(b) THEN {"Skipped"} ELSE {"Skipped", "Blocked"})
    BY <1>8, TakeEditFields
  <2>3. "Closed" \notin IF Stopped(b) THEN {"Skipped"} ELSE {"Skipped", "Blocked"} OBVIOUS
  <2> QED BY <1>2, <2>1, <2>2, <2>3, ClosingRun DEF Closing
<1>9. CASE ReadBase
  <2>1. run.pc = "base" BY <1>9, Where
  <2>2. CASE Stops("edit") BY <1>3, <2>1, <2>2 DEF Trying
  <2>3. CASE run'.pc \in {"look", "judge"} /\ run'.results = run.results
    <3>1. Kept(run, run') BY <1>9, ReadBaseType
    <3> QED BY <1>2, <1>4, <2>1, <2>3, <3>1 DEF Kept, Closing
  <2> QED BY <1>9, <2>2, <2>3, ReadBaseType, ReadBaseStops
<1>10. CASE LookUp
  <2>1. run.pc = "look" BY <1>10, Where
  <2>2. CASE Stops("edit") BY <1>3, <2>1, <2>2 DEF Trying
  <2>3. CASE run'.pc \in {"judge", "fetch"} /\ run'.results = run.results
    <3>1. Kept(run, run') BY <1>10, LookUpType
    <3> QED BY <1>2, <1>4, <2>1, <2>3, <3>1 DEF Kept, Closing
  <2> QED BY <1>10, <2>2, <2>3, LookUpType, LookUpStops
<1>11. CASE FetchBranch \/ Judge \/ Build \/ Push \/ OpenRequest
  <2>1. run.pc \in Trying BY <1>11, Where DEF Trying
  <2>2. Stops("edit") \/ \E pc \in Trying : Goes(pc) BY <1>11, TryingCases DEF Trying
  <2>3. CASE Stops("edit") BY <1>3, <2>1, <2>3
  <2>4. CASE \E pc \in Trying : Goes(pc) BY <1>5, <2>1, <2>4 DEF Trying, Closing
  <2> QED BY <2>2, <2>3, <2>4
<1>12. CASE FinishEdits
  <2>1. run.pc = "edit" BY <1>12, Where
  <2>2. CASE run' = NoRun BY <1>1, <2>2 DEF NoRun
  <2>3. CASE /\ run'.pc = "list" /\ run'.todo \subseteq run.plan.scanned
             /\ run'.plan = run.plan
             /\ run'.results = run.results /\ run'.obsolete = run.obsolete
    BY <1>2, <1>4, <2>1, <2>3 DEF Closing
  <2> QED BY <1>12, <2>2, <2>3, FinishEditsType
<1>13. CASE ListObsolete
  <2>1. run.pc = "list" BY <1>13, Where
  <2>2. CASE run' = NoRun BY <1>1, <2>2 DEF NoRun
  <2>3. ASSUME NEW repo \in run.todo, run'.pc = "list", run'.plan = run.plan,
               run'.results = run.results, run'.todo = run.todo \ {repo},
               run'.obsolete \subseteq {b \in Branches : b.repo = repo} \ Wanted(run.plan)
        PROVE  ClosingKnown'
    <3>1. repo \in run.plan.scanned BY <1>2, <2>1
    <3>2. \A b \in run'.obsolete : Unwanted(b) BY <2>3, <3>1 DEF Unwanted
    <3>3. run'.todo \subseteq run.plan.scanned BY <1>2, <2>1, <2>3
    <3> QED BY <1>4, <2>1, <2>3, <3>2, <3>3 DEF Closing
  <2> QED BY <1>13, <2>2, <2>3, ListObsoleteType
<1>14. CASE ReadHead
  <2>1. run.pc = "list" BY <1>14, Where
  <2>2. /\ run'.plan = run.plan /\ run'.todo = run.todo BY <1>14, ReadHeadType
  <2>3. PICK b \in run.obsolete :
          /\ run'.obsolete = run.obsolete \ {b}
          /\ \/ run'.pc = "close" /\ run'.branch = b /\ run'.results = run.results
             \/ /\ run'.pc = "list"
                /\ run'.results[b].outcome = "Blocked"
                /\ DOMAIN run'.results = DOMAIN run.results \cup {b}
                /\ \A c \in DOMAIN run.results \ {b} : run'.results[c] = run.results[c]
    BY <1>14, ReadHeadType
  <2>4. Unwanted(b) /\ \A c \in run'.obsolete : Unwanted(c) BY <1>2, <2>1, <2>3
  <2>5. run'.pc \in Closing => Unwanted(run'.branch) BY <2>3, <2>4 DEF Closing
  <2>6. OnlyAdds(b, {"Blocked"}) BY <2>3 DEF OnlyAdds
  <2> QED BY <1>2, <2>1, <2>2, <2>4, <2>5, <2>6, ClosingRun
<1>15. CASE CloseRequest \/ DeleteBranch
  <2>1. run.pc \in Closing BY <1>15, Where DEF Closing
  <2>2. Stops("list") \/ Goes("delete") BY <1>15, TryingCases
  <2> QED BY <1>3, <1>5, <2>1, <2>2 DEF Closing
<1>16. CASE UNCHANGED run BY <1>16, Zenon DEF ClosingKnown, Unwanted, Wanted, Closing
<1>17. ASSUME NEW b, \/ SomeonePushes(b) \/ SomeoneDeletes(b) \/ SomeoneCloses(b)
                     \/ SomeoneMerges(b) \/ MainMoves(b) \/ RequestBuried(b)
       PROVE  UNCHANGED run
  BY <1>17, Zenon DEF SomeonePushes, SomeoneDeletes, SomeoneCloses, SomeoneMerges, MainMoves,
     RequestBuried, Move, Turn
<1>18. CASE UNCHANGED vars BY <1>16, <1>18 DEF vars
<1> QED BY <1>6, <1>7, <1>8, <1>9, <1>10, <1>11, <1>12, <1>13, <1>14, <1>15, <1>16, <1>17, <1>18,
           Zenon DEF Next

\* close_obsolete: a run closes no request that its plan still wants, blocked or not, and none
\* of a repository that the plan did not scan.
THEOREM ClosesOnlyUnwantedAlways == Spec => []ClosesOnlyUnwanted
<1>1. Init => ClosingKnown
  <2> SUFFICES ASSUME Init PROVE ClosingKnown
    OBVIOUS
  <2>1. run.pc = "idle" BY DEF Init, NoRun
  <2> QED BY <2>1 DEF ClosingKnown
<1>2. Spec => []ClosingKnown
  BY <1>1, ClosingStep, TypeInvariant, PTL DEF Spec
<1>3. ClosingKnown => ClosesOnlyUnwanted
  BY DEF ClosingKnown, ClosesOnlyUnwanted, Unwanted, Wanted, Running
<1> QED BY <1>2, <1>3, PTL

-----------------------------------------------------------------------------
\* What became of the plan's branches so far.
Reached == Wanted(run.plan) \cap DOMAIN run.results
NoneFailed == \A f \in DOMAIN run.results : IsCanary(f) => ~Failed(f)
NoneLeft == \A i \in run.left : ~IsCanary(run.plan.edits[i].branch)
OnlyCanaries == \A b \in Reached : IsCanary(b)

\* The canaries come first; while one of them is tried nothing else has been, and while another
\* edit is tried no canary is to come and none of them failed.
CanaryKnown ==
    run.pc # "idle" =>
      /\ NoneLeft \/ OnlyCanaries
      /\ \A f, b \in Reached :
           IsCanary(f) /\ Failed(f) /\ ~IsCanary(b) => run.results[b].outcome = "Skipped"
      /\ run.pc \in Trying /\ IsCanary(run.branch) => OnlyCanaries
      /\ run.pc \in Trying /\ ~IsCanary(run.branch) => NoneLeft /\ NoneFailed

\* A result that keeps it: one of a branch that the plan does not want, one of a canary before
\* any other branch was reached, one of another branch with the canaries through.
LEMMA CanaryAdds ==
    ASSUME CanaryKnown, run.pc # "idle", run'.pc \notin Trying,
           run'.plan = run.plan, run'.args = run.args, run'.left \subseteq run.left,
           NEW b, NEW outcomes, OnlyAdds(b, outcomes),
           \/ b \notin Wanted(run.plan)
           \/ IsCanary(b) /\ OnlyCanaries
           \/ ~IsCanary(b) /\ NoneLeft /\ (NoneFailed \/ outcomes = {"Skipped"})
    PROVE  CanaryKnown'
<1> DEFINE C(c) == c.repo \in run.args.canary
           W == Wanted(run.plan)
           bad(c) == run.results[c].outcome \in {"Unverified", "Blocked"}
           badNow(c) == run'.results[c].outcome \in {"Unverified", "Blocked"}
<1>1. /\ \A c : IsCanary(c)' <=> C(c)
      /\ \A c : IsCanary(c) <=> C(c)
  BY DEF IsCanary
<1>2. (NoneLeft \/ OnlyCanaries) => NoneLeft \/ \A c \in W \cap DOMAIN run.results : C(c)
  BY <1>1 DEF OnlyCanaries, Reached
<1>3. \A c \in DOMAIN run'.results :
        \/ c \in DOMAIN run.results /\ run'.results[c] = run.results[c]
        \/ c = b /\ run'.results[c].outcome \in outcomes
  BY DEF OnlyAdds
<1>4. NoneLeft => NoneLeft'
  BY <1>1 DEF NoneLeft
<1>5. \A f, c \in W \cap DOMAIN run.results :
        C(f) /\ bad(f) /\ ~C(c) => run.results[c].outcome = "Skipped"
  BY <1>1 DEF CanaryKnown, Reached, Failed
<1>6. ASSUME b \notin W \/ (C(b) /\ \A c \in W \cap DOMAIN run.results : C(c)) \/ NoneLeft
      PROVE  NoneLeft' \/ OnlyCanaries'
  <2>1. CASE NoneLeft BY <1>4, <2>1
  <2>2. CASE ~NoneLeft
    <3>1. \A c \in W \cap DOMAIN run.results : C(c) BY <1>2, <2>2 DEF CanaryKnown
    <3>2. \A c \in W \cap DOMAIN run'.results : C(c) BY <1>3, <1>6, <2>2, <3>1
    <3> QED BY <1>1, <3>2 DEF OnlyCanaries, Reached
  <2> QED BY <2>1, <2>2
<1>7. \A f, c \in W \cap DOMAIN run'.results :
        C(f) /\ badNow(f) /\ ~C(c) => run'.results[c].outcome = "Skipped"
  <2>1. CASE b \notin W BY <1>3, <1>5, <2>1
  <2>2. CASE IsCanary(b) /\ OnlyCanaries
    <3>1. C(b) /\ \A c \in W \cap DOMAIN run.results : C(c)
      BY <1>1, <2>2 DEF OnlyCanaries, Reached
    <3> QED BY <1>3, <3>1
  <2>3. CASE ~IsCanary(b) /\ NoneFailed
    <3>1. ~C(b) /\ \A f \in DOMAIN run.results : C(f) => ~bad(f)
      BY <1>1, <2>3 DEF NoneFailed, Failed
    <3> QED BY <1>3, <3>1
  <2>4. CASE ~IsCanary(b) /\ outcomes = {"Skipped"}
    <3>1. ~C(b) BY <1>1, <2>4
    <3> QED BY <1>3, <1>5, <2>4, <3>1
  <2> QED BY <2>1, <2>2, <2>3, <2>4
<1>8. NoneLeft' \/ OnlyCanaries'
  <2>1. OnlyCanaries => \A c \in W \cap DOMAIN run.results : C(c)
    BY <1>1 DEF OnlyCanaries, Reached
  <2> QED BY <1>1, <1>6, <2>1
<1>9. \A f, c \in Reached' :
        IsCanary(f)' /\ Failed(f)' /\ ~IsCanary(c)' => run'.results[c].outcome = "Skipped"
  BY <1>1, <1>7 DEF Reached, Failed
<1> QED BY <1>8, <1>9 DEF CanaryKnown, Trying

\* A step that adds no result keeps it.
LEMMA CanaryStays ==
    ASSUME CanaryKnown, run.pc # "idle", run'.results = run.results,
           run'.plan = run.plan, run'.args = run.args, run'.left \subseteq run.left,
           run'.pc \in Trying =>
             /\ IsCanary(run'.branch) => OnlyCanaries
             /\ ~IsCanary(run'.branch) => NoneLeft /\ NoneFailed
    PROVE  CanaryKnown'
<1>1. \A c : IsCanary(c)' <=> IsCanary(c) BY DEF IsCanary
<1>2. NoneLeft => NoneLeft' BY <1>1 DEF NoneLeft
<1>3. Reached' = Reached BY Zenon DEF Reached, Wanted
<1>4. \A c : Failed(c)' <=> Failed(c) BY Zenon DEF Failed
<1>5. OnlyCanaries' <=> OnlyCanaries BY <1>1, <1>3, Zenon DEF OnlyCanaries
<1>6. NoneFailed => NoneFailed' BY <1>1, <1>4, Zenon DEF NoneFailed
<1>7. NoneLeft' \/ OnlyCanaries' BY <1>2, <1>5 DEF CanaryKnown
<1>8. \A f, b \in Reached' :
        IsCanary(f)' /\ Failed(f)' /\ ~IsCanary(b)' => run'.results[b].outcome = "Skipped"
  BY <1>1, <1>3, <1>4, Zenon DEF CanaryKnown
<1>9. run'.pc \in Trying =>
        /\ IsCanary(run.branch)' => OnlyCanaries'
        /\ ~IsCanary(run.branch)' => NoneLeft' /\ NoneFailed'
  <2>1. IsCanary(run.branch)' <=> IsCanary(run'.branch) BY DEF IsCanary
  <2> QED BY <1>2, <1>5, <1>6, <2>1
<1> QED BY <1>7, <1>8, <1>9 DEF CanaryKnown, Trying

\* Every step keeps it.
LEMMA CanaryStep ==
    TypeOK /\ Known /\ ClosingKnown /\ CanaryKnown /\ [Next]_vars => CanaryKnown'
<1> SUFFICES ASSUME TypeOK, Known, ClosingKnown, CanaryKnown, [Next]_vars PROVE CanaryKnown'
  OBVIOUS
<1>1. ASSUME run'.pc = "idle" PROVE CanaryKnown' BY <1>1 DEF CanaryKnown
<1>2. ASSUME run.pc \in Trying, Stops("edit") PROVE CanaryKnown'
  <2>1. PICK outcomes : Kept(run, run') /\ run'.pc = "edit" /\ OnlyAdds(run.branch, outcomes)
    BY <1>2, StopsType
  <2>2. \/ IsCanary(run.branch) /\ OnlyCanaries
        \/ ~IsCanary(run.branch) /\ NoneLeft /\ NoneFailed
    BY <1>2 DEF CanaryKnown, Trying
  <2>3. run'.plan = run.plan /\ run'.args = run.args /\ run'.left = run.left
    BY <2>1 DEF Kept
  <2>4. run.pc # "idle" /\ run'.pc \notin Trying BY <1>2, <2>1 DEF Trying
  <2> QED BY <2>1, <2>2, <2>3, <2>4, CanaryAdds
<1>3. ASSUME run.pc \in Closing, Stops("list") PROVE CanaryKnown'
  <2>1. PICK outcomes : Kept(run, run') /\ run'.pc = "list" /\ OnlyAdds(run.branch, outcomes)
    BY <1>3, StopsType
  <2>2. run.branch \notin Wanted(run.plan) BY <1>3 DEF ClosingKnown, Unwanted, Closing
  <2>3. run'.plan = run.plan /\ run'.args = run.args /\ run'.left = run.left
    BY <2>1 DEF Kept
  <2>4. run.pc # "idle" /\ run'.pc \notin Trying BY <1>3, <2>1 DEF Trying, Closing
  <2> QED BY <2>1, <2>2, <2>3, <2>4, CanaryAdds
<1>4. ASSUME run.pc \in Trying \cup Closing, run'.results = run.results, Kept(run, run'),
             run'.pc \in Trying => run.pc \in Trying /\ run'.branch = run.branch
      PROVE  CanaryKnown'
  <2>1. run'.plan = run.plan /\ run'.args = run.args /\ run'.left = run.left
    BY <1>4 DEF Kept
  <2>2. run.pc \in Trying =>
          /\ IsCanary(run.branch) => OnlyCanaries
          /\ ~IsCanary(run.branch) => NoneLeft /\ NoneFailed
    BY DEF CanaryKnown, Trying
  <2>3. run.pc # "idle" BY <1>4 DEF Trying, Closing
  <2> QED BY <1>4, <2>1, <2>2, <2>3, CanaryStays
<1>5. CASE Start
  <2>1. run'.pc = "edit" /\ run'.results = Empty BY <1>5, StartType
  <2>2. DOMAIN Empty = {} BY DEF Empty
  <2>3. Reached' = {} BY <2>1, <2>2 DEF Reached
  <2> QED BY <2>1, <2>3 DEF CanaryKnown, OnlyCanaries, Trying
<1>6. CASE Crash BY <1>1, <1>6 DEF Crash, NoRun
<1>7. CASE TakeEdit
  <2>1. run \in RunRecord /\ run.pc = "edit" BY <1>7, Where, InRun
  <2>2. PICK i \in run.left, b \in Branches :
             /\ i \in DOMAIN run.plan.edits /\ b = run.plan.edits[i].branch
             /\ \A j \in run.left \ {i} : Ordered(i, j)
             /\ run' \in RunRecord /\ run'.pc \in {"edit", "base"}
             /\ run'.plan = run.plan /\ run'.args = run.args /\ run'.left = run.left \ {i}
             /\ run'.obsolete = run.obsolete /\ run'.todo = run.todo
             /\ run'.pc = "base" => run'.branch = b /\ run'.results = run.results /\ ~Stopped(b)
             /\ OnlyAdds(b, IF Stopped(b) THEN {"Skipped"} ELSE {"Skipped", "Blocked"})
    BY <1>7, TakeEditFields, Zenon
  <2>3. IsCanary(b) => OnlyCanaries BY <2>1, <2>2 DEF CanaryKnown, NoneLeft
  <2>4. ~IsCanary(b) => NoneLeft BY <2>2 DEF NoneLeft, Ordered, IsCanary
  <2>5. ~IsCanary(b) /\ ~Stopped(b) => NoneFailed
    BY Zenon DEF Stopped, NoneFailed, Failures
  <2>6. CASE run'.pc = "base"
    <3>1. run'.left \subseteq run.left BY <2>2
    <3>2. run.pc # "idle" BY <2>1
    <3> QED BY <2>2, <2>3, <2>4, <2>5, <2>6, <3>1, <3>2, CanaryStays
  <2>7. CASE run'.pc = "edit"
    <3>1. PICK outcomes : /\ outcomes = IF Stopped(b) THEN {"Skipped"} ELSE {"Skipped", "Blocked"}
                          /\ OnlyAdds(b, outcomes)
      BY <2>2
    <3>2. \/ IsCanary(b) /\ OnlyCanaries
          \/ ~IsCanary(b) /\ NoneLeft /\ (NoneFailed \/ outcomes = {"Skipped"})
      BY <2>3, <2>4, <2>5, <3>1
    <3>3. run'.pc \notin Trying /\ run'.left \subseteq run.left /\ run.pc # "idle"
      BY <2>1, <2>2, <2>7 DEF Trying
    <3> QED BY <2>2, <3>1, <3>2, <3>3, CanaryAdds
  <2> QED BY <2>2, <2>6, <2>7
<1>8. CASE ReadBase
  <2>1. run.pc \in Trying BY <1>8, Where DEF Trying
  <2>2. CASE Stops("edit") BY <1>2, <2>1, <2>2
  <2>3. CASE run'.pc \in {"look", "judge"} /\ run'.results = run.results
    <3>1. Kept(run, run') /\ run'.branch = run.branch BY <1>8, <2>3, ReadBaseType
    <3> QED BY <1>4, <2>1, <2>3, <3>1
  <2> QED BY <1>8, <2>2, <2>3, ReadBaseStops
<1>9. CASE LookUp
  <2>1. run.pc \in Trying BY <1>9, Where DEF Trying
  <2>2. CASE Stops("edit") BY <1>2, <2>1, <2>2
  <2>3. CASE run'.pc \in {"judge", "fetch"} /\ run'.results = run.results
    <3>1. Kept(run, run') /\ run'.branch = run.branch BY <1>9, <2>3, LookUpType
    <3> QED BY <1>4, <2>1, <2>3, <3>1
  <2> QED BY <1>9, <2>2, <2>3, LookUpStops
<1>10. ASSUME NEW pc \in Trying \cup Closing, Goes(pc), run.pc \in Trying \cup Closing,
              pc \in Trying => run.pc \in Trying
       PROVE  CanaryKnown'
  <2>1. Kept(run, run') /\ run'.pc = pc /\ run'.branch = run.branch /\ run'.results = run.results
    BY <1>10, GoesType
  <2> QED BY <1>4, <1>10, <2>1
<1>11. CASE FetchBranch \/ Judge \/ Build \/ Push \/ OpenRequest
  <2>1. run.pc \in Trying BY <1>11, Where DEF Trying
  <2>2. Stops("edit") \/ \E pc \in Trying : Goes(pc) BY <1>11, TryingCases DEF Trying
  <2> QED BY <1>2, <1>10, <2>1, <2>2
<1>12. CASE FinishEdits
  <2>1. run.pc # "idle" BY <1>12, Where
  <2>2. CASE run' = NoRun BY <1>1, <2>2 DEF NoRun
  <2>3. CASE /\ run'.pc = "list" /\ run'.plan = run.plan /\ run'.args = run.args
             /\ run'.results = run.results /\ run'.left = {}
    BY <2>1, <2>3, CanaryStays DEF Trying
  <2> QED BY <1>12, <2>2, <2>3, FinishEditsType
<1>13. CASE ListObsolete
  <2>1. run.pc # "idle" BY <1>13, Where
  <2>2. CASE run' = NoRun BY <1>1, <2>2 DEF NoRun
  <2>3. CASE /\ run'.pc = "list" /\ run'.plan = run.plan /\ run'.args = run.args
             /\ run'.results = run.results /\ run'.left = run.left
    BY <2>1, <2>3, CanaryStays DEF Trying
  <2> QED BY <1>13, <2>2, <2>3, ListObsoleteType
<1>14. CASE ReadHead
  <2>1. run.pc = "list" BY <1>14, Where
  <2>2. run'.plan = run.plan /\ run'.args = run.args /\ run'.left = run.left
    BY <1>14, ReadHeadType
  <2>3. PICK b \in run.obsolete :
          \/ run'.pc = "close" /\ run'.branch = b /\ run'.results = run.results
          \/ /\ run'.pc = "list"
             /\ run'.results[b].outcome = "Blocked"
             /\ DOMAIN run'.results = DOMAIN run.results \cup {b}
             /\ \A c \in DOMAIN run.results \ {b} : run'.results[c] = run.results[c]
    BY <1>14, ReadHeadType
  <2>4. b \notin Wanted(run.plan) BY <2>1 DEF ClosingKnown, Unwanted
  <2>5. OnlyAdds(b, {"Blocked"}) BY <2>3 DEF OnlyAdds
  <2>6. run'.pc \notin Trying BY <2>3 DEF Trying
  <2> QED BY <2>1, <2>2, <2>4, <2>5, <2>6, CanaryAdds
<1>15. CASE CloseRequest \/ DeleteBranch
  <2>1. run.pc \in Closing BY <1>15, Where DEF Closing
  <2>2. Stops("list") \/ Goes("delete") BY <1>15, TryingCases
  <2> QED BY <1>3, <1>10, <2>1, <2>2 DEF Closing, Trying
<1>16. CASE UNCHANGED run
  <2>1. CASE run.pc = "idle" BY <1>1, <1>16, <2>1
  <2>2. CASE run.pc # "idle" BY <1>16, <2>2, CanaryStays DEF CanaryKnown
  <2> QED BY <2>1, <2>2
<1>17. ASSUME NEW b, \/ SomeonePushes(b) \/ SomeoneDeletes(b) \/ SomeoneCloses(b)
                     \/ SomeoneMerges(b) \/ MainMoves(b) \/ RequestBuried(b)
       PROVE  UNCHANGED run
  BY <1>17, Zenon DEF SomeonePushes, SomeoneDeletes, SomeoneCloses, SomeoneMerges, MainMoves,
     RequestBuried, Move, Turn
<1>18. CASE UNCHANGED vars BY <1>16, <1>18 DEF vars
<1> QED BY <1>5, <1>6, <1>7, <1>8, <1>9, <1>11, <1>12, <1>13, <1>14, <1>15, <1>16, <1>17, <1>18,
           Zenon DEF Next

\* --canary: once an edit of a canary failed, no edit of another repository is tried, whatever
\* the plan's order and whichever edits are blocked, left out or stopped.
THEOREM CanaryFailureStopsAlways == Spec => []CanaryFailureStops
<1>1. Init => ClosingKnown /\ CanaryKnown
  <2> SUFFICES ASSUME Init PROVE ClosingKnown /\ CanaryKnown
    OBVIOUS
  <2>1. run.pc = "idle" BY DEF Init, NoRun
  <2> QED BY <2>1 DEF ClosingKnown, CanaryKnown
<1>2. Spec => [](ClosingKnown /\ CanaryKnown)
  BY <1>1, ClosingStep, CanaryStep, TypeInvariant, PTL DEF Spec
<1>3. CanaryKnown => CanaryFailureStops
  BY DEF CanaryKnown, CanaryFailureStops, Reached, Running
<1> QED BY <1>2, <1>3, PTL

-----------------------------------------------------------------------------
\* A run that opens requests up to a limit, and what it opened without having seen it open.
Limited == run.args.openPr /\ run.args.maxPrs # NoLimit
Unasked == {b \in Opened : ListedAs(b) # "OPEN"}

\* What is opened was listed, at most the limit of it was not open yet, and while a branch whose
\* request is not open yet is tried there is room for one more.
LimitKnown ==
    run.pc # "idle" =>
      /\ IsFiniteSet(DOMAIN run.results)
      /\ Limited =>
           /\ \A b \in Opened : b.repo \in DOMAIN run.listed
           /\ Cardinality(Unasked) <= run.args.maxPrs
           /\ run.pc \in Trying =>
                /\ run.branch.repo \in DOMAIN run.listed
                /\ ListedAs(run.branch) # "OPEN" => Cardinality(Opened) < run.args.maxPrs

\* Later lists say what the earlier ones said.
ListsKept(listed) ==
    \A repo \in DOMAIN run.listed : repo \in DOMAIN listed /\ listed[repo] = run.listed[repo]
\* At most one branch has a new result, and no more requests were opened.
OpensNone ==
    /\ \E x : DOMAIN run'.results \subseteq DOMAIN run.results \cup {x}
    /\ Opened' \subseteq Opened

\* A repository is listed once a run.
LEMMA PutKeeps ==
    ASSUME NEW repo, NEW answer \in Answers(repo)
    PROVE  ListsKept(Put(run.listed, repo, answer))
BY DEF Answers, ListsKept, Put

\* A result that says nothing was opened.
LEMMA DoneOpensNone ==
    ASSUME NEW r \in RunRecord, r.branch \in Branches, r.results = run.results,
           NEW next \in {"edit", "list"},
           NEW outcome \in {"Verified", "Unverified", "Blocked", "Skipped", "Closed"},
           run' = Done(r, next, outcome, FALSE)
    PROVE  OpensNone
<1>1. [outcome |-> outcome, opened |-> FALSE] \in Result
  BY DEF Result
<1>2. Adds(r, run', outcome, FALSE)
  BY <1>1, DoneFields, Zenon
<1>3. /\ DOMAIN run'.results = DOMAIN run.results \cup {r.branch}
      /\ run'.results[r.branch].opened = FALSE
      /\ \A b \in DOMAIN run.results \ {r.branch} : run'.results[b] = run.results[b]
  <2> DEFINE new == [outcome |-> outcome, opened |-> FALSE]
  <2>1. run'.results[r.branch] = new
    BY <1>2, Zenon DEF Adds
  <2>2. new.opened = FALSE
    OBVIOUS
  <2>3. run'.results[r.branch].opened = FALSE
    BY <2>1, <2>2, Zenon
  <2> QED  BY <1>2, <2>3, Zenon DEF Adds
<1>4. Opened' \subseteq Opened
  BY <1>3 DEF Opened
<1> QED  BY <1>3, <1>4 DEF OpensNone

LEMMA SameOpensNone ==
    ASSUME run'.results = run.results
    PROVE  OpensNone
BY DEF OpensNone, Opened

\* What the counts of a run are, as long as its results are finitely many.
LEMMA OpenedCounts ==
    ASSUME IsFiniteSet(DOMAIN run.results)
    PROVE  /\ IsFiniteSet(Opened) /\ Cardinality(Opened) \in Nat
           /\ IsFiniteSet(Unasked) /\ Cardinality(Unasked) \in Nat
           /\ Cardinality(Unasked) <= Cardinality(Opened)
<1>1. Opened \in SUBSET DOMAIN run.results /\ Unasked \in SUBSET Opened
  BY DEF Opened, Unasked
<1>2. IsFiniteSet(Opened)
  BY <1>1, FS_Subset
<1>3. IsFiniteSet(Unasked) /\ Cardinality(Unasked) <= Cardinality(Opened)
  BY <1>1, <1>2, FS_Subset
<1> QED  BY <1>2, <1>3, FS_CardinalityType

\* A step that opens nothing keeps the limit if what it goes on to try has room.
LEMMA LimitQuiet ==
    ASSUME LimitKnown, run.pc # "idle", run' \in RunRecord, OpensNone, run'.args = run.args,
           ListsKept(run'.listed),
           Limited /\ run'.pc \in Trying =>
             /\ run'.branch.repo \in DOMAIN run'.listed
             /\ run'.listed[run'.branch.repo][run'.branch] # "OPEN" =>
                  Cardinality(Opened) < run.args.maxPrs
    PROVE  LimitKnown'
<1>1. IsFiniteSet(DOMAIN run.results)
  BY DEF LimitKnown
<1>2. PICK x : DOMAIN run'.results \subseteq DOMAIN run.results \cup {x}
  BY DEF OpensNone
<1>3. IsFiniteSet(DOMAIN run'.results)
  <2>1. IsFiniteSet(DOMAIN run.results \cup {x})
    BY <1>1, FS_AddElement
  <2> QED  BY <1>2, <2>1, FS_Subset
<1>4. ASSUME Limited
      PROVE  /\ \A b \in Opened' : b.repo \in DOMAIN run'.listed
             /\ Cardinality(Unasked') <= run'.args.maxPrs
             /\ run'.pc \in Trying =>
                  /\ run'.branch.repo \in DOMAIN run'.listed
                  /\ run'.listed[run'.branch.repo][run'.branch] # "OPEN" =>
                       Cardinality(Opened') < run'.args.maxPrs
  <2>1. /\ \A b \in Opened : b.repo \in DOMAIN run.listed
        /\ Cardinality(Unasked) <= run.args.maxPrs
    BY <1>4 DEF LimitKnown
  <2>2. Opened' \subseteq Opened
    BY DEF OpensNone
  <2>3. \A b \in Opened' : b.repo \in DOMAIN run'.listed /\ run'.listed[b.repo] = run.listed[b.repo]
    BY <2>1, <2>2 DEF ListsKept
  <2>4. Unasked' \in SUBSET Unasked
    BY <2>2, <2>3 DEF Unasked, ListedAs
  <2>5. run.args.maxPrs \in Nat
    <3>1. run'.args \in Args
      BY FixApplyAssumption DEF RunRecord
    <3> QED  BY <1>4, <3>1 DEF Args, Limited
  <2>6. IsFiniteSet(Unasked) /\ IsFiniteSet(Opened) /\ Cardinality(Opened) \in Nat
        /\ Cardinality(Unasked) \in Nat
    BY <1>1, OpenedCounts
  <2>7. Cardinality(Unasked') <= Cardinality(Unasked) /\ IsFiniteSet(Unasked')
    BY <2>4, <2>6, FS_Subset
  <2>8. Cardinality(Opened') <= Cardinality(Opened) /\ IsFiniteSet(Opened')
    BY <2>2, <2>6, FS_Subset
  <2>9. Cardinality(Unasked') \in Nat /\ Cardinality(Opened') \in Nat
    BY <2>7, <2>8, FS_CardinalityType
  <2>10. Cardinality(Unasked') <= run'.args.maxPrs
    BY <2>1, <2>5, <2>6, <2>7, <2>9
  <2>11. ASSUME Cardinality(Opened) < run.args.maxPrs PROVE Cardinality(Opened') < run'.args.maxPrs
    BY <2>5, <2>6, <2>8, <2>9, <2>11
  <2> QED  BY <1>4, <2>3, <2>10, <2>11
<1>5. Limited' <=> Limited
  BY DEF Limited
<1>6. ListedAs(run.branch)' = run'.listed[run'.branch.repo][run'.branch]
  BY DEF ListedAs
<1> QED  BY <1>3, <1>4, <1>5, <1>6 DEF LimitKnown

\* The edit that TakeEdit takes opens nothing, and is tried only where there is room.
LEMMA TakeEditLimit ==
    ASSUME TypeOK, Known, LimitKnown, TakeEdit
    PROVE  LimitKnown'
<1>1. run \in RunRecord /\ run.pc = "edit" /\ Running BY Where, InRun
<1>2. PICK i \in run.left : \E listed \in ListsAfter(run.plan.edits[i].branch) :
        Took(i, run.plan.edits[i].branch, listed)
  BY TakeEditCases, Zenon DEF ListsAfter
<1>3. i \in DOMAIN run.plan.edits BY <1>1 DEF Known
<1>4. PICK b \in Branches : b = run.plan.edits[i].branch BY <1>1, <1>3, EditBranch
<1>5. PICK listed \in ListsAfter(b) : Took(i, b, listed) BY <1>2, <1>4
<1>6. listed \in UNION {[D -> [Branches -> States]] : D \in SUBSET Repos}
  BY <1>1, ListsType, Zenon
<1>7. /\ run' \in RunRecord /\ run'.pc \in {"edit", "base"} /\ run'.args = run.args
      /\ run'.listed = listed
      /\ run'.pc = "base" => run'.branch = b /\ run'.results = run.results
  BY <1>1, <1>3, <1>4, <1>5, <1>6, TookFields, Zenon
<1>8. PICK t : t = Taken(i, listed) OBVIOUS
<1>9. /\ t \in RunRecord /\ t.branch = b /\ t.pc = "edit" /\ t.results = run.results
  BY <1>1, <1>3, <1>4, <1>6, <1>8, TakenFields
<1>10. ASSUME NEW outcome \in {"Skipped", "Blocked"}, run' = Done(t, "edit", outcome, FALSE)
       PROVE  OpensNone /\ run'.pc = "edit"
  <2>1. [outcome |-> outcome, opened |-> FALSE] \in Result BY DEF Result
  <2>2. t.branch \in Branches BY <1>9
  <2>3. run'.pc = "edit" BY <1>9, <1>10, <2>1, <2>2, DoneFields, Zenon
  <2>4. OpensNone BY <1>9, <1>10, <2>2, DoneOpensNone
  <2> QED BY <2>3, <2>4
<1>11. ASSUME run' = [t EXCEPT !.branch = None]
       PROVE  OpensNone /\ run'.pc = "edit"
  <2>1. run'.results = run.results /\ run'.pc = "edit" BY <1>9, <1>11 DEF RunRecord
  <2> QED BY <2>1, SameOpensNone
<1>12. ASSUME Try(t), ~Stopped(b),
              run.args.openPr => \E answer \in Answers(b.repo) :
                                   /\ listed = Put(run.listed, b.repo, answer)
                                   /\ answer[b] # "unknown"
                                   /\ ~Settled(answer[b])
                                   /\ ~OverMaxPrs(answer[b])
       PROVE  /\ OpensNone
              /\ Limited => /\ b.repo \in DOMAIN listed
                            /\ listed[b.repo][b] # "OPEN" => Cardinality(Opened) < run.args.maxPrs
  <2>1. run'.pc = "base" /\ run'.results = run.results
    BY <1>9, <1>12 DEF RunRecord, Try
  <2>2. ASSUME Limited, NEW answer \in Answers(b.repo),
               listed = Put(run.listed, b.repo, answer), ~OverMaxPrs(answer[b])
        PROVE  /\ b.repo \in DOMAIN listed
               /\ listed[b.repo][b] # "OPEN" => Cardinality(Opened) < run.args.maxPrs
    <3>1. b.repo \in DOMAIN listed /\ listed[b.repo] = answer
      BY <2>2 DEF Put
    <3>2. run.args.maxPrs \in Nat
      <4>1. run.args \in Args BY <1>1, FixApplyAssumption DEF RunRecord
      <4> QED BY <2>2, <4>1 DEF Limited, Args
    <3>3. Cardinality(Opened) \in Nat
      BY <1>1, OpenedCounts DEF LimitKnown
    <3>4. answer[b] # "OPEN" => ~(Cardinality(Opened) >= run.args.maxPrs)
      BY <2>2 DEF OverMaxPrs, Limited
    <3> QED BY <3>1, <3>2, <3>3, <3>4
  <2> QED BY <1>12, <2>1, <2>2, SameOpensNone, Zenon DEF Limited
<1>13. \/ OpensNone /\ run'.pc = "edit"
       \/ /\ OpensNone
          /\ Limited => /\ b.repo \in DOMAIN listed
                        /\ listed[b.repo][b] # "OPEN" => Cardinality(Opened) < run.args.maxPrs
  <2> HIDE DEF Limited
  <2> QED BY <1>5, <1>8, <1>10, <1>11, <1>12, Zenon DEF Took
<1>14. ListsKept(listed)
  BY <1>5, PutKeeps DEF ListsAfter, ListsKept
<1> QED BY <1>1, <1>7, <1>13, <1>14, LimitQuiet DEF Trying

\* Where the branch under way goes when a call of its edit fails, or a request is not opened.
Ends(next) ==
    \E outcome \in {"Verified", "Unverified", "Blocked", "Skipped", "Closed"} :
      run' = Done(run, next, outcome, FALSE)

\* Every call but the one that opens a request ends without one or goes on with its branch.
LEMMA CallCases ==
    /\ FetchBranch => Ends("edit") \/ Goes("judge")
    /\ Judge => Ends("edit") \/ Goes("push") \/ Goes("build")
    /\ Build => Ends("edit") \/ Goes("push")
    /\ Push => Ends("edit") \/ Goes("request")
    /\ CloseRequest => Ends("list") \/ Goes("delete")
    /\ DeleteBranch => Ends("list")
<1> USE DEF Ends, Goes
<1>1. FetchBranch => Ends("edit") \/ Goes("judge") BY Zenon DEF FetchBranch, Fail
<1>2. Judge => Ends("edit") \/ Goes("push") \/ Goes("build")
  BY Zenon DEF Judge, Fail, Verified
<1>3. Build => Ends("edit") \/ Goes("push") BY Zenon DEF Build, Fail, Verified
<1>4. Push => Ends("edit") \/ Goes("request") BY Zenon DEF Push
<1>5. CloseRequest => Ends("list") \/ Goes("delete") BY Zenon DEF CloseRequest
<1>6. DeleteBranch => Ends("list") BY Zenon DEF DeleteBranch
<1> QED BY <1>1, <1>2, <1>3, <1>4, <1>5, <1>6

\* The looks at the base and at the branch do the same.
LEMMA LookCases ==
    ASSUME TypeOK, Known, ReadBase \/ LookUp
    PROVE  \/ Ends("edit")
           \/ run'.pc \in {"look", "judge", "fetch"} /\ run'.results = run.results
<1>1. run \in RunRecord BY Where, InRun
<1>2. CASE Fail("Blocked") BY <1>2, Zenon DEF Fail, Ends
<1>3. CASE \E base : run' = [run EXCEPT !.pc = IF Publishing THEN "look" ELSE "judge",
                                       !.base = base]
  BY <1>1, <1>3 DEF RunRecord
<1>4. CASE \E sha : run' = [run EXCEPT !.pc = IF sha = None THEN "judge" ELSE "fetch",
                                      !.sha = sha]
  BY <1>1, <1>4 DEF RunRecord
<1> QED BY <1>2, <1>3, <1>4, Zenon DEF ReadBase, LookUp

\* A request that is opened is one that was not open when its repository was listed, for which
\* there was room, or one that was.
LEMMA OpenRequestLimit ==
    ASSUME TypeOK, Known, LimitKnown, OpenRequest
    PROVE  LimitKnown'
<1>1. /\ run \in RunRecord /\ run.pc = "request" /\ run.pc \in Trying /\ run.pc # "idle"
      /\ Stops("edit")
  BY Where, InRun, TryingCases DEF Trying
<1>2. /\ run' \in RunRecord /\ run'.pc = "edit" /\ Kept(run, run')
  BY <1>1, StopsType
<1>3. PICK outcomes : OnlyAdds(run.branch, outcomes)
  BY <1>1, StopsType
<1> DEFINE b == run.branch
<1>4. run'.args = run.args /\ run'.listed = run.listed
  BY <1>2 DEF Kept
<1>5. Opened' \subseteq Opened \cup {b} /\ DOMAIN run'.results \subseteq DOMAIN run.results \cup {b}
  BY <1>3 DEF OnlyAdds, Opened
<1>6. IsFiniteSet(DOMAIN run.results)
  BY <1>1 DEF LimitKnown
<1>7. IsFiniteSet(DOMAIN run'.results)
  <2>1. IsFiniteSet(DOMAIN run.results \cup {b})
    BY <1>6, FS_AddElement
  <2> QED BY <1>5, <2>1, FS_Subset
<1>8. ASSUME Limited
      PROVE  /\ \A c \in Opened' : c.repo \in DOMAIN run'.listed
             /\ Cardinality(Unasked') <= run'.args.maxPrs
  <2>1. /\ \A c \in Opened : c.repo \in DOMAIN run.listed
        /\ Cardinality(Unasked) <= run.args.maxPrs
        /\ b.repo \in DOMAIN run.listed
        /\ ListedAs(b) # "OPEN" => Cardinality(Opened) < run.args.maxPrs
    BY <1>1, <1>8 DEF LimitKnown
  <2>2. \A c : ListedAs(c)' = ListedAs(c)
    BY <1>4 DEF ListedAs
  <2>3. Unasked' \subseteq {c \in Opened \cup {b} : ListedAs(c) # "OPEN"}
    BY <1>5, <2>2 DEF Unasked
  <2>4. run.args.maxPrs \in Nat
    <3>1. run.args \in Args BY <1>1, FixApplyAssumption DEF RunRecord
    <3> QED BY <1>8, <3>1 DEF Limited, Args
  <2>5. /\ IsFiniteSet(Opened) /\ Cardinality(Opened) \in Nat
        /\ IsFiniteSet(Unasked) /\ Cardinality(Unasked) \in Nat
        /\ Cardinality(Unasked) <= Cardinality(Opened)
    BY <1>6, OpenedCounts
  <2> HIDE DEF b
  <2>6. CASE ListedAs(b) = "OPEN"
    <3>1. Unasked' \in SUBSET Unasked
      BY <2>3, <2>6 DEF Unasked
    <3>2. Cardinality(Unasked') <= Cardinality(Unasked) /\ Cardinality(Unasked') \in Nat
      BY <2>5, <3>1, FS_Subset, FS_CardinalityType
    <3>3. Cardinality(Unasked') <= run'.args.maxPrs
      BY <1>4, <2>1, <2>4, <2>5, <3>2
    <3> QED BY <1>4, <1>5, <2>1, <3>3
  <2>7. CASE ListedAs(b) # "OPEN"
    <3>1. Unasked' \in SUBSET (Unasked \cup {b})
      BY <2>3 DEF Unasked
    <3>2. IsFiniteSet(Unasked \cup {b}) /\ Cardinality(Unasked \cup {b}) <= Cardinality(Unasked) + 1
          /\ Cardinality(Unasked \cup {b}) \in Nat
      <4>1. /\ IsFiniteSet(Unasked \cup {b})
            /\ Cardinality(Unasked \cup {b}) =
                 IF b \in Unasked THEN Cardinality(Unasked) ELSE Cardinality(Unasked) + 1
        BY <2>5, FS_AddElement
      <4> QED BY <2>5, <4>1
    <3>3. Cardinality(Unasked') <= Cardinality(Unasked \cup {b}) /\ Cardinality(Unasked') \in Nat
      BY <3>1, <3>2, FS_Subset, FS_CardinalityType
    <3>4. Cardinality(Unasked') <= run'.args.maxPrs
      BY <1>4, <2>1, <2>4, <2>5, <2>7, <3>2, <3>3
    <3> QED BY <1>4, <1>5, <2>1, <3>4
  <2> QED BY <2>6, <2>7
<1>9. Limited' <=> Limited
  BY <1>4 DEF Limited
<1> QED BY <1>2, <1>7, <1>8, <1>9 DEF LimitKnown, Trying

LEMMA LimitStep ==
    TypeOK /\ Known /\ LimitKnown /\ [Next]_vars => LimitKnown'
<1> SUFFICES ASSUME TypeOK, Known, LimitKnown, [Next]_vars PROVE LimitKnown'
  OBVIOUS
<1>1. ASSUME run'.pc = "idle" PROVE LimitKnown' BY <1>1 DEF LimitKnown
<1>2. ASSUME run.pc \in Trying \cup Closing, NEW next \in {"edit", "list"}, Ends(next)
      PROVE  LimitKnown'
  <2>1. PICK outcome \in {"Verified", "Unverified", "Blocked", "Skipped", "Closed"} :
          run' = Done(run, next, outcome, FALSE)
    BY <1>2 DEF Ends
  <2>2. run \in RunRecord /\ run.branch \in Branches /\ run.pc # "idle"
    BY <1>2, InRun DEF Known, Trying, Closing
  <2>3. [outcome |-> outcome, opened |-> FALSE] \in Result
    BY DEF Result
  <2>4. run' \in RunRecord /\ run'.pc = next /\ Kept(run, run')
    BY <2>1, <2>2, <2>3, DoneFields, Zenon
  <2>5. OpensNone
    BY <2>1, <2>2, DoneOpensNone
  <2>6. run'.args = run.args /\ ListsKept(run'.listed) /\ run'.pc \notin Trying
    BY <1>2, <2>4 DEF Kept, ListsKept, Trying
  <2> QED BY <2>2, <2>4, <2>5, <2>6, LimitQuiet
<1>3. ASSUME run.pc \in Trying \cup Closing, run' \in RunRecord, run'.results = run.results,
             Kept(run, run'),
             run'.pc \in Trying => run.pc \in Trying /\ run'.branch = run.branch
      PROVE  LimitKnown'
  <2>1. OpensNone /\ ListsKept(run'.listed) /\ run'.args = run.args /\ run'.listed = run.listed
    BY <1>3, SameOpensNone DEF Kept, ListsKept
  <2>2. run.pc # "idle" BY <1>3 DEF Trying, Closing
  <2>3. Limited /\ run'.pc \in Trying =>
          /\ run.branch.repo \in DOMAIN run.listed
          /\ run.listed[run.branch.repo][run.branch] # "OPEN" => Cardinality(Opened) < run.args.maxPrs
    BY <1>3, <2>2 DEF LimitKnown, ListedAs
  <2> QED BY <1>3, <2>1, <2>2, <2>3, LimitQuiet
<1>4. ASSUME NEW pc \in Trying \cup Closing, Goes(pc), run.pc \in Trying \cup Closing,
             pc \in Trying => run.pc \in Trying
      PROVE  LimitKnown'
  <2>1. /\ run' \in RunRecord /\ Kept(run, run') /\ run'.pc = pc /\ run'.branch = run.branch
        /\ run'.results = run.results
    BY <1>4, GoesType
  <2> QED BY <1>3, <1>4, <2>1
<1>5. CASE Start
  <2>1. run'.pc = "edit" /\ run'.results = Empty /\ run' \in RunRecord BY <1>5, StartType
  <2>2. DOMAIN run'.results = {} BY <2>1 DEF Empty
  <2>3. Opened' = {} /\ Unasked' = {} BY <2>2 DEF Opened, Unasked
  <2>4. IsFiniteSet(DOMAIN run'.results) /\ Cardinality(Unasked') = 0
    BY <2>2, <2>3, FS_EmptySet
  <2>5. Limited' => 0 <= run'.args.maxPrs
    <3>1. run'.args \in Args BY <2>1, FixApplyAssumption DEF RunRecord
    <3> QED BY <3>1 DEF Args, Limited
  <2> QED BY <2>1, <2>3, <2>4, <2>5 DEF LimitKnown, Trying
<1>6. CASE Crash BY <1>1, <1>6 DEF Crash, NoRun
<1>7. CASE TakeEdit BY <1>7, TakeEditLimit
<1>8. CASE ReadBase \/ LookUp
  <2>1. run.pc \in Trying BY <1>8, Where DEF Trying
  <2>2. CASE Ends("edit") BY <1>2, <2>1, <2>2
  <2>3. CASE run'.pc \in {"look", "judge", "fetch"} /\ run'.results = run.results
    <3>1. run' \in RunRecord /\ Kept(run, run') /\ run'.branch = run.branch
      BY <1>8, <2>3, ReadBaseType, LookUpType
    <3> QED BY <1>3, <2>1, <2>3, <3>1
  <2> QED BY <1>8, <2>2, <2>3, LookCases
<1>9. CASE FetchBranch \/ Judge \/ Build \/ Push
  <2>1. run.pc \in Trying BY <1>9, Where DEF Trying
  <2>2. Ends("edit") \/ \E pc \in Trying : Goes(pc) BY <1>9, CallCases DEF Trying
  <2> QED BY <1>2, <1>4, <2>1, <2>2
<1>10. CASE OpenRequest BY <1>10, OpenRequestLimit
<1>11. CASE FinishEdits
  <2>1. run.pc = "edit" BY <1>11, Where
  <2>2. CASE run' = NoRun BY <1>1, <2>2 DEF NoRun
  <2>3. CASE /\ run'.pc = "list" /\ run'.args = run.args /\ run'.results = run.results
             /\ run'.listed = run.listed /\ run' \in RunRecord
    <3>1. OpensNone /\ ListsKept(run'.listed) BY <2>3, SameOpensNone DEF ListsKept
    <3> QED BY <2>1, <2>3, <3>1, LimitQuiet DEF Trying
  <2>4. NoRun \notin RunRecord BY DEF NoRun, RunRecord
  <2> QED BY <1>11, <2>2, <2>3, FinishEditsType
<1>12. CASE ListObsolete
  <2>1. run.pc = "list" BY <1>12, Where
  <2>2. CASE run' = NoRun BY <1>1, <2>2 DEF NoRun
  <2>3. ASSUME run'.pc = "list", run'.args = run.args, run'.results = run.results,
               run' \in RunRecord,
               NEW repo, NEW answer \in Answers(repo), run'.listed = Put(run.listed, repo, answer)
        PROVE  LimitKnown'
    <3>1. OpensNone /\ ListsKept(run'.listed) BY <2>3, SameOpensNone, PutKeeps
    <3> QED BY <2>1, <2>3, <3>1, LimitQuiet DEF Trying
  <2> QED BY <1>12, <2>2, <2>3, ListObsoleteType
<1>13. CASE ReadHead
  <2>1. run.pc = "list" /\ run \in RunRecord BY <1>13, Where, InRun
  <2>2. run'.args = run.args /\ run'.listed = run.listed /\ run' \in RunRecord
    BY <1>13, ReadHeadType
  <2>3. OpensNone /\ run'.pc \notin Trying
    <3>1. PICK b \in run.obsolete :
            LET next == [run EXCEPT !.obsolete = @ \ {b}, !.branch = b] IN
            \/ run' = Done(next, "list", "Blocked", FALSE)
            \/ run' = [next EXCEPT !.pc = "close"]
      BY <1>13, Zenon DEF ReadHead
    <3>2. PICK next : next = [run EXCEPT !.obsolete = @ \ {b}, !.branch = b] OBVIOUS
    <3>3. b \in Branches BY <2>1 DEF RunRecord
    <3>4. next \in RunRecord /\ next.branch = b /\ next.results = run.results
      <4>1. run.obsolete \ {b} \in SUBSET Branches BY <2>1 DEF RunRecord
      <4> QED BY <2>1, <3>2, <3>3, <4>1, ZenonT(60) DEF RunRecord
    <3>5. CASE run' = Done(next, "list", "Blocked", FALSE)
      <4>1. [outcome |-> "Blocked", opened |-> FALSE] \in Result BY DEF Result
      <4>2. run'.pc = "list" BY <3>3, <3>4, <3>5, <4>1, DoneFields, Zenon
      <4>3. OpensNone BY <3>3, <3>4, <3>5, DoneOpensNone
      <4> QED BY <4>2, <4>3 DEF Trying
    <3>6. CASE run' = [next EXCEPT !.pc = "close"]
      <4>1. run'.pc = "close" /\ run'.results = run.results BY <3>4, <3>6 DEF RunRecord
      <4> QED BY <4>1, SameOpensNone DEF Trying
    <3> QED BY <3>1, <3>2, <3>5, <3>6, Zenon
  <2>4. ListsKept(run'.listed) BY <2>2 DEF ListsKept
  <2> QED BY <2>1, <2>2, <2>3, <2>4, LimitQuiet
<1>14. CASE CloseRequest \/ DeleteBranch
  <2>1. run.pc \in Closing BY <1>14, Where DEF Closing
  <2>2. Ends("list") \/ Goes("delete") BY <1>14, CallCases
  <2> QED BY <1>2, <1>4, <2>1, <2>2 DEF Closing, Trying
<1>15. CASE UNCHANGED run
  BY <1>15 DEF LimitKnown, Limited, Unasked, Opened, ListedAs
<1>16. ASSUME NEW b, \/ SomeonePushes(b) \/ SomeoneDeletes(b) \/ SomeoneCloses(b)
                     \/ SomeoneMerges(b) \/ MainMoves(b) \/ RequestBuried(b)
       PROVE  UNCHANGED run
  BY <1>16, Zenon DEF SomeonePushes, SomeoneDeletes, SomeoneCloses, SomeoneMerges, MainMoves,
     RequestBuried, Move, Turn
<1>17. CASE UNCHANGED vars BY <1>15, <1>17 DEF vars
<1> QED BY <1>5, <1>6, <1>7, <1>8, <1>9, <1>10, <1>11, <1>12, <1>13, <1>14, <1>15, <1>16, <1>17,
           Zenon DEF Next

-----------------------------------------------------------------------------
\* What the limit is meant for: the requests the forge opened for the run that it counts.
Numbered == Made \ Uncounted
Editing == {"edit"} \cup Trying

\* What the run knows of the requests the forge opened for it: each has a result and its
\* repository's list; while edits are under way it counts those it heard of, and none is of a
\* branch that is still to come; and those that count keep to the limit.
MadeKnown ==
    run.pc # "idle" =>
      /\ Made \subseteq DOMAIN run.results
      /\ run.pc \in Editing =>
           /\ \A b \in Made : made[b] = "answered" => b \in Opened
           /\ \A i \in run.left : run.plan.edits[i].branch \notin Made
      /\ run.pc \in Trying =>
           /\ run.branch \notin Made
           /\ \A i \in run.left : run.plan.edits[i].branch # run.branch
      /\ Limited =>
           /\ \A b \in Made : b.repo \in DOMAIN run.listed
           /\ Cardinality(Numbered) <= run.args.maxPrs

\* Every result but x's says what it said of a request, and none goes.
Keeps(x) ==
    /\ DOMAIN run.results \subseteq DOMAIN run'.results
    /\ Opened \ {x} \subseteq Opened'

\* A new result touches that of its branch alone.
LEMMA DoneKeeps ==
    ASSUME NEW r \in RunRecord, r.branch \in Branches, r.results = run.results,
           NEW next \in {"edit", "list"},
           NEW outcome \in {"Verified", "Unverified", "Blocked", "Skipped", "Closed"},
           NEW opened \in BOOLEAN,
           run' = Done(r, next, outcome, opened)
    PROVE  Keeps(r.branch)
<1>1. [outcome |-> outcome, opened |-> opened] \in Result BY DEF Result
<1>2. Adds(r, run', outcome, opened) BY <1>1, DoneFields, Zenon
<1>3. /\ DOMAIN run'.results = DOMAIN run.results \cup {r.branch}
      /\ \A b \in DOMAIN run.results \ {r.branch} : run'.results[b] = run.results[b]
  BY <1>2, Zenon DEF Adds
<1> QED BY <1>3 DEF Keeps, Opened

LEMMA SameKeeps ==
    ASSUME run'.results = run.results, NEW x PROVE Keeps(x)
BY DEF Keeps, Opened

\* A step in which the forge opens nothing keeps what the run knows, if a result it changes is
\* of a branch nothing was opened for and what it tries next is such a branch too.
LEMMA MadeQuiet ==
    ASSUME MadeKnown, run.pc # "idle", made' = made, run'.args = run.args, run'.plan = run.plan,
           ListsKept(run'.listed), NEW x, Keeps(x),
           run'.pc \in Editing =>
             run.pc \in Editing /\ run'.left \subseteq run.left /\ x \notin Made,
           run'.pc \in Trying =>
             /\ run'.branch \notin Made
             /\ \A i \in run'.left : run'.plan.edits[i].branch # run'.branch
    PROVE  MadeKnown'
<1>1. Made' = Made BY DEF Made
<1>2. Made' \subseteq DOMAIN run'.results BY <1>1 DEF MadeKnown, Keeps
<1>3. run'.pc \in Editing =>
        /\ \A b \in Made' : made'[b] = "answered" => b \in Opened'
        /\ \A i \in run'.left : run'.plan.edits[i].branch \notin Made'
  <2> SUFFICES ASSUME run'.pc \in Editing
               PROVE  /\ \A b \in Made : made[b] = "answered" => b \in Opened'
                      /\ \A i \in run'.left : run.plan.edits[i].branch \notin Made
    BY <1>1
  <2>1. /\ \A b \in Made : made[b] = "answered" => b \in Opened
        /\ \A i \in run.left : run.plan.edits[i].branch \notin Made
    BY DEF MadeKnown
  <2> QED BY <2>1 DEF Keeps
<1>4. Limited' => /\ Limited
                  /\ \A b \in Made' : b.repo \in DOMAIN run'.listed
                  /\ Numbered' = Numbered
  <2> SUFFICES ASSUME Limited' PROVE /\ Limited
                                     /\ \A b \in Made' : b.repo \in DOMAIN run'.listed
                                     /\ Numbered' = Numbered
    OBVIOUS
  <2>1. Limited BY DEF Limited
  <2>2. \A b \in Made : b.repo \in DOMAIN run.listed BY <2>1 DEF MadeKnown
  <2>3. \A b \in Made : b.repo \in DOMAIN run'.listed /\ run'.listed[b.repo] = run.listed[b.repo]
    BY <2>2 DEF ListsKept
  <2>4. \A b \in Made : ListedAs(b)' = ListedAs(b) BY <2>3 DEF ListedAs
  <2>5. Numbered' = Numbered BY <1>1, <2>4 DEF Numbered, Uncounted
  <2> QED BY <1>1, <2>1, <2>3, <2>5
<1>5. Limited' => Cardinality(Numbered') <= run'.args.maxPrs BY <1>4 DEF MadeKnown
<1> QED BY <1>1, <1>2, <1>3, <1>4, <1>5 DEF MadeKnown

\* The edit that is taken is of a branch nothing was opened for, and no later edit is.
LEMMA TakeEditMade ==
    ASSUME TypeOK, Known, MadeKnown, TakeEdit PROVE MadeKnown'
<1>1. run \in RunRecord /\ run.pc = "edit" /\ Running BY Where, InRun
<1>2. PICK i \in run.left : \E listed \in ListsAfter(run.plan.edits[i].branch) :
        Took(i, run.plan.edits[i].branch, listed)
  BY TakeEditCases, Zenon DEF ListsAfter
<1>3. i \in DOMAIN run.plan.edits BY <1>1 DEF Known
<1>4. PICK b \in Branches : b = run.plan.edits[i].branch BY <1>1, <1>3, EditBranch
<1>5. PICK listed \in ListsAfter(b) : Took(i, b, listed) BY <1>2, <1>4
<1>6. listed \in UNION {[D -> [Branches -> States]] : D \in SUBSET Repos}
  BY <1>1, ListsType, Zenon
<1>7. /\ run' \in RunRecord /\ run'.pc \in {"edit", "base"} /\ run'.args = run.args
      /\ run'.plan = run.plan /\ run'.left = run.left \ {i} /\ run'.listed = listed
      /\ run'.pc = "base" => run'.branch = b /\ run'.results = run.results
  BY <1>1, <1>3, <1>4, <1>5, <1>6, TookFields, Zenon
<1>8. PICK t : t = Taken(i, listed) OBVIOUS
<1>9. /\ t \in RunRecord /\ t.branch = b /\ t.pc = "edit" /\ t.results = run.results
  BY <1>1, <1>3, <1>4, <1>6, <1>8, TakenFields
<1>10. ASSUME NEW outcome \in {"Skipped", "Blocked"}, run' = Done(t, "edit", outcome, FALSE)
       PROVE  Keeps(b)
  <2>1. /\ t.branch \in Branches
        /\ outcome \in {"Verified", "Unverified", "Blocked", "Skipped", "Closed"}
    BY <1>9
  <2> QED BY <1>9, <1>10, <2>1, DoneKeeps
<1>11. ASSUME run' = [t EXCEPT !.branch = None] PROVE Keeps(b)
  <2>1. run'.results = run.results BY <1>9, <1>11 DEF RunRecord
  <2> QED BY <2>1, SameKeeps
<1>12. ASSUME Try(t) PROVE Keeps(b)
  <2>1. run'.results = run.results BY <1>9, <1>12 DEF RunRecord, Try
  <2> QED BY <2>1, SameKeeps
<1>13. Keeps(b) BY <1>5, <1>8, <1>10, <1>11, <1>12, Zenon DEF Took
<1>14. ListsKept(listed) BY <1>5, PutKeeps DEF ListsAfter, ListsKept
<1>15. b \notin Made BY <1>1, <1>4 DEF MadeKnown, Editing, Running
<1>16. \A j \in run'.left : run'.plan.edits[j].branch # b
  <2>1. run.plan \in Plans /\ run.left \subseteq DOMAIN run.plan.edits
    BY <1>1 DEF RunRecord, Known
  <2>2. \A j, k \in DOMAIN run.plan.edits :
          run.plan.edits[j].branch = run.plan.edits[k].branch => j = k
    BY <2>1, FixApplyAssumption
  <2> QED BY <1>3, <1>4, <1>7, <2>1, <2>2
<1>17. made' = made BY DEF TakeEdit, outside
<1>18. run'.pc \in Trying => run'.branch = b BY <1>7 DEF Trying
<1>19. /\ run.pc # "idle" /\ run.pc \in Editing /\ run'.left \subseteq run.left
  BY <1>1, <1>7 DEF Editing
<1> QED BY <1>7, <1>13, <1>14, <1>15, <1>16, <1>17, <1>18, <1>19, MadeQuiet

\* A request that the forge opens has a result that says so, or its answer was lost.
LEMMA OpenRequestMade ==
    ASSUME TypeOK, Known, LimitKnown, LimitKnown', MadeKnown, OpenRequest PROVE MadeKnown'
<1>1. /\ run \in RunRecord /\ run.pc = "request" /\ run.pc \in Trying /\ run.pc # "idle"
      /\ run.branch \in Branches /\ run.pc \in Editing
  BY Where, InRun DEF Trying, Editing, Known
<1> DEFINE b == run.branch
<1>2. PICK opened \in BOOLEAN :
        /\ run' = Done(run, "edit", "Verified", opened)
        /\ \/ made' = made
           \/ made' = [made EXCEPT ![b] = IF opened THEN "answered" ELSE "lost"]
  BY Zenon DEF OpenRequest
<1>3. [outcome |-> "Verified", opened |-> opened] \in Result BY DEF Result
<1>4. /\ run' \in RunRecord /\ run'.pc = "edit" /\ Kept(run, run')
      /\ Adds(run, run', "Verified", opened)
  <2> "edit" \in {"edit", "list"} OBVIOUS
  <2> QED BY <1>1, <1>2, <1>3, DoneFields, Zenon
<1>5. Keeps(b) BY <1>1, <1>2, DoneKeeps
<1>6. /\ b \notin Made /\ \A i \in run.left : run.plan.edits[i].branch \notin Made \cup {b}
      /\ Made \subseteq DOMAIN run.results
      /\ \A c \in Made : made[c] = "answered" => c \in Opened
  BY <1>1 DEF MadeKnown
<1>7. /\ b \in DOMAIN run'.results /\ run'.results[b].opened = opened
  <2>1. run'.results[b] = [outcome |-> "Verified", opened |-> opened] BY <1>4, Zenon DEF Adds
  <2>2. b \in DOMAIN run'.results BY <1>4 DEF Adds
  <2> QED BY <2>1, <2>2
<1>8. made \in [Branches -> {"no", "answered", "lost"}] BY DEF TypeOK
<1>9. /\ Made' \subseteq Made \cup {b}
      /\ \A c \in Made : made'[c] = made[c]
      /\ b \in Made' => made'[b] = IF opened THEN "answered" ELSE "lost"
  <2> HIDE DEF b
  <2>1. CASE made' = made BY <1>6, <1>8, <2>1 DEF Made
  <2>2. CASE made' = [made EXCEPT ![b] = IF opened THEN "answered" ELSE "lost"]
    BY <1>6, <1>8, <2>2 DEF Made, b
  <2> QED BY <1>2, <2>1, <2>2
<1>10. Made' \subseteq DOMAIN run'.results BY <1>5, <1>6, <1>7, <1>9 DEF Keeps
<1>11. \A c \in Made' : made'[c] = "answered" => c \in Opened'
  <2> SUFFICES ASSUME NEW c \in Made', made'[c] = "answered" PROVE c \in Opened'
    OBVIOUS
  <2>1. CASE c = b
    <3>1. opened BY <1>9, <2>1
    <3> QED BY <1>7, <2>1, <3>1 DEF Opened
  <2>2. CASE c # b
    <3>1. c \in Made /\ made[c] = "answered" BY <1>9, <2>2
    <3> QED BY <1>5, <1>6, <2>2, <3>1 DEF Keeps
  <2> QED BY <2>1, <2>2
<1>12. run'.args = run.args /\ run'.plan = run.plan /\ run'.left = run.left
       /\ run'.listed = run.listed
  BY <1>4 DEF Kept
<1>13. \A i \in run'.left : run'.plan.edits[i].branch \notin Made' BY <1>6, <1>9, <1>12
<1>14. ASSUME Limited'
       PROVE  /\ \A c \in Made' : c.repo \in DOMAIN run'.listed
              /\ Cardinality(Numbered') <= run'.args.maxPrs
  <2>1. Limited BY <1>12, <1>14 DEF Limited
  <2>2. b.repo \in DOMAIN run.listed BY <1>1, <2>1 DEF LimitKnown
  <2>3. \A c \in Made : c.repo \in DOMAIN run.listed BY <1>1, <2>1 DEF MadeKnown
  <2>4. IsFiniteSet(DOMAIN run'.results) /\ Cardinality(Unasked') <= run'.args.maxPrs
    BY <1>4, <1>14 DEF LimitKnown
  <2>5. Numbered' \subseteq Unasked'
    <3> SUFFICES ASSUME NEW c \in Numbered' PROVE c \in Unasked'
      OBVIOUS
    <3>1. c \in Made' /\ made'[c] # "lost" /\ ListedAs(c)' # "OPEN"
      BY DEF Numbered, Uncounted
    <3>2. made'[c] = "answered" BY <1>9, <3>1, <1>8 DEF Made
    <3> QED BY <1>11, <3>1, <3>2 DEF Unasked
  <2>6. IsFiniteSet(Unasked') /\ Cardinality(Unasked') \in Nat
    <3>1. Unasked' \in SUBSET DOMAIN run'.results BY DEF Unasked, Opened
    <3> QED BY <2>4, <3>1, FS_Subset, FS_CardinalityType
  <2>7. Cardinality(Numbered') <= Cardinality(Unasked') /\ Cardinality(Numbered') \in Nat
    <3>1. Numbered' \in SUBSET Unasked' BY <2>5
    <3> QED BY <2>6, <3>1, FS_Subset, FS_CardinalityType
  <2>8. run'.args.maxPrs \in Nat
    <3>1. run'.args \in Args BY <1>4, FixApplyAssumption DEF RunRecord
    <3> QED BY <1>14, <3>1 DEF Limited, Args
  <2>9. Cardinality(Numbered') <= run'.args.maxPrs BY <2>4, <2>6, <2>7, <2>8
  <2> QED BY <1>9, <1>12, <2>2, <2>3, <2>9
<1>15. run'.pc \notin Trying BY <1>4 DEF Trying
<1> QED BY <1>10, <1>11, <1>13, <1>14, <1>15 DEF MadeKnown

LEMMA MadeStep ==
    TypeOK /\ Known /\ LimitKnown /\ LimitKnown' /\ MadeKnown /\ [Next]_vars => MadeKnown'
<1> SUFFICES ASSUME TypeOK, Known, LimitKnown, LimitKnown', MadeKnown, [Next]_vars
             PROVE  MadeKnown'
  OBVIOUS
<1>1. ASSUME run'.pc = "idle" PROVE MadeKnown' BY <1>1 DEF MadeKnown
<1>2. ASSUME run.pc \in Trying \cup Closing, NEW next \in {"edit", "list"}, Ends(next),
             next = "edit" => run.pc \in Trying, made' = made
      PROVE  MadeKnown'
  <2>1. PICK outcome \in {"Verified", "Unverified", "Blocked", "Skipped", "Closed"} :
          run' = Done(run, next, outcome, FALSE)
    BY <1>2 DEF Ends
  <2>2. run \in RunRecord /\ run.branch \in Branches /\ run.pc # "idle"
    BY <1>2, InRun DEF Known, Trying, Closing
  <2>3. [outcome |-> outcome, opened |-> FALSE] \in Result BY DEF Result
  <2>4. run' \in RunRecord /\ run'.pc = next /\ Kept(run, run')
    BY <2>1, <2>2, <2>3, DoneFields, Zenon
  <2>5. Keeps(run.branch) BY <2>1, <2>2, DoneKeeps
  <2>6. run'.args = run.args /\ run'.plan = run.plan /\ run'.left = run.left
        /\ ListsKept(run'.listed)
    BY <2>4 DEF Kept, ListsKept
  <2>7. run'.pc \notin Trying BY <1>2, <2>4 DEF Trying
  <2>8. run'.pc \in Editing => run.pc \in Editing /\ run.branch \notin Made
    BY <1>2, <2>2, <2>4 DEF MadeKnown, Editing, Trying
  <2> QED BY <1>2, <2>2, <2>5, <2>6, <2>7, <2>8, MadeQuiet
<1>3. ASSUME run.pc \in Trying \cup Closing, run'.results = run.results,
             Kept(run, run'), made' = made,
             run'.pc \in Editing => run.pc \in Trying,
             run'.pc \in Trying => run'.branch = run.branch
      PROVE  MadeKnown'
  <2>1. ListsKept(run'.listed) /\ run'.args = run.args /\ run'.plan = run.plan
        /\ run'.left = run.left
    BY <1>3 DEF Kept, ListsKept
  <2>2. run.pc # "idle" BY <1>3 DEF Trying, Closing
  <2>3. run.pc \in Trying =>
          /\ run.branch \notin Made
          /\ \A i \in run.left : run.plan.edits[i].branch # run.branch
    BY <2>2 DEF MadeKnown
  <2>4. Keeps(run.branch) BY <1>3, SameKeeps
  <2>5. run'.pc \in Trying => run'.pc \in Editing BY DEF Editing
  <2>6. run'.pc \in Editing => run.pc \in Editing BY <1>3 DEF Editing
  <2> QED BY <1>3, <2>1, <2>2, <2>3, <2>4, <2>5, <2>6, MadeQuiet
<1>4. ASSUME NEW pc \in Trying \cup Closing, Goes(pc), run.pc \in Trying \cup Closing,
             pc \in Trying => run.pc \in Trying, made' = made
      PROVE  MadeKnown'
  <2>1. /\ run' \in RunRecord /\ Kept(run, run') /\ run'.pc = pc /\ run'.branch = run.branch
        /\ run'.results = run.results
    BY <1>4, GoesType
  <2>2. pc \in Editing => pc \in Trying BY <1>4 DEF Editing, Trying, Closing
  <2> QED BY <1>3, <1>4, <2>1, <2>2
<1>5. CASE Start
  <2>1. run' \in RunRecord /\ run'.pc = "edit" BY <1>5, StartType
  <2>2. Made' = {} BY <1>5 DEF Start, Made
  <2>3. Numbered' = {} /\ Cardinality(Numbered') = 0
    <3>1. Numbered' = {} BY <2>2 DEF Numbered
    <3> QED BY <3>1, FS_EmptySet
  <2>4. Limited' => 0 <= run'.args.maxPrs
    <3>1. run'.args \in Args BY <2>1, FixApplyAssumption DEF RunRecord
    <3> QED BY <3>1 DEF Args, Limited
  <2>5. run'.pc \notin Trying BY <2>1 DEF Trying
  <2> QED BY <2>2, <2>3, <2>4, <2>5 DEF MadeKnown
<1>6. CASE Crash BY <1>1, <1>6 DEF Crash, NoRun
<1>7. CASE TakeEdit BY <1>7, TakeEditMade
<1>8. CASE ReadBase \/ LookUp
  <2>1. run.pc \in Trying /\ made' = made
    BY <1>8, Where DEF Trying, ReadBase, LookUp, outside
  <2>2. CASE Ends("edit") BY <1>2, <2>1, <2>2
  <2>3. CASE run'.pc \in {"look", "judge", "fetch"} /\ run'.results = run.results
    <3>1. run' \in RunRecord /\ Kept(run, run') /\ run'.branch = run.branch
      BY <1>8, <2>3, ReadBaseType, LookUpType
    <3> QED BY <1>3, <2>1, <2>3, <3>1
  <2> QED BY <1>8, <2>2, <2>3, LookCases
<1>9. CASE FetchBranch \/ Judge \/ Build \/ Push
  <2>1. run.pc \in Trying BY <1>9, Where DEF Trying
  <2>2. Ends("edit") \/ \E pc \in Trying : Goes(pc) BY <1>9, CallCases DEF Trying
  <2>3. made' = made BY <1>9, Zenon DEF FetchBranch, Judge, Build, Push, outside
  <2> QED BY <1>2, <1>4, <2>1, <2>2, <2>3
<1>10. CASE OpenRequest BY <1>10, OpenRequestMade
<1>11. ASSUME run.pc # "idle", run'.pc \notin Editing, run'.args = run.args, run'.plan = run.plan,
              made' = made, ListsKept(run'.listed), NEW x, Keeps(x)
       PROVE  MadeKnown'
  <2>1. run'.pc \notin Trying BY <1>11 DEF Editing
  <2> QED BY <1>11, <2>1, MadeQuiet
<1>12. CASE FinishEdits
  <2>1. run.pc = "edit" /\ made' = made BY <1>12, Where DEF FinishEdits, outside
  <2>2. CASE run' = NoRun BY <1>1, <2>2 DEF NoRun
  <2>3. CASE /\ run'.pc = "list" /\ run'.args = run.args /\ run'.results = run.results
             /\ run'.listed = run.listed /\ run'.plan = run.plan
    <3>1. Keeps(None) /\ ListsKept(run'.listed) BY <2>3, SameKeeps DEF ListsKept
    <3>2. run'.pc \notin Editing BY <2>3 DEF Editing, Trying
    <3> QED BY <1>11, <2>1, <2>3, <3>1, <3>2
  <2>4. NoRun \notin RunRecord BY DEF NoRun, RunRecord
  <2> QED BY <1>12, <2>2, <2>3, FinishEditsType
<1>13. CASE ListObsolete
  <2>1. run.pc = "list" /\ made' = made BY <1>13, Where DEF ListObsolete, outside
  <2>2. CASE run' = NoRun BY <1>1, <2>2 DEF NoRun
  <2>3. ASSUME run'.pc = "list", run'.args = run.args, run'.results = run.results,
               run'.plan = run.plan,
               NEW repo, NEW answer \in Answers(repo), run'.listed = Put(run.listed, repo, answer)
        PROVE  MadeKnown'
    <3>1. Keeps(None) /\ ListsKept(run'.listed) BY <2>3, SameKeeps, PutKeeps
    <3>2. run'.pc \notin Editing BY <2>3 DEF Editing, Trying
    <3> QED BY <1>11, <2>1, <2>3, <3>1, <3>2
  <2> QED BY <1>13, <2>2, <2>3, ListObsoleteType
<1>14. CASE ReadHead
  <2>1. run.pc = "list" /\ run \in RunRecord /\ made' = made
    BY <1>14, Where, InRun DEF ReadHead, outside
  <2>2. PICK b \in run.obsolete :
          /\ run'.plan = run.plan /\ run'.args = run.args /\ run'.listed = run.listed
          /\ \/ run'.pc = "close" /\ run'.results = run.results
             \/ /\ run'.pc = "list"
                /\ DOMAIN run'.results = DOMAIN run.results \cup {b}
                /\ \A c \in DOMAIN run.results \ {b} : run'.results[c] = run.results[c]
    BY <1>14, ReadHeadType
  <2>3. Keeps(b) BY <2>2 DEF Keeps, Opened
  <2>4. run'.pc \notin Editing /\ ListsKept(run'.listed)
    BY <2>2 DEF Editing, Trying, ListsKept
  <2> QED BY <1>11, <2>1, <2>2, <2>3, <2>4
<1>15. CASE CloseRequest \/ DeleteBranch
  <2>1. run.pc \in Closing BY <1>15, Where DEF Closing
  <2>2. Ends("list") \/ Goes("delete") BY <1>15, CallCases
  <2>3. made' = made BY <1>15, Zenon DEF CloseRequest, DeleteBranch
  <2> QED BY <1>2, <1>4, <2>1, <2>2, <2>3 DEF Closing, Trying
<1>16. CASE UNCHANGED <<run, made>>
  BY <1>16 DEF MadeKnown, Limited, Numbered, Uncounted, Made, Opened, ListedAs
<1>17. ASSUME NEW b, \/ SomeonePushes(b) \/ SomeoneDeletes(b) \/ SomeoneCloses(b)
                     \/ SomeoneMerges(b) \/ MainMoves(b) \/ RequestBuried(b)
       PROVE  UNCHANGED <<run, made>>
  BY <1>17, Zenon DEF SomeonePushes, SomeoneDeletes, SomeoneCloses, SomeoneMerges, MainMoves,
     RequestBuried, Move, Turn
<1>18. CASE UNCHANGED vars BY <1>16, <1>18 DEF vars
<1> QED BY <1>5, <1>6, <1>7, <1>8, <1>9, <1>10, <1>12, <1>13, <1>14, <1>15, <1>16, <1>17, <1>18,
           Zenon DEF Next

\* --max-prs, "Open at most this many new pull requests this run": the forge opened no more of
\* them for the run, but for one more with each whose answer was lost and each that the run had
\* listed as open, whatever else fails and whoever closes requests meanwhile.
THEOREM WithinMaxPrsAlways == Spec => []WithinMaxPrs
<1>1. Init => LimitKnown /\ MadeKnown
  BY DEF Init, NoRun, LimitKnown, MadeKnown
<1>2. Spec => [](LimitKnown /\ MadeKnown)
  BY <1>1, LimitStep, MadeStep, TypeInvariant, PTL DEF Spec
<1>3. ASSUME LimitKnown, MadeKnown, TypeOK PROVE WithinMaxPrs
  <2> SUFFICES ASSUME Running, run.args.openPr, run.args.maxPrs # NoLimit
               PROVE  Cardinality(Made) <= run.args.maxPrs + Cardinality(Uncounted)
    BY DEF WithinMaxPrs
  <2>1. /\ IsFiniteSet(DOMAIN run.results) /\ Made \in SUBSET DOMAIN run.results
        /\ Cardinality(Numbered) <= run.args.maxPrs
    BY <1>3 DEF LimitKnown, MadeKnown, Limited, Running
  <2>2. IsFiniteSet(Made) BY <2>1, FS_Subset
  <2>3. Uncounted \in SUBSET Made /\ Numbered \in SUBSET Made BY DEF Uncounted, Numbered
  <2>4. /\ IsFiniteSet(Uncounted) /\ IsFiniteSet(Numbered)
        /\ Cardinality(Made) \in Nat /\ Cardinality(Uncounted) \in Nat
        /\ Cardinality(Numbered) \in Nat
    BY <2>2, <2>3, FS_Subset, FS_CardinalityType
  <2>5. Cardinality(Made) = Cardinality(Numbered) + Cardinality(Uncounted)
    <3>1. Numbered \cup Uncounted = Made /\ Numbered \cap Uncounted = {}
      BY DEF Numbered, Uncounted
    <3>2. /\ Cardinality(Numbered \cup Uncounted) =
               Cardinality(Numbered) + Cardinality(Uncounted) - Cardinality(Numbered \cap Uncounted)
      BY <2>4, FS_Union
    <3>3. Cardinality(Numbered \cap Uncounted) = 0 BY <3>1, FS_EmptySet
    <3>4. Cardinality(Numbered \cup Uncounted) = Cardinality(Made) BY <3>1, Zenon
    <3>5. Cardinality(Made) = Cardinality(Numbered) + Cardinality(Uncounted) - 0
      BY <3>2, <3>3, <3>4, Zenon
    <3> QED BY <2>4, <3>5
  <2>6. run.args.maxPrs \in Nat
    <3>1. run \in RunRecord BY <1>3, InRun DEF Running
    <3>2. run.args \in Args BY <3>1, FixApplyAssumption DEF RunRecord
    <3> QED BY <3>2 DEF Args
  <2> QED BY <2>1, <2>4, <2>5, <2>6
<1> QED BY <1>2, <1>3, TypeInvariant, PTL
=============================================================================
