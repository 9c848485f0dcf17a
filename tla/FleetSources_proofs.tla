------------------------- MODULE FleetSources_proofs -------------------------
(***************************************************************************)
(* Proofs about FleetSources, for any forge, any number of repos and any    *)
(* bound: the types of its variables, that a listing is told from the one   *)
(* before it exactly, and that a synced scan reads a repository whole.      *)
(***************************************************************************)
EXTENDS FleetSources, TLAPS

Rec == [id: Names, key: Keys, branch: Branches]
CommitType == {Never} \cup Commits
TreeType == {Never, Part} \cup Commits
Forge == [Keys -> [name: Names \cup {Gone}, default: Branches, heads: [Branches -> CommitType]]]
Dir == [git: BOOLEAN, follows: Branches \cup {"HEAD", Gone}, fetched: CommitType,
        head: CommitType, tree: TreeType, litter: SUBSET CommitType,
        stuck: {"none", "look", "reset"}]
Report == [commit: CommitType, tree: TreeType, litter: SUBSET CommitType]
RunFields == {"pc", "command", "before", "listed", "change", "branch", "at", "commit", "had"}

\* What a run under way is made of, and where its change comes from.
RunOK ==
    Running =>
      /\ DOMAIN run = RunFields
      /\ run.listed \in SUBSET Rec
      /\ run.at \in [RecordIds(run.listed) -> Steps]
      /\ run.branch \in [RecordIds(run.listed) -> Branches]
      /\ run.commit \in [RecordIds(run.listed) -> CommitType]
      /\ Syncs(run.command) /\ run.before.read =>
           run.change = Between(run.before.repos, run.listed)

\* The types are inductive with those of the listing cache and of a run's fields.
IInv ==
    /\ TypeOK
    /\ pushes \in 1 .. MaxPushes
    /\ cache \in [read: BOOLEAN, repos: SUBSET Rec]
    /\ \A n \in Names : dirs[n].git => dirs[n].follows \in Branches \cup {"HEAD"}
    /\ RunOK

-----------------------------------------------------------------------------
\* What `between` tells of two listings: the one before, without what it says was removed or
\* renamed and with what it says was added or renamed to, is the one now.
LEMMA BetweenIsExact ==
    ASSUME NEW before, NEW now
    PROVE  LET change == Between(before, now)
               froms == {r.from : r \in change.renamed}
               tos == {r.to : r \in change.renamed}
           IN  /\ (RecordIds(before) \ (change.removed \cup froms)) \cup change.added \cup tos
                    = RecordIds(now)
               /\ change.removed \cap froms = {} /\ change.added \cap tos = {}
               /\ \A r \in change.renamed : \E p \in before, q \in now :
                     p.id = r.from /\ q.id = r.to /\ p.key = q.key
<1> DEFINE renamed == Renames(before, now)
           froms == {r.from : r \in renamed}
           tos == {r.to : r \in renamed}
           change == Between(before, now)
<1>1. /\ change.added = (RecordIds(now) \ RecordIds(before)) \ (froms \cup tos)
      /\ change.removed = (RecordIds(before) \ RecordIds(now)) \ (froms \cup tos)
      /\ change.renamed = renamed
  BY DEF Between
<1>2. \A r \in renamed : \E p \in before, q \in now :
         /\ p.id = r.from /\ q.id = r.to /\ p.key = q.key
         /\ p.id \notin RecordIds(now) /\ q.id \notin RecordIds(before)
  BY DEF Renames
<1>3. /\ froms \subseteq RecordIds(before) \ RecordIds(now)
      /\ tos \subseteq RecordIds(now) \ RecordIds(before)
  BY <1>2 DEF RecordIds
<1> HIDE DEF renamed, froms, tos, change
<1>4. (RecordIds(before) \ (change.removed \cup froms)) \cup change.added \cup tos
        = RecordIds(now)
  BY <1>1, <1>3
<1>5. change.removed \cap froms = {} /\ change.added \cap tos = {}
  BY <1>1
<1> QED
  BY <1>1, <1>2, <1>4, <1>5 DEF renamed, froms, tos, change

\* A listing of a typed forge is typed.
LEMMA ListingType == ASSUME TypeOK PROVE Listing \in SUBSET Rec
BY DEF TypeOK, Listing, OnForge, Rec

\* So is what a remote answers.
LEMMA RemoteType ==
    ASSUME TypeOK, NEW n, NEW branch \in Branches \cup {"HEAD"}
    PROVE  Remote(forge, n, branch) \in CommitType
<1>1. CASE ~\E k \in Keys : forge[k].name = n
  BY <1>1 DEF Remote, CommitType
<1>2. CASE \E k \in Keys : forge[k].name = n
  <2> DEFINE k == CHOOSE k \in Keys : forge[k].name = n
             b == IF branch = "HEAD" THEN forge[k].default ELSE branch
  <2>1. k \in Keys
    BY <1>2
  <2>2. b \in Branches
    BY <2>1 DEF TypeOK
  <2>3. forge[k].heads[b] \in CommitType
    BY <2>1, <2>2 DEF TypeOK, CommitType
  <2>4. Remote(forge, n, branch) = forge[k].heads[b]
    BY <1>2 DEF Remote
  <2> QED
    BY <2>3, <2>4
<1> QED
  BY <1>1, <1>2

\* A run that starts is whole.
LEMMA StartedType ==
    ASSUME IInv, NEW command, NEW before, NEW listed \in SUBSET Rec,
           run' = Started(command, before, listed)
    PROVE  RunOK' /\ run'.pc = "checkouts"
<1> DEFINE D == RecordIds(listed)
<1>1. /\ run'.pc = "checkouts" /\ run'.command = command /\ run'.before = before
      /\ run'.listed = listed /\ DOMAIN run' = RunFields
      /\ run'.change = IF Syncs(command) /\ before.read THEN Between(before.repos, listed)
                       ELSE NoChange
      /\ run'.branch = [n \in D |-> (CHOOSE r \in listed : r.id = n).branch]
      /\ run'.at = [n \in D |-> "look"] /\ run'.commit = [n \in D |-> Never]
  BY DEF Started, RunFields
<1>2. \A n \in D : (CHOOSE r \in listed : r.id = n).branch \in Branches
  <2> SUFFICES ASSUME NEW n \in D PROVE (CHOOSE r \in listed : r.id = n).branch \in Branches
    OBVIOUS
  <2>1. \E r \in listed : r.id = n
    BY DEF RecordIds
  <2>2. (CHOOSE r \in listed : r.id = n) \in listed
    BY <2>1
  <2> QED
    BY <2>2 DEF Rec
<1>3. run'.branch \in [D -> Branches]
  BY <1>1, <1>2
<1>4. run'.at \in [D -> Steps] /\ run'.commit \in [D -> CommitType]
  BY <1>1 DEF Steps, CommitType
<1> QED
  BY <1>1, <1>3, <1>4 DEF RunOK, Running

\* A run of which only the progress moves stays whole.
LEMMA GoesType ==
    ASSUME IInv, Running, NEW n \in DOMAIN run.at, NEW step \in Steps,
           run' = [run EXCEPT !.at[n] = step]
    PROVE  RunOK' /\ Running'
<1>1. DOMAIN run = RunFields
  BY DEF IInv, RunOK
<1>2. /\ DOMAIN run' = RunFields /\ run'.at = [run.at EXCEPT ![n] = step]
      /\ run'.pc = run.pc /\ run'.command = run.command /\ run'.before = run.before
      /\ run'.listed = run.listed /\ run'.change = run.change /\ run'.branch = run.branch
      /\ run'.commit = run.commit
  BY <1>1 DEF RunFields
<1> QED
  BY <1>2 DEF IInv, RunOK, Running

\* What people do to the forge leaves a run whole.
LEMMA SeenType == ASSUME IInv, Seen PROVE RunOK' /\ (Running' <=> Running)
<1>1. CASE ~Running
  BY <1>1 DEF Seen, RunOK, Running
<1>2. CASE Running
  <2>1. DOMAIN run = RunFields
    BY <1>2 DEF IInv, RunOK
  <2>2. run' = [run EXCEPT !.had = [n \in DOMAIN run.had |->
                   run.had[n] \cup Newest(forge', n, run.branch[n])]]
    BY <1>2 DEF Seen
  <2>3. /\ DOMAIN run' = RunFields /\ run'.at = run.at
        /\ run'.pc = run.pc /\ run'.command = run.command /\ run'.before = run.before
        /\ run'.listed = run.listed /\ run'.change = run.change /\ run'.branch = run.branch
        /\ run'.commit = run.commit
    BY <2>1, <2>2 DEF RunFields
  <2> QED
    BY <1>2, <2>3 DEF IInv, RunOK, Running
<1> QED
  BY <1>1, <1>2

\* A run that stopped or ended is no run under way.
LEMMA NotRunningType ==
    ASSUME run'.pc \in {"idle", "ended", "stopped"} PROVE RunOK' /\ ~Running'
BY DEF RunOK, Running

\* A change of one checkout that is typed and still follows a branch.
LEMMA EditDir ==
    ASSUME dirs \in [Names -> Dir], NEW n \in Names, NEW d \in Dir,
           \A m \in Names : dirs[m].git => dirs[m].follows \in Branches \cup {"HEAD"},
           d.git => d.follows \in Branches \cup {"HEAD"},
           dirs' = [dirs EXCEPT ![n] = d]
    PROVE  /\ dirs' \in [Names -> Dir]
           /\ \A m \in Names : dirs'[m].git => dirs'[m].follows \in Branches \cup {"HEAD"}
<1>1. dirs' \in [Names -> Dir]
  OBVIOUS
<1>2. \A m \in Names : dirs'[m] = IF m = n THEN d ELSE dirs[m]
  OBVIOUS
<1> QED
  BY <1>1, <1>2

\* What a git command writes keeps a checkout's type and the branch it follows.
LEMMA FetchedType ==
    ASSUME NEW d \in Dir, NEW commit \in CommitType
    PROVE  /\ [d EXCEPT !.fetched = commit] \in Dir
           /\ [d EXCEPT !.fetched = commit].git = d.git
           /\ [d EXCEPT !.fetched = commit].follows = d.follows
BY DEF Dir

LEMMA WrittenType ==
    ASSUME NEW d \in Dir, NEW tree \in TreeType
    PROVE  /\ [d EXCEPT !.tree = tree] \in Dir
           /\ [d EXCEPT !.tree = tree].git = d.git /\ [d EXCEPT !.tree = tree].follows = d.follows
BY DEF Dir

\* So does what a git command that is cut off leaves behind, which may also be a new repository.
LEMMA LeftType ==
    ASSUME IInv, Running, NEW n \in Names, NEW left \in LeftBehind(n)
    PROVE  /\ left \in Dir
           /\ left.git => left.follows \in Branches \cup {"HEAD"}
<1> DEFINE d == dirs[n]
           step == run.at[n]
           cloned == [Missing EXCEPT !.git = TRUE, !.follows = "HEAD"]
           writes == IF step = "reset" THEN d.fetched ELSE d.head
<1>1. d \in Dir /\ (d.git => d.follows \in Branches \cup {"HEAD"})
  BY DEF IInv, TypeOK, Dir, CommitType, TreeType
<1>2. CASE left = d
  BY <1>1, <1>2
<1>3. CASE left # d
  <2>1. n \in DOMAIN run.at /\ left \in CutOff(n, step)
    BY <1>3 DEF LeftBehind
  <2>2. run.branch[n] \in Branches
    BY <2>1 DEF IInv, RunOK
  <2>3. \/ \E branch \in {"HEAD", run.branch[n]} : left = [cloned EXCEPT !.follows = branch]
        \/ \E stuck \in {"look", "reset"} : left = [cloned EXCEPT !.stuck = stuck]
        \/ \E stuck \in {"look", "reset"} : left = [d EXCEPT !.stuck = stuck]
        \/ /\ step \in {"reset", "checkout"}
           /\ \E stuck \in {"none", "reset"} :
                left = [d EXCEPT !.tree = Part, !.litter = d.litter \cup {writes}, !.stuck = stuck]
    BY <2>1 DEF CutOff
  <2>4. ASSUME NEW branch \in {"HEAD", run.branch[n]}, left = [cloned EXCEPT !.follows = branch]
        PROVE  left \in Dir /\ left.follows \in Branches \cup {"HEAD"}
    BY <2>2, <2>4 DEF Missing, Dir, CommitType, TreeType
  <2>5. ASSUME NEW stuck \in {"look", "reset"}, left = [cloned EXCEPT !.stuck = stuck]
        PROVE  left \in Dir /\ left.follows \in Branches \cup {"HEAD"}
    BY <2>5 DEF Missing, Dir, CommitType, TreeType
  <2>6. ASSUME NEW stuck \in {"look", "reset"}, left = [d EXCEPT !.stuck = stuck]
        PROVE  left \in Dir /\ left.git = d.git /\ left.follows = d.follows
    BY <1>1, <2>6 DEF Dir
  <2>7. ASSUME NEW stuck \in {"none", "reset"},
               left = [d EXCEPT !.tree = Part, !.litter = d.litter \cup {writes}, !.stuck = stuck]
        PROVE  left \in Dir /\ left.git = d.git /\ left.follows = d.follows
    <3>1. d.litter \cup {writes} \in SUBSET CommitType /\ Part \in TreeType
      BY <1>1 DEF Dir, TreeType
    <3> HIDE DEF d, writes
    <3> QED
      BY <1>1, <2>7, <3>1 DEF Dir
  <2> QED
    BY <1>1, <2>3, <2>4, <2>5, <2>6, <2>7
<1> QED
  BY <1>2, <1>3

LEMMA InitInv == ASSUME Init PROVE IInv
<1> USE FleetSourcesAssumption, NamesAssumption
<1>1. 1 \in Commits
  BY DEF Commits
<1>2. forge \in Forge
  <2>1. PICK names \in Starts :
          forge = [k \in Keys |-> [name |-> names[k], default |-> "main",
                     heads |-> [b \in Branches |-> IF b = "main" THEN 1 ELSE Never]]]
    BY DEF Init
  <2>2. [b \in Branches |-> IF b = "main" THEN 1 ELSE Never] \in [Branches -> CommitType]
    BY <1>1 DEF CommitType
  <2>3. names \in [Keys -> Names \cup {Gone}]
    OBVIOUS
  <2> HIDE NamesAssumption
  <2>4. "main" \in Branches
    BY NamesAssumption
  <2> QED
    BY <2>1, <2>2, <2>3, <2>4 DEF Forge
<1>3. Missing \in Dir /\ ~Missing.git
  BY DEF Missing, Dir, CommitType, TreeType
<1>4. NoReport \in Report
  BY DEF NoReport, Report, CommitType, TreeType
<1>5. run.pc = "idle"
  BY DEF Init, Idle
<1>6. TypeOK
  BY <1>2, <1>3, <1>4, <1>5 DEF TypeOK, Init, Forge, Dir, Report, CommitType, TreeType, Running
<1>7. RunOK
  BY <1>5 DEF RunOK, Running
<1> QED
  BY <1>3, <1>6, <1>7 DEF IInv, Init

LEMMA StepInv == ASSUME IInv, [Next]_vars PROVE IInv'
<1> USE FleetSourcesAssumption, NamesAssumption
<1>0. /\ forge \in Forge /\ dirs \in [Names -> Dir]
      /\ report \in [Names -> Report]
      /\ run.pc \in {"idle", "checkouts", "ended", "stopped"}
  BY DEF IInv, TypeOK, Forge, Dir, Report, CommitType, TreeType
<1>a. ASSUME /\ forge' \in Forge /\ dirs' \in [Names -> Dir]
             /\ report' \in [Names -> Report]
             /\ run'.pc \in {"idle", "checkouts", "ended", "stopped"}
             /\ pushes' \in 1 .. MaxPushes
             /\ cache' \in [read: BOOLEAN, repos: SUBSET Rec]
             /\ \A n \in Names : dirs'[n].git => dirs'[n].follows \in Branches \cup {"HEAD"}
             /\ RunOK'
      PROVE  IInv'
  BY <1>a DEF IInv, TypeOK, Forge, Dir, Report, CommitType, TreeType, RunOK
<1> DEFINE Quiet == /\ forge' = forge /\ pushes' = pushes
           Cached == cache' = cache
           Kept == dirs' = dirs
           Told == report' = report
<1>b. /\ Quiet => forge' \in Forge /\ pushes' \in 1 .. MaxPushes
      /\ Cached => cache' \in [read: BOOLEAN, repos: SUBSET Rec]
      /\ Kept => /\ dirs' \in [Names -> Dir]
                 /\ \A n \in Names : dirs'[n].git => dirs'[n].follows \in Branches \cup {"HEAD"}
      /\ Told => report' \in [Names -> Report]
  BY <1>0 DEF IInv
<1>f. forge \in Forge
  BY <1>0
<1>1. CASE UNCHANGED vars
  <2>1. RunOK' /\ run' = run
    BY <1>1 DEF IInv, RunOK, Running, vars
  <2> QED
    BY <1>0, <1>1, <1>a, <1>b, <2>1 DEF vars
<1>2. ASSUME NEW k \in Keys, Push(k) PROVE IInv'
  <2>1. pushes' \in 1 .. MaxPushes
    BY <1>2 DEF Push, IInv
  <2>2. forge' \in Forge
    <3>1. forge[k].default \in Branches /\ forge[k].heads \in [Branches -> CommitType]
      BY <1>0 DEF Forge
    <3>2. pushes' \in CommitType
      BY <2>1 DEF CommitType, Commits
    <3> DEFINE heads == [forge[k].heads EXCEPT ![forge[k].default] = pushes']
    <3>3. heads \in [Branches -> CommitType]
      BY <3>1, <3>2
    <3>4. forge' = [forge EXCEPT ![k] = [forge[k] EXCEPT !.heads = heads]]
      BY <1>2 DEF Push
    <3> HIDE DEF heads
    <3>5. [forge[k] EXCEPT !.heads = heads]
            \in [name: Names \cup {Gone}, default: Branches, heads: [Branches -> CommitType]]
      <4>1. forge[k] \in [name: Names \cup {Gone}, default: Branches, heads: [Branches -> CommitType]]
        BY <1>f DEF Forge
      <4> QED
        BY <3>3, <4>1
    <3> QED
      BY <1>f, <3>4, <3>5 DEF Forge
  <2>3. RunOK' /\ run'.pc \in {"idle", "checkouts", "ended", "stopped"}
    <3>1. Seen
      BY <1>2 DEF Push
    <3>2. run'.pc = run.pc \/ Running'
      BY <3>1, SeenType DEF Seen, Running
    <3> QED
      BY <1>0, <3>1, <3>2, SeenType DEF Running
  <2>4. Cached /\ Kept /\ Told
    BY <1>2 DEF Push
  <2> QED
    BY <1>a, <1>b, <2>1, <2>2, <2>3, <2>4
<1>3. ASSUME NEW k \in Keys, NEW n \in Names \cup {Gone}, Rename(k, n) PROVE IInv'
  <2>1. forge' \in Forge
    BY <1>f, <1>3 DEF Rename, Forge
  <2>2. RunOK' /\ run'.pc \in {"idle", "checkouts", "ended", "stopped"}
    <3>1. Seen
      BY <1>3 DEF Rename
    <3>2. run'.pc = run.pc \/ Running'
      BY <3>1, SeenType DEF Seen, Running
    <3> QED
      BY <1>0, <3>1, <3>2, SeenType DEF Running
  <2>3. pushes' = pushes /\ Cached /\ Kept /\ Told
    BY <1>3 DEF Rename
  <2>4. pushes' \in 1 .. MaxPushes
    BY <2>3 DEF IInv
  <2> QED
    BY <1>a, <1>b, <2>1, <2>2, <2>3, <2>4
<1>4. ASSUME NEW k \in Keys, NEW branch \in Branches, NEW stays \in BOOLEAN,
             MoveDefault(k, branch, stays)
      PROVE  IInv'
  <2>1. forge' \in Forge
    <3> DEFINE heads == [b \in Branches |->
                           IF b = branch THEN forge[k].heads[forge[k].default]
                           ELSE IF stays THEN forge[k].heads[b] ELSE Never]
    <3>1. forge[k].default \in Branches /\ forge[k].heads \in [Branches -> CommitType]
      BY <1>0 DEF Forge
    <3>2. heads \in [Branches -> CommitType]
      BY <3>1 DEF CommitType
    <3>3. forge' = [forge EXCEPT ![k] = [forge[k] EXCEPT !.default = branch, !.heads = heads]]
      BY <1>0, <1>4 DEF MoveDefault, Forge
    <3> HIDE DEF heads
    <3>4. [forge[k] EXCEPT !.default = branch, !.heads = heads]
            \in [name: Names \cup {Gone}, default: Branches, heads: [Branches -> CommitType]]
      <4>1. forge[k] \in [name: Names \cup {Gone}, default: Branches, heads: [Branches -> CommitType]]
        BY <1>0 DEF Forge
      <4> QED
        BY <3>2, <4>1
    <3> QED
      BY <1>0, <3>3, <3>4 DEF Forge
  <2>2. RunOK' /\ run'.pc \in {"idle", "checkouts", "ended", "stopped"}
    <3>1. Seen
      BY <1>4 DEF MoveDefault
    <3>2. run'.pc = run.pc \/ Running'
      BY <3>1, SeenType DEF Seen, Running
    <3> QED
      BY <1>0, <3>1, <3>2, SeenType DEF Running
  <2>3. pushes' = pushes /\ Cached /\ Kept /\ Told
    BY <1>4 DEF MoveDefault
  <2>4. pushes' \in 1 .. MaxPushes
    BY <2>3 DEF IInv
  <2> QED
    BY <1>a, <1>b, <2>1, <2>2, <2>3, <2>4
<1>5. ASSUME NEW command \in Commands, Start(command) PROVE IInv'
  <2>1. Quiet /\ Kept /\ Told
    BY <1>5 DEF Start
  <2>2. Listing \in SUBSET Rec /\ cache.repos \in SUBSET Rec
    BY ListingType DEF IInv
  <2>3. CASE Syncs(command)
    <3>1. cache' = [read |-> TRUE, repos |-> Listing] /\ run' = Started(command, cache, Listing)
      BY <1>5, <2>3 DEF Start
    <3>2. RunOK' /\ run'.pc = "checkouts"
      BY <2>2, <3>1, StartedType
    <3> QED
      BY <1>a, <1>b, <2>1, <2>2, <3>1, <3>2
  <2>4. CASE ~Syncs(command) /\ cache.read
    <3>1. Cached /\ run' = Started(command, cache, cache.repos)
      BY <1>5, <2>4 DEF Start
    <3>2. RunOK' /\ run'.pc = "checkouts"
      BY <2>2, <3>1, StartedType
    <3> QED
      BY <1>a, <1>b, <2>1, <3>1, <3>2
  <2>5. CASE ~Syncs(command) /\ ~cache.read
    <3>1. Cached /\ run'.pc = "stopped"
      BY <1>5, <2>5 DEF Start
    <3> QED
      BY <1>a, <1>b, <2>1, <3>1, NotRunningType
  <2> QED
    BY <2>3, <2>4, <2>5
<1>6. ASSUME NEW command \in Commands, StartFails(command) PROVE IInv'
  <2>1. Quiet /\ Cached /\ Kept /\ Told /\ run'.pc = "stopped"
    BY <1>6 DEF StartFails
  <2> QED
    BY <1>a, <1>b, <2>1, NotRunningType
<1>7. ASSUME NEW n \in Names, Look(n) PROVE IInv'
  <2>1. Quiet /\ Cached /\ Kept /\ Told
    BY <1>7 DEF Look
  <2>2. RunOK' /\ Running'
    BY <1>7, GoesType DEF Look, At, Goes, Steps
  <2> QED
    BY <1>a, <1>b, <2>1, <2>2 DEF Running
<1>8. ASSUME NEW n \in Names, Fetch(n) PROVE IInv'
  <2>1. Quiet /\ Cached /\ Told
    BY <1>8 DEF Fetch
  <2>2. RunOK' /\ Running'
    BY <1>8, GoesType DEF Fetch, Works, At, Goes, Steps
  <2>3. Remote(forge, n, dirs[n].follows) \in CommitType
    BY <1>8, RemoteType DEF Fetch, IInv
  <2>4. dirs' = dirs \/ dirs' = [dirs EXCEPT ![n] =
                          [dirs[n] EXCEPT !.fetched = Remote(forge, n, dirs[n].follows)]]
    BY <1>8 DEF Fetch
  <2>5. /\ dirs' \in [Names -> Dir]
        /\ \A m \in Names : dirs'[m].git => dirs'[m].follows \in Branches \cup {"HEAD"}
    <3>1. CASE dirs' = dirs
      BY <1>b, <3>1
    <3>2. CASE dirs' # dirs
      <4> DEFINE d == [dirs[n] EXCEPT !.fetched = Remote(forge, n, dirs[n].follows)]
      <4>1. d \in Dir /\ d.git = dirs[n].git /\ d.follows = dirs[n].follows
        <5>1. dirs[n] \in Dir
          BY <1>0
        <5> QED
          BY <2>3, <5>1, FetchedType
      <4>2. dirs' = [dirs EXCEPT ![n] = d]
        BY <2>4, <3>2
      <4> HIDE DEF d
      <4> QED
        BY <1>0, <4>1, <4>2, EditDir DEF IInv
    <3> QED
      BY <3>1, <3>2
  <2> QED
    BY <1>a, <1>b, <2>1, <2>2, <2>5 DEF Running
<1>9. ASSUME NEW n \in Names, Clone(n) PROVE IInv'
  <2>1. Quiet /\ Cached /\ Told
    BY <1>9 DEF Clone
  <2>2. RunOK' /\ Running'
    BY <1>9, GoesType DEF Clone, At, Goes, Steps
  <2>3. run.branch[n] \in Branches
    BY <1>9 DEF Clone, At, IInv, RunOK
  <2>4. Remote(forge, n, run.branch[n]) \in CommitType
    BY <2>3, RemoteType DEF IInv
  <2> DEFINE cloned == [Missing EXCEPT !.git = TRUE, !.head = Remote(forge, n, run.branch[n]),
                                       !.follows = run.branch[n]]
  <2>5. /\ Missing \in Dir /\ ~Missing.git
        /\ cloned \in Dir /\ cloned.follows \in Branches
    BY <2>3, <2>4 DEF Missing, Dir, CommitType, TreeType
  <2>6. \E d \in Dir : /\ dirs' = [dirs EXCEPT ![n] = d]
                       /\ d.git => d.follows \in Branches \cup {"HEAD"}
    BY <1>9, <2>5 DEF Clone
  <2>7. /\ dirs' \in [Names -> Dir]
        /\ \A m \in Names : dirs'[m].git => dirs'[m].follows \in Branches \cup {"HEAD"}
    BY <1>0, <2>6 DEF IInv
  <2> QED
    BY <1>a, <1>b, <2>1, <2>2, <2>7 DEF Running
<1>10. ASSUME NEW n \in Names, Sparse(n) PROVE IInv'
  <2>1. Quiet /\ Cached /\ Kept /\ Told
    BY <1>10 DEF Sparse
  <2>2. RunOK' /\ Running'
    BY <1>10, GoesType DEF Sparse, At, Goes, Steps
  <2> QED
    BY <1>a, <1>b, <2>1, <2>2 DEF Running
<1>11. ASSUME NEW n \in Names, Write(n) PROVE IInv'
  <2>1. Quiet /\ Cached /\ Told
    BY <1>11 DEF Write
  <2>2. RunOK' /\ Running'
    BY <1>11, GoesType DEF Write, Works, At, Goes, Steps
  <2>3. dirs[n] \in Dir /\ CommitType \subseteq TreeType
    BY <1>0 DEF CommitType, TreeType
  <2>4. PICK d \in Dir : /\ dirs' = [dirs EXCEPT ![n] = d]
                         /\ d.git = dirs[n].git /\ d.follows = dirs[n].follows
    <3>1. \/ \E litter \in SUBSET dirs[n].litter :
               dirs' = [dirs EXCEPT ![n] = [dirs[n] EXCEPT !.tree = dirs[n].fetched,
                                                    !.head = dirs[n].fetched, !.litter = litter]]
          \/ dirs' = [dirs EXCEPT ![n] = [dirs[n] EXCEPT !.tree = dirs[n].head]]
      BY <1>0, <1>11 DEF Write, ResetTo, Dir
    <3>2. /\ dirs[n].fetched \in CommitType /\ dirs[n].head \in CommitType
          /\ SUBSET dirs[n].litter \subseteq SUBSET CommitType
      BY <2>3 DEF Dir
    <3>3. CASE dirs' = [dirs EXCEPT ![n] = [dirs[n] EXCEPT !.tree = dirs[n].head]]
      <4> DEFINE d == [dirs[n] EXCEPT !.tree = dirs[n].head]
      <4>1. d \in Dir /\ d.git = dirs[n].git /\ d.follows = dirs[n].follows
        BY <2>3, <3>2, WrittenType
      <4>2. dirs' = [dirs EXCEPT ![n] = d]
        BY <3>3
      <4> HIDE DEF d
      <4> QED
        BY <4>1, <4>2
    <3>4. ASSUME NEW litter \in SUBSET dirs[n].litter,
                 dirs' = [dirs EXCEPT ![n] = [dirs[n] EXCEPT !.tree = dirs[n].fetched,
                                                      !.head = dirs[n].fetched, !.litter = litter]]
          PROVE  \E d \in Dir : /\ dirs' = [dirs EXCEPT ![n] = d]
                                /\ d.git = dirs[n].git /\ d.follows = dirs[n].follows
      <4> DEFINE d == [dirs[n] EXCEPT !.tree = dirs[n].fetched, !.head = dirs[n].fetched,
                                      !.litter = litter]
      <4>0. /\ dirs[n] \in Dir /\ litter \in SUBSET CommitType
            /\ dirs[n].fetched \in CommitType /\ dirs[n].fetched \in TreeType
        BY <2>3, <3>2
      <4>1. d \in Dir /\ d.git = dirs[n].git /\ d.follows = dirs[n].follows
        BY <4>0 DEF Dir
      <4>2. dirs' = [dirs EXCEPT ![n] = d]
        BY <3>4
      <4> HIDE DEF d
      <4> QED
        BY <4>1, <4>2
    <3> QED
      BY <3>1, <3>3, <3>4
  <2>5. /\ dirs' \in [Names -> Dir]
        /\ \A m \in Names : dirs'[m].git => dirs'[m].follows \in Branches \cup {"HEAD"}
    BY <1>0, <2>4, EditDir DEF IInv
  <2> QED
    BY <1>a, <1>b, <2>1, <2>2, <2>5 DEF Running
<1>12. ASSUME NEW n \in Names, Head(n) PROVE IInv'
  <2>1. Quiet /\ Cached /\ Kept /\ Told
    BY <1>12 DEF Head
  <2>2. DOMAIN run = RunFields /\ Running
    BY <1>12 DEF Head, At, IInv, RunOK
  <2>3. dirs[n].head \in CommitType
    BY <1>0 DEF Dir
  <2>4. CASE dirs[n].head = Never
    <3>1. RunOK' /\ Running'
      BY <1>12, <2>4, GoesType DEF Head, At, Steps
    <3> QED
      BY <1>a, <1>b, <2>1, <3>1 DEF Running
  <2>5. CASE dirs[n].head # Never
    <3>1. run' = [run EXCEPT !.at[n] = "ok", !.commit[n] = dirs[n].head]
      BY <1>12, <2>5 DEF Head
    <3>2. /\ DOMAIN run' = RunFields /\ run'.at = [run.at EXCEPT ![n] = "ok"]
          /\ run'.commit = [run.commit EXCEPT ![n] = dirs[n].head]
          /\ run'.pc = run.pc /\ run'.command = run.command /\ run'.before = run.before
          /\ run'.listed = run.listed /\ run'.change = run.change /\ run'.branch = run.branch
      BY <2>2, <3>1 DEF RunFields
    <3>3. /\ run.at \in [RecordIds(run.listed) -> Steps] /\ "ok" \in Steps
          /\ run.commit \in [RecordIds(run.listed) -> CommitType]
      BY <2>2 DEF IInv, RunOK, Steps
    <3>4. /\ run'.at \in [RecordIds(run.listed) -> Steps]
          /\ run'.commit \in [RecordIds(run.listed) -> CommitType]
      BY <2>3, <3>2, <3>3
    <3>5. RunOK' /\ Running'
      BY <2>2, <3>2, <3>4 DEF IInv, RunOK, Running
    <3> QED
      BY <1>a, <1>b, <2>1, <3>5 DEF Running
  <2> QED
    BY <2>4, <2>5
<1>13. CASE Finish
  <2>1. Quiet /\ Cached /\ Kept
    BY <1>13 DEF Finish
  <2>2. run'.pc \in {"stopped", "ended"}
    <3>1. \/ run' = [pc |-> "stopped", code |-> 2]
          \/ \E code \in {0, 2} :
               run' = [pc |-> "ended", command |-> run.command, commit |-> run.commit,
                       branch |-> run.branch, had |-> run.had, listed |-> run.listed,
                       code |-> code]
      BY <1>13 DEF Finish
    <3> QED
      BY <3>1
  <2>3. report' = report \/ report' = [n \in Names |->
                                         IF n \in Scanned
                                         THEN [commit |-> run.commit[n], tree |-> dirs[n].tree,
                                               litter |-> dirs[n].litter]
                                         ELSE NoReport]
    BY <1>13 DEF Finish
  <2>4. \A n \in Names : n \in Scanned =>
           /\ run.commit[n] \in CommitType /\ dirs[n].tree \in TreeType
           /\ dirs[n].litter \in SUBSET CommitType
    BY <1>0, <1>13 DEF Scanned, IInv, RunOK, Finish, Dir
  <2>5. NoReport \in Report
    BY DEF NoReport, Report, CommitType, TreeType
  <2>6. report' \in [Names -> Report]
    BY <1>0, <2>3, <2>4, <2>5 DEF Report
  <2> QED
    BY <1>a, <1>b, <2>1, <2>2, <2>6, NotRunningType
<1>14. ASSUME NEW n \in Names, GitFails(n) PROVE IInv'
  <2>1. Quiet /\ Cached /\ Told
    BY <1>14 DEF GitFails
  <2>2. RunOK' /\ Running'
    BY <1>14, GoesType DEF GitFails, Goes, Steps
  <2>3. Missing \in Dir /\ ~Missing.git
    BY DEF Missing, Dir, CommitType, TreeType
  <2>4. PICK left \in {Missing} \cup LeftBehind(n) : dirs' = [dirs EXCEPT ![n] = left]
    BY <1>14 DEF GitFails
  <2>5. left \in Dir /\ (left.git => left.follows \in Branches \cup {"HEAD"})
    BY <1>14, <2>3, LeftType DEF GitFails
  <2>6. /\ dirs' \in [Names -> Dir]
        /\ \A m \in Names : dirs'[m].git => dirs'[m].follows \in Branches \cup {"HEAD"}
    BY <1>0, <2>4, <2>5, EditDir DEF IInv
  <2> QED
    BY <1>a, <1>b, <2>1, <2>2, <2>6 DEF Running
<1>15. CASE Killed
  <2>1. Quiet /\ Cached /\ Told /\ run'.pc = "stopped" /\ Running
    BY <1>15 DEF Killed
  <2>2. /\ dirs' \in [Names -> UNION {LeftBehind(n) : n \in Names}]
        /\ \A n \in Names : dirs'[n] \in LeftBehind(n)
    BY <1>15 DEF Killed
  <2>3. \A n \in Names : /\ dirs'[n] \in Dir
                         /\ dirs'[n].git => dirs'[n].follows \in Branches \cup {"HEAD"}
    BY <2>1, <2>2, LeftType
  <2>4. dirs' \in [Names -> Dir]
    BY <2>2, <2>3
  <2> QED
    BY <1>a, <1>b, <2>1, <2>3, <2>4, NotRunningType
<1>17. ASSUME NEW n \in Names, Blocked(n) PROVE IInv'
  <2>1. Quiet /\ Cached /\ Kept /\ Told
    BY <1>17 DEF Blocked
  <2>2. RunOK' /\ Running'
    BY <1>17, GoesType DEF Blocked, Goes, Steps
  <2> QED
    BY <1>a, <1>b, <2>1, <2>2 DEF Running
<1>16. ASSUME NEW n \in Names, CheckOut(n) PROVE IInv'
  BY <1>16, <1>7, <1>8, <1>9, <1>10, <1>11, <1>12, <1>17 DEF CheckOut
<1> QED
  BY <1>1, <1>2, <1>3, <1>4, <1>5, <1>6, <1>13, <1>14, <1>15, <1>16 DEF Next, GoesOn

-----------------------------------------------------------------------------
\* The checkouts, the report and the forge keep their types, whatever fails or is killed.
THEOREM TypeCorrect == Spec => []TypeOK
<1>1. IInv /\ [Next]_vars => IInv'
  BY StepInv
<1>2. Init => IInv
  BY InitInv
<1>3. IInv => TypeOK
  BY DEF IInv
<1> QED
  BY <1>1, <1>2, <1>3, PTL DEF Spec

\* What is told of a listing is exact while the run goes on, however the forge changes:
\* InventoryChange::between is given the cache as it was before this run wrote it.
THEOREM ChangesExact == Spec => []ChangesAreExact
<1>1. IInv /\ [Next]_vars => IInv'
  BY StepInv
<1>2. Init => IInv
  BY InitInv
<1>3. IInv => ChangesAreExact
  <2> SUFFICES ASSUME IInv, Running, Syncs(run.command), run.before.read
               PROVE  ChangesAreExact
    BY DEF ChangesAreExact
  <2>1. run.change = Between(run.before.repos, run.listed)
    BY DEF IInv, RunOK
  <2> QED
    BY <2>1, BetweenIsExact DEF ChangesAreExact
<1> QED
  BY <1>1, <1>2, <1>3, PTL DEF Spec
-----------------------------------------------------------------------------
\* A commit the checkout d was given, where the repo's branch was at while the run went on: it
\* is one of those unless the checkout follows a branch that is no longer the default.
InTime(commit, d, branch, had) == d.follows \in {"HEAD", branch} => commit \in had

\* What the steps of a synced checkout leave of it, up to each: what was fetched or cloned is
\* what is then written, and what rev-parse then names.
Whole(at, d, branch, commit, had) ==
    /\ at \in {"sparse, reset", "reset"} => InTime(d.fetched, d, branch, had)
    /\ at \in {"sparse, checkout", "checkout"} => InTime(d.head, d, branch, had)
    /\ at = "head" => d.tree = d.head /\ InTime(d.head, d, branch, had)
    /\ at = "ok" => d.tree = commit /\ InTime(commit, d, branch, had)

WholeAt(n) == Whole(run.at[n], dirs[n], run.branch[n], run.commit[n], run.had[n])

\* Files of another commit are beside a checkout's own, or were read there, only after a fault.
LitterKnown ==
    /\ faults \in Nat
    /\ \A n \in Names : dirs[n].litter # {} \/ report[n].litter # {} => faults > 0

\* SyncedIsWhole is about a run that ended: it is inductive with what the run under way has done
\* of each checkout, and with the run's history of each branch holding where the branch is now.
CourseKept ==
    /\ SyncedIsWhole
    /\ Running =>
         /\ DOMAIN run.had = DOMAIN run.at
         /\ \A n \in DOMAIN run.at : Newest(forge, n, run.branch[n]) \subseteq run.had[n]
         /\ Syncs(run.command) => \A n \in DOMAIN run.at : WholeAt(n)

\* The run's history of a branch only grows.
LEMMA WholeGrows ==
    ASSUME NEW at, NEW d, NEW branch, NEW commit, NEW had, NEW more, had \subseteq more,
           Whole(at, d, branch, commit, had)
    PROVE  Whole(at, d, branch, commit, more)
BY DEF Whole, InTime

\* What a remote answers, of the branch a checkout follows or of the one that was listed, is in
\* the history.
LEMMA AnswersInTime ==
    ASSUME NEW n, NEW branch, NEW d, NEW had, Newest(forge, n, branch) \subseteq had
    PROVE  /\ InTime(Remote(forge, n, d.follows), d, branch, had)
           /\ InTime(Remote(forge, n, branch), d, branch, had)
BY DEF Newest, InTime

\* A step of one checkout in the run under way, and what is known of its commit after.
Moves(n, step, commit) ==
    \/ run' = [run EXCEPT !.at[n] = step] /\ commit = run.commit[n]
    \/ run' = [run EXCEPT !.at[n] = step, !.commit[n] = commit]

\* What each field of a run is after a step of it.
LEMMA RunMoved ==
    ASSUME IInv, Running, NEW n \in DOMAIN run.at, NEW step, NEW commit,
           Moves(n, step, commit)
    PROVE  /\ run'.pc = run.pc /\ run'.command = run.command /\ run'.branch = run.branch
           /\ run'.had = run.had /\ DOMAIN run'.at = DOMAIN run.at
           /\ run'.at[n] = step /\ run'.commit[n] = commit
           /\ \A m \in DOMAIN run.at : m # n => /\ run'.at[m] = run.at[m]
                                               /\ run'.commit[m] = run.commit[m]
<1>1. /\ DOMAIN run = RunFields /\ DOMAIN run.commit = DOMAIN run.at
  BY DEF IInv, RunOK
<1>2. CASE run' = [run EXCEPT !.at[n] = step] /\ commit = run.commit[n]
  <2>1. /\ run'.pc = run.pc /\ run'.command = run.command /\ run'.branch = run.branch
        /\ run'.had = run.had /\ run'.commit = run.commit
        /\ run'.at = [run.at EXCEPT ![n] = step]
    BY <1>1, <1>2 DEF RunFields
  <2> QED
    BY <1>2, <2>1
<1>3. CASE run' = [run EXCEPT !.at[n] = step, !.commit[n] = commit]
  <2>1. /\ run'.pc = run.pc /\ run'.command = run.command /\ run'.branch = run.branch
        /\ run'.had = run.had /\ run'.commit = [run.commit EXCEPT ![n] = commit]
        /\ run'.at = [run.at EXCEPT ![n] = step]
    BY <1>1, <1>3 DEF RunFields
  <2> QED
    BY <1>1, <2>1
<1> QED
  BY <1>2, <1>3 DEF Moves

\* A step of one checkout of the run under way keeps what is said of all.
LEMMA OneCheckout ==
    ASSUME IInv, CourseKept, Running, NEW n \in DOMAIN run.at, NEW step, NEW commit,
           Moves(n, step, commit),
           forge' = forge,
           \A m \in DOMAIN run.at : m # n => dirs'[m] = dirs[m],
           Syncs(run.command) => Whole(step, dirs'[n], run.branch[n], commit, run.had[n])
    PROVE  CourseKept'
<1>1. /\ run'.pc = run.pc /\ run'.command = run.command /\ run'.branch = run.branch
      /\ run'.had = run.had /\ DOMAIN run'.at = DOMAIN run.at
      /\ run'.at[n] = step /\ run'.commit[n] = commit
      /\ \A m \in DOMAIN run.at : m # n => /\ run'.at[m] = run.at[m]
                                          /\ run'.commit[m] = run.commit[m]
  BY RunMoved, Zenon
<1>2. SyncedIsWhole'
  BY <1>1 DEF SyncedIsWhole, SyncedReport, Running
<1>3. Running' /\ DOMAIN run'.had = DOMAIN run'.at
  BY <1>1 DEF Running, CourseKept
<1>4. \A m \in DOMAIN run'.at : Newest(forge', m, run'.branch[m]) \subseteq run'.had[m]
  BY <1>1 DEF CourseKept
<1>5. ASSUME Syncs(run.command), NEW m \in DOMAIN run.at PROVE WholeAt(m)'
  <2>1. CASE m = n
    BY <1>1, <1>5, <2>1 DEF WholeAt
  <2>2. CASE m # n
    BY <1>1, <1>5, <2>2 DEF WholeAt, CourseKept
  <2> QED
    BY <2>1, <2>2
<1>6. Syncs(run'.command) <=> Syncs(run.command)
  BY <1>1
<1> QED
  BY <1>1, <1>2, <1>3, <1>4, <1>5, <1>6 DEF CourseKept

\* What people do to the forge is in the history, and no checkout or report changes.
LEMMA PeopleKeepCourse ==
    ASSUME IInv, CourseKept, Seen, dirs' = dirs, report' = report, faults' = faults
    PROVE  CourseKept'
<1>1. CASE ~Running
  <2>1. run' = run
    BY <1>1 DEF Seen
  <2>2. SyncedIsWhole'
    BY <2>1 DEF CourseKept, SyncedIsWhole, SyncedReport, Reported, Follows
  <2> QED
    BY <1>1, <2>1, <2>2 DEF CourseKept, Running
<1>2. CASE Running
  <2>1. run' = [run EXCEPT !.had = [n \in DOMAIN run.had |->
                   run.had[n] \cup Newest(forge', n, run.branch[n])]]
    BY <1>2 DEF Seen
  <2>2. DOMAIN run = RunFields /\ DOMAIN run.had = DOMAIN run.at
    BY <1>2 DEF IInv, RunOK, CourseKept
  <2>3. /\ run'.pc = run.pc /\ run'.command = run.command /\ run'.branch = run.branch
        /\ run'.at = run.at /\ run'.commit = run.commit
        /\ run'.had = [n \in DOMAIN run.had |-> run.had[n] \cup Newest(forge', n, run.branch[n])]
    BY <2>1, <2>2 DEF RunFields
  <2>4. /\ DOMAIN run'.had = DOMAIN run'.at
        /\ \A n \in DOMAIN run.at : /\ run.had[n] \subseteq run'.had[n]
                                    /\ Newest(forge', n, run'.branch[n]) \subseteq run'.had[n]
    BY <2>2, <2>3
  <2>5. ASSUME Syncs(run.command), NEW n \in DOMAIN run.at PROVE WholeAt(n)'
    <3>1. Whole(run.at[n], dirs[n], run.branch[n], run.commit[n], run.had[n])
      BY <1>2, <2>5 DEF CourseKept, WholeAt
    <3>2. Whole(run.at[n], dirs[n], run.branch[n], run.commit[n], run'.had[n])
      BY <2>4, <3>1, WholeGrows
    <3> QED
      BY <2>3, <3>2 DEF WholeAt
  <2>6. SyncedIsWhole' /\ Running'
    BY <1>2, <2>3 DEF SyncedIsWhole, SyncedReport, Running
  <2>7. Syncs(run'.command) <=> Syncs(run.command)
    BY <2>3
  <2> QED
    BY <2>3, <2>4, <2>5, <2>6, <2>7 DEF CourseKept
<1> QED
  BY <1>1, <1>2

\* A run that stops leaves nothing to say.
LEMMA StoppedCourse == ASSUME run'.pc \in {"idle", "stopped"} PROVE CourseKept'
BY DEF CourseKept, SyncedIsWhole, SyncedReport, Running

\* A run starts with nothing done, and with the history of where each branch is.
LEMMA StartedCourse ==
    ASSUME NEW command, NEW before, NEW listed, forge' = forge,
           run' = Started(command, before, listed)
    PROVE  CourseKept'
<1> DEFINE D == RecordIds(listed)
<1>1. /\ run'.pc = "checkouts"
      /\ run'.branch = [n \in D |-> (CHOOSE r \in listed : r.id = n).branch]
      /\ run'.at = [n \in D |-> "look"]
      /\ run'.had = [n \in D |-> Newest(forge, n, (CHOOSE r \in listed : r.id = n).branch)]
  BY DEF Started
<1> HIDE DEF D
<1>2. /\ DOMAIN run'.at = D /\ DOMAIN run'.had = D
      /\ \A n \in D : /\ run'.at[n] = "look"
                      /\ Newest(forge', n, run'.branch[n]) \subseteq run'.had[n]
  BY <1>1
<1>3. \A n \in D : WholeAt(n)'
  BY <1>2 DEF WholeAt, Whole
<1> QED
  BY <1>1, <1>2, <1>3 DEF CourseKept, SyncedIsWhole, SyncedReport, Running

\* A run that ends says of each checkout what its steps left, and of no repo that was not listed.
LEMMA FinishCourse == ASSUME IInv, LitterKnown, CourseKept, Finish PROVE CourseKept'
<1>1. Running /\ dirs' = dirs /\ faults' = faults
  BY DEF Finish
<1>2. CASE run' = [pc |-> "stopped", code |-> 2]
  BY <1>2, StoppedCourse
<1>3. CASE run' # [pc |-> "stopped", code |-> 2]
  <2> DEFINE whole == IF run.command = "fleet sync"
                      THEN {n \in DOMAIN run.at : run.at[n] = "failed"} = {}
                      ELSE Scanned = DOMAIN run.at /\ Scanned # {}
  <2>1. /\ run' = [pc |-> "ended", command |-> run.command, commit |-> run.commit,
                   branch |-> run.branch, had |-> run.had, listed |-> run.listed,
                   code |-> IF whole THEN 0 ELSE 2]
        /\ report' = IF run.command = "fleet sync" THEN report
                     ELSE [n \in Names |->
                             IF n \in Scanned
                             THEN [commit |-> run.commit[n], tree |-> dirs[n].tree,
                                   litter |-> dirs[n].litter]
                             ELSE NoReport]
    BY <1>3 DEF Finish
  <2> HIDE DEF whole
  <2>2. /\ run'.pc = "ended" /\ run'.command = run.command /\ run'.commit = run.commit
        /\ run'.branch = run.branch /\ run'.had = run.had /\ run'.listed = run.listed
        /\ run'.code = IF whole THEN 0 ELSE 2
    BY <2>1
  <2>3. ~Running'
    BY <2>2 DEF Running
  <2>a. whole \/ run'.code # 0
    <3> SUFFICES ASSUME ~whole PROVE run'.code # 0
      BY Zenon
    <3>1. run'.code = 2
      BY <2>2, Zenon
    <3> QED
      BY <3>1
  <2>4. SyncedIsWhole'
    <3> SUFFICES ASSUME run.command = "scan --sync" PROVE SyncedIsWhole'
      BY <2>2 DEF SyncedIsWhole, SyncedReport
    <3>1. report' = [n \in Names |-> IF n \in Scanned
                                     THEN [commit |-> run.commit[n], tree |-> dirs[n].tree,
                                           litter |-> dirs[n].litter]
                                     ELSE NoReport]
      BY <2>1
    <3>2. Scanned \subseteq DOMAIN run.at /\ DOMAIN run.at = RecordIds(run.listed)
      BY <1>1 DEF Scanned, IInv, RunOK
    <3>3. RecordIds(run.listed) \subseteq Names
      BY <1>1 DEF IInv, RunOK, RecordIds, Rec
    <3>4. \A n \in Names : n \notin Scanned => report'[n] = NoReport
      BY <3>1
    <3>5. \A n \in Scanned : /\ report'[n].commit = run.commit[n]
                             /\ report'[n].tree = dirs[n].tree
                             /\ report'[n].tree # Never
                             /\ report'[n].litter # {} => faults' > 0
      BY <1>1, <3>1, <3>2, <3>3 DEF Scanned, LitterKnown
    <3>6. \A n \in Scanned : report'[n] # NoReport
      <4>1. NoReport.tree = Never
        BY DEF NoReport
      <4> QED
        BY <3>5, <4>1, Zenon
    <3>7. Reported' = Scanned
      BY <3>2, <3>3, <3>4, <3>6 DEF Reported
    <3>8. \A n \in Scanned : /\ dirs[n].tree = run.commit[n]
                             /\ InTime(run.commit[n], dirs[n], run.branch[n], run.had[n])
      <4>1. \A n \in Scanned : run.at[n] = "ok" /\ WholeAt(n)
        BY <1>1, <3>2 DEF CourseKept, Syncs, Scanned
      <4> QED
        BY <4>1 DEF WholeAt, Whole
    <3>9. \A n \in Reported' : /\ report'[n].tree = report'[n].commit
                               /\ report'[n].litter # {} => faults' > 0
                               /\ Follows(n)' => report'[n].commit \in run'.had[n]
      BY <1>1, <2>2, <3>5, <3>7, <3>8 DEF Follows, InTime
    <3>10. Reported' \subseteq RecordIds(run'.listed)
      BY <2>2, <3>2, <3>7
    <3>11. run'.code = 0 => Reported' = RecordIds(run'.listed)
      <4>1. run'.code = 0 => whole
        BY <2>a, Zenon
      <4>2. whole => Scanned = DOMAIN run.at
        BY DEF whole
      <4>3. run'.listed = run.listed
        BY <2>2
      <4> HIDE DEF whole
      <4> QED
        BY <3>2, <3>7, <4>1, <4>2, <4>3, Zenon
    <3> QED
      BY <3>9, <3>10, <3>11 DEF SyncedIsWhole
  <2> QED
    BY <2>3, <2>4 DEF CourseKept
<1> QED
  BY <1>2, <1>3

\* Each git command of a checkout.
LEMMA CheckOutCourse == ASSUME IInv, CourseKept, NEW n \in Names, CheckOut(n) PROVE CourseKept'
<1> DEFINE d == dirs[n]
           branch == run.branch[n]
           had == run.had[n]
<1>0. /\ Running /\ n \in DOMAIN run.at /\ dirs \in [Names -> Dir]
      /\ forge' = forge
      /\ Newest(forge, n, branch) \subseteq had
      /\ Syncs(run.command) => WholeAt(n)
  <2>1. Running /\ n \in DOMAIN run.at /\ forge' = forge
    BY DEF CheckOut, Look, Fetch, Clone, Sparse, Write, Head, Blocked, Works, At
  <2>2. dirs \in [Names -> Dir]
    BY DEF IInv, TypeOK, Dir, CommitType, TreeType
  <2> QED
    BY <2>1, <2>2 DEF CourseKept
<1>b. ASSUME NEW step, NEW e,
             Goes(n, step), dirs' = [dirs EXCEPT ![n] = e],
             Syncs(run.command) => Whole(step, e, branch, run.commit[n], had)
      PROVE  CourseKept'
  <2>1. dirs'[n] = e /\ \A m \in DOMAIN run.at : m # n => dirs'[m] = dirs[m]
    <3>1. DOMAIN run.at \subseteq Names
      BY <1>0 DEF IInv, RunOK, RecordIds, Rec
    <3> QED
      BY <1>0, <1>b, <3>1
  <2>2. Moves(n, step, run.commit[n])
    BY <1>b DEF Goes, Moves
  <2> HIDE DEF d, branch, had
  <2> QED
    BY <1>0, <1>b, <2>1, <2>2, OneCheckout DEF branch, had
<1>c. ASSUME NEW step, Goes(n, step), dirs' = dirs,
             Syncs(run.command) => Whole(step, d, branch, run.commit[n], had)
      PROVE  CourseKept'
  <2>1. dirs' = [dirs EXCEPT ![n] = d]
    BY <1>0, <1>c
  <2> HIDE DEF d, branch, had
  <2> QED
    BY <1>b, <1>c, <2>1
<1>d. \A e, commit : Whole("failed", e, branch, commit, had)
  BY DEF Whole
<1>1. CASE Look(n)
  <2>1. ~Syncs(run.command) /\ dirs' = dirs /\ \E step : Goes(n, step)
    BY <1>1 DEF Look
  <2> QED
    BY <1>c, <2>1
<1>2. CASE Fetch(n)
  <2> DEFINE commit == Remote(forge, n, d.follows)
  <2>1. \/ Goes(n, "failed") /\ dirs' = dirs
        \/ Goes(n, "sparse, reset") /\ dirs' = [dirs EXCEPT ![n] = [d EXCEPT !.fetched = commit]]
    BY <1>2 DEF Fetch
  <2>2. InTime(commit, d, branch, had)
    BY <1>0, AnswersInTime
  <2> DEFINE e == [d EXCEPT !.fetched = commit]
  <2>3. e.follows = d.follows /\ e.fetched = commit
    BY <1>0 DEF Dir
  <2>4. Whole("sparse, reset", e, branch, run.commit[n], had)
    BY <2>2, <2>3 DEF Whole, InTime
  <2> HIDE DEF d, branch, had, e
  <2> QED
    BY <1>b, <1>c, <1>d, <2>1, <2>4 DEF e
<1>3. CASE Clone(n)
  <2> DEFINE commit == Remote(forge, n, branch)
             e == [Missing EXCEPT !.git = TRUE, !.head = commit, !.follows = branch]
  <2>1. \/ Goes(n, "failed") /\ dirs' = [dirs EXCEPT ![n] = Missing]
        \/ Goes(n, "sparse, checkout") /\ dirs' = [dirs EXCEPT ![n] = e]
    BY <1>3 DEF Clone
  <2>2. InTime(commit, e, branch, had)
    BY <1>0, AnswersInTime
  <2>3. e.head = commit
    BY DEF Missing
  <2>4. Whole("sparse, checkout", e, branch, run.commit[n], had)
    BY <2>2, <2>3 DEF Whole
  <2> HIDE DEF d, branch, had, e
  <2> QED
    BY <1>b, <1>d, <2>1, <2>4
<1>4. CASE Sparse(n)
  <2>1. \/ run.at[n] = "sparse, reset" /\ Goes(n, "reset")
        \/ run.at[n] = "sparse, checkout" /\ Goes(n, "checkout")
    BY <1>4 DEF Sparse, At
  <2>2. dirs' = dirs
    BY <1>4 DEF Sparse
  <2>3. CASE run.at[n] = "sparse, reset" /\ Goes(n, "reset")
    <3>1. Syncs(run.command) => Whole("reset", d, branch, run.commit[n], had)
      BY <1>0, <2>3 DEF WholeAt, Whole
    <3> HIDE DEF d, branch, had
    <3> QED
      BY <1>c, <2>2, <2>3, <3>1
  <2>4. CASE run.at[n] = "sparse, checkout" /\ Goes(n, "checkout")
    <3>1. Syncs(run.command) => Whole("checkout", d, branch, run.commit[n], had)
      BY <1>0, <2>4 DEF WholeAt, Whole
    <3> HIDE DEF d, branch, had
    <3> QED
      BY <1>c, <2>2, <2>4, <3>1
  <2> QED
    BY <2>1, <2>3, <2>4
<1>5. CASE Write(n)
  <2>0. Goes(n, "head") /\ d \in Dir
    BY <1>0, <1>5 DEF Write
  <2>1. CASE Works(n, "reset") /\ ResetTo(n)
    <3>0. PICK litter \in SUBSET d.litter :
            dirs' = [dirs EXCEPT ![n] = [d EXCEPT !.tree = d.fetched, !.head = d.fetched,
                                                  !.litter = litter]]
      BY <1>0, <2>1 DEF ResetTo, Dir
    <3> DEFINE e == [d EXCEPT !.tree = d.fetched, !.head = d.fetched, !.litter = litter]
    <3>1. dirs' = [dirs EXCEPT ![n] = e]
      BY <3>0
    <3>2. e.tree = d.fetched /\ e.head = d.fetched /\ e.follows = d.follows
      BY <2>0 DEF Dir
    <3>3. Syncs(run.command) => Whole("head", e, branch, run.commit[n], had)
      BY <1>0, <2>1, <3>2 DEF Works, At, WholeAt, Whole, InTime
    <3> HIDE DEF d, branch, had, e
    <3> QED
      BY <1>b, <2>0, <3>1, <3>3
  <2>2. CASE At(n, "checkout") /\ dirs' = [dirs EXCEPT ![n].tree = dirs[n].head]
    <3> DEFINE e == [d EXCEPT !.tree = d.head]
    <3>1. dirs' = [dirs EXCEPT ![n] = e]
      BY <2>2
    <3>2. e.tree = d.head /\ e.head = d.head /\ e.follows = d.follows
      BY <2>0 DEF Dir
    <3>3. Syncs(run.command) => Whole("head", e, branch, run.commit[n], had)
      BY <1>0, <2>2, <3>2 DEF At, WholeAt, Whole, InTime
    <3> HIDE DEF d, branch, had, e
    <3> QED
      BY <1>b, <2>0, <3>1, <3>3
  <2> QED
    BY <1>5, <2>1, <2>2 DEF Write
<1>6. CASE Head(n)
  <2>1. At(n, "head") /\ dirs' = dirs
    BY <1>6 DEF Head
  <2>2. CASE d.head = Never
    <3>1. Goes(n, "failed")
      BY <1>6, <2>2 DEF Head, Goes
    <3> HIDE DEF d, branch, had
    <3> QED
      BY <1>c, <1>d, <2>1, <3>1
  <2>3. CASE d.head # Never
    <3>1. run' = [run EXCEPT !.at[n] = "ok", !.commit[n] = d.head]
      BY <1>6, <2>3 DEF Head
    <3>2. Syncs(run.command) => Whole("ok", d, branch, d.head, had)
      BY <1>0, <2>1 DEF At, WholeAt, Whole
    <3>3. dirs'[n] = d /\ \A m \in DOMAIN run.at : m # n => dirs'[m] = dirs[m]
      BY <2>1
    <3> DEFINE commit == d.head
               step == "ok"
    <3>4. Moves(n, step, commit)
      BY <3>1 DEF Moves
    <3>5. Syncs(run.command) => Whole(step, dirs'[n], run.branch[n], commit, run.had[n])
      BY <3>2, <3>3
    <3> HIDE DEF commit, step, d
    <3> QED
      BY <1>0, <3>3, <3>4, <3>5, OneCheckout
  <2> QED
    BY <2>2, <2>3
<1>7. CASE Blocked(n)
  <2>1. dirs' = dirs /\ Goes(n, "failed")
    BY <1>7 DEF Blocked
  <2> HIDE DEF d, branch, had
  <2> QED
    BY <1>c, <1>d, <2>1
<1> QED
  BY <1>1, <1>2, <1>3, <1>4, <1>5, <1>6, <1>7 DEF CheckOut

\* A fault is counted where it happens; what else changes a checkout or the report brings no
\* files of another commit in.
LEMMA LitterStep == ASSUME IInv, LitterKnown, [Next]_vars PROVE LitterKnown'
<1>0. dirs \in [Names -> Dir] /\ report \in [Names -> Report]
  BY DEF IInv, TypeOK, Dir, Report, CommitType, TreeType
<1>1. CASE faults' = faults + 1
  BY <1>1 DEF LitterKnown
<1>2. CASE faults' = faults /\ dirs' = dirs /\ report' = report
  BY <1>2 DEF LitterKnown
<1>3. ASSUME NEW n \in Names, Fetch(n) \/ Clone(n) \/ Write(n) PROVE LitterKnown'
  <2>1. faults' = faults /\ report' = report
    BY <1>3 DEF Fetch, Clone, Write
  <2>2. \A m \in Names : dirs'[m].litter \subseteq dirs[m].litter
    <3> DEFINE fetched == Remote(forge, n, dirs[n].follows)
               cloned == [Missing EXCEPT !.git = TRUE,
                            !.head = Remote(forge, n, run.branch[n]), !.follows = run.branch[n]]
    <3>1. \/ dirs' = dirs
          \/ dirs' = [dirs EXCEPT ![n] = [dirs[n] EXCEPT !.fetched = fetched]]
          \/ dirs' = [dirs EXCEPT ![n] = Missing]
          \/ dirs' = [dirs EXCEPT ![n] = cloned]
          \/ dirs' = [dirs EXCEPT ![n] = [dirs[n] EXCEPT !.tree = dirs[n].head]]
          \/ \E litter \in SUBSET dirs[n].litter :
               dirs' = [dirs EXCEPT ![n] = [dirs[n] EXCEPT !.tree = dirs[n].fetched,
                                                    !.head = dirs[n].fetched, !.litter = litter]]
      BY <1>0, <1>3 DEF Fetch, Clone, Write, ResetTo
    <3>2. Missing.litter = {} /\ cloned.litter = {}
      BY DEF Missing
    <3>3. dirs[n] \in Dir
      BY <1>0
    <3>4. ASSUME NEW litter \in SUBSET dirs[n].litter,
                 dirs' = [dirs EXCEPT ![n] = [dirs[n] EXCEPT !.tree = dirs[n].fetched,
                                                      !.head = dirs[n].fetched, !.litter = litter]]
          PROVE  dirs'[n].litter \subseteq dirs[n].litter
      BY <1>0, <3>3, <3>4 DEF Dir
    <3>5. [dirs[n] EXCEPT !.fetched = fetched].litter = dirs[n].litter
      BY <3>3 DEF Dir
    <3>6. [dirs[n] EXCEPT !.tree = dirs[n].head].litter = dirs[n].litter
      BY <3>3 DEF Dir
    <3> HIDE DEF fetched, cloned
    <3>7. \A m \in Names : m # n => dirs'[m] = dirs[m]
      BY <1>0, <3>1
    <3>8. dirs'[n].litter \subseteq dirs[n].litter
      BY <1>0, <3>1, <3>2, <3>4, <3>5, <3>6
    <3> QED
      BY <3>7, <3>8
  <2> QED
    BY <2>1, <2>2 DEF LitterKnown
<1>4. CASE Finish
  <2>1. faults' = faults /\ dirs' = dirs
    BY <1>4 DEF Finish
  <2>2. \A n \in Names : report'[n].litter \in {report[n].litter, dirs[n].litter, {}}
    <3>1. \/ report' = report
          \/ report' = [n \in Names |-> IF n \in Scanned
                                        THEN [commit |-> run.commit[n], tree |-> dirs[n].tree,
                                              litter |-> dirs[n].litter]
                                        ELSE NoReport]
      BY <1>4 DEF Finish
    <3> QED
      BY <3>1 DEF NoReport
  <2> QED
    BY <2>1, <2>2 DEF LitterKnown
<1>5. \/ faults' = faults + 1
      \/ faults' = faults /\ dirs' = dirs /\ report' = report
      \/ \E n \in Names : Fetch(n) \/ Clone(n) \/ Write(n)
      \/ Finish
  BY DEF Next, vars, Push, Rename, MoveDefault, Start, StartFails, GoesOn, CheckOut, Look,
         Sparse, Head, Blocked, GitFails, Killed
<1> QED
  BY <1>1, <1>2, <1>3, <1>4, <1>5

LEMMA CourseStep ==
    ASSUME IInv, LitterKnown, CourseKept, [Next]_vars PROVE CourseKept'
<1>1. CASE UNCHANGED vars
  BY <1>1 DEF vars, CourseKept, SyncedIsWhole, SyncedReport, Reported, Follows, Running, WholeAt
<1>2. ASSUME NEW k \in Keys, Push(k) PROVE CourseKept'
  BY <1>2, PeopleKeepCourse DEF Push
<1>3. ASSUME NEW k \in Keys, NEW n \in Names \cup {Gone}, Rename(k, n) PROVE CourseKept'
  BY <1>3, PeopleKeepCourse DEF Rename
<1>4. ASSUME NEW k \in Keys, NEW branch \in Branches, NEW stays \in BOOLEAN,
             MoveDefault(k, branch, stays)
      PROVE  CourseKept'
  BY <1>4, PeopleKeepCourse DEF MoveDefault
<1>5. ASSUME NEW command \in Commands, Start(command) PROVE CourseKept'
  <2>1. forge' = forge
    BY <1>5 DEF Start
  <2>2. \/ \E listed : run' = Started(command, cache, listed)
        \/ run'.pc = "stopped"
    BY <1>5 DEF Start
  <2> QED
    BY <2>1, <2>2, StartedCourse, StoppedCourse
<1>6. ASSUME NEW command \in Commands, StartFails(command) PROVE CourseKept'
  BY <1>6, StoppedCourse DEF StartFails
<1>7. ASSUME NEW n \in Names, GitFails(n) PROVE CourseKept'
  <2>1. /\ Running /\ n \in DOMAIN run.at /\ forge' = forge
        /\ run' = [run EXCEPT !.at[n] = "failed"]
        /\ \E left : dirs' = [dirs EXCEPT ![n] = left]
    BY <1>7 DEF GitFails, Goes
  <2>2. \A m \in DOMAIN run.at : m # n => dirs'[m] = dirs[m]
    <3>1. DOMAIN run.at \subseteq Names /\ DOMAIN dirs = Names
      BY <2>1 DEF IInv, TypeOK, RunOK, RecordIds, Rec
    <3> QED
      BY <2>1, <3>1
  <2> DEFINE step == "failed"
             commit == run.commit[n]
  <2>3. Whole(step, dirs'[n], run.branch[n], commit, run.had[n])
    BY DEF Whole
  <2>4. Moves(n, step, commit)
    BY <2>1 DEF Moves
  <2> HIDE DEF step, commit
  <2> QED
    BY <2>1, <2>2, <2>3, <2>4, OneCheckout
<1>8. CASE Killed
  <2>1. run'.pc = "stopped"
    BY <1>8 DEF Killed
  <2> QED
    BY <2>1, StoppedCourse
<1>9. CASE Finish
  BY <1>9, FinishCourse
<1> QED
  BY <1>1, <1>2, <1>3, <1>4, <1>5, <1>6, <1>7, <1>8, <1>9, CheckOutCourse DEF Next, GoesOn

\* sources.rs:8 "a repo that cannot be cloned or refreshed becomes an errored gap": whatever the
\* runs before left half done, and whatever fails or people do meanwhile, a synced scan that
\* ended reads all the files of the commit it names, one the branch was at while it went on.
THEOREM SyncedScansAreWhole == Spec => []SyncedIsWhole
<1>1. Init => IInv /\ LitterKnown /\ CourseKept
  <2>1. Init => CourseKept
    BY DEF Init, Idle, CourseKept, SyncedIsWhole, SyncedReport, Running
  <2>2. Init => LitterKnown
    BY DEF Init, LitterKnown, Missing, NoReport
  <2> QED
    BY <2>1, <2>2, InitInv
<1>2. (IInv /\ LitterKnown /\ CourseKept) /\ [Next]_vars
        => (IInv /\ LitterKnown /\ CourseKept)'
  BY StepInv, LitterStep, CourseStep
<1>3. IInv /\ LitterKnown /\ CourseKept => SyncedIsWhole
  BY DEF CourseKept
<1> QED
  BY <1>1, <1>2, <1>3, PTL DEF Spec
=============================================================================
