------------------------------- MODULE Notify -------------------------------
(***************************************************************************)
(* `fleetreach notify --github-issues | --gitlab-issues`                    *)
(* (crates/cli/src/notify.rs): one issue for each owner of open findings,   *)
(* found again by a marker and rewritten, reopened or closed to match the   *)
(* index of the scan history.  Scans go on recording and people handle the  *)
(* issues meanwhile; a call to the forge's tool fails, or works and is told *)
(* as failed; a run is killed anywhere and a later one starts over.         *)
(*                                                                          *)
(* Abstracted: an issue's body is its marker and the findings it lists (the *)
(* cap on its rows, SLA breaches and titles are left out); the index is the *)
(* status and owner of each finding.                                        *)
(***************************************************************************)
EXTENDS Integers, Sequences, FiniteSets, SequencesExt

CONSTANTS
    Notifiers,   \* runs of notify that may be under way at once
    Findings,    \* the keys a scan may report
    RepoOf,      \* Findings -> the repository a finding is in
    OwnerOrder,  \* every owner once, in the order of owner_order; NoOwner is the last
    NoOwner,     \* the findings of a repository without an owner
    Mark,        \* owner -> the marker of its issue (marker(): not one to one for all names)
    Listed,      \* newest issues a listing returns
    MaxScans, MaxFaults, MaxPeople   \* bounds on recorded scans, faults and people's acts

Owners == Range(OwnerOrder)
Repos == {RepoOf[f] : f \in Findings}
NotMarked == "other text"

ASSUME NotifyAssumption ==
    /\ OwnerOrder \in Seq(Owners) /\ IsInjective(OwnerOrder) /\ NoOwner \in Owners
    /\ Last(OwnerOrder) = NoOwner
    /\ \A o \in Owners : Mark[o] # NotMarked
    /\ {Listed, MaxScans, MaxFaults, MaxPeople} \subseteq Nat /\ Listed > 0

VARIABLES
    entry,     \* Findings -> its entry of the index: status and owner
    owned,     \* Repos -> its owner in fleet.toml
    issues,    \* the tracker's issues by number: marker, open, findings listed
    run,       \* Notifiers -> the run under way
    scans, faults, people   \* what happened so far, counted

vars == <<entry, owned, issues, run, scans, faults, people>>

Absent == [status |-> "absent", owner |-> NoOwner]
NoRun == [pc |-> "idle", todo |-> {}, open |-> <<>>, listing |-> <<>>, calls |-> <<>>,
          failed |-> FALSE, alone |-> TRUE]

(***************************************************************************)
(* The index (history.rs: trustworthy, fold).                               *)
(***************************************************************************)
\* What a finding's entry becomes when a scan saw `present` in the repositories it read:
\* touched if it is present, fixed if it is gone from one of those.
Folded(f, present, read) ==
    IF f \in present
    THEN [status |-> "open",
          owner |-> IF owned[RepoOf[f]] # NoOwner THEN owned[RepoOf[f]] ELSE entry[f].owner]
    ELSE IF RepoOf[f] \in read /\ entry[f].status = "open"
    THEN [entry[f] EXCEPT !.status = "fixed"]
    ELSE entry[f]

\* A scan is recorded; it can vouch for the repositories it read, none if it ended 2.
Record(present, read) ==
    /\ scans < MaxScans
    /\ scans' = scans + 1
    /\ entry' = [f \in Findings |-> Folded(f, present, read)]
    /\ UNCHANGED <<owned, issues, run, faults, people>>

(***************************************************************************)
(* What a run works from (build).                                           *)
(***************************************************************************)
\* Every owner the index knows, and the open findings of each.
Known == {entry[f].owner : f \in {g \in Findings : entry[g].status # "absent"}}
OpenOf(o) == {f \in Findings : entry[f].status = "open" /\ entry[f].owner = o}

\* A run begins: the history is loaded, and every owner is to do.  Without a recorded scan
\* there is nothing to build from.
Start(n) ==
    /\ run[n].pc = "idle"
    /\ scans > 0
    /\ run' = [run EXCEPT ![n].pc = "list", ![n].todo = Known,
                          ![n].open = [o \in Known |-> OpenOf(o)]]
    /\ UNCHANGED <<entry, owned, issues, scans, faults, people>>

(***************************************************************************)
(* The tracker (Tracker::list, create, update, set_open; sync_issues).      *)
(***************************************************************************)
\* Mutant: the listing leaves closed issues out.
ListingOpenOnly ==
    SelectSeq([i \in 1 .. Len(issues) |->
       [number |-> Len(issues) + 1 - i, mark |-> issues[Len(issues) + 1 - i].mark,
        open |-> issues[Len(issues) + 1 - i].open]], LAMBDA row : row.open)

\* The newest issues, newest first, as a listing returns them.
Listing ==
    LET oldest == IF Len(issues) > Listed THEN Len(issues) - Listed + 1 ELSE 1
    IN  [i \in 1 .. Len(issues) + 1 - oldest |->
           LET n == Len(issues) + 1 - i
           IN  [number |-> n, mark |-> issues[n].mark, open |-> issues[n].open]]

ListIssues(n) ==
    /\ run[n].pc = "list"
    /\ run' = [run EXCEPT ![n].pc = "owner", ![n].listing = Listing]
    /\ UNCHANGED <<entry, owned, issues, scans, faults, people>>

Earliest(places) == CHOOSE i \in places : \A j \in places : i <= j

\* Mutant: any issue will do.
FoundAtAny(listing, o) == DOMAIN listing

\* The first listed issue that bears the mark of an owner, if any.
FoundAt(listing, o) == {i \in DOMAIN listing : listing[i].mark = Mark[o]}
Found(listing, o) == listing[Earliest(FoundAt(listing, o))]

\* Mutant: a closed issue is not reopened.
CallsNoReopen(listing, o, wanted) ==
    IF FoundAt(listing, o) = {}
    THEN IF wanted THEN <<[verb |-> "create", number |-> 0]>> ELSE <<>>
    ELSE LET n == Found(listing, o).number
         IN  IF wanted THEN <<[verb |-> "update", number |-> n]>>
             ELSE IF Found(listing, o).open THEN <<[verb |-> "close", number |-> n]>> ELSE <<>>
\* Mutant: an open issue is not rewritten.
CallsNoRewrite(listing, o, wanted) ==
    IF FoundAt(listing, o) = {}
    THEN IF wanted THEN <<[verb |-> "create", number |-> 0]>> ELSE <<>>
    ELSE LET issue == Found(listing, o)
         IN  IF wanted = issue.open THEN <<>>
             ELSE <<[verb |-> IF wanted THEN "reopen" ELSE "close", number |-> issue.number]>>

\* The calls that bring an owner's issue in line, in order.
Calls(listing, o, wanted) ==
    IF FoundAt(listing, o) = {}
    THEN IF wanted THEN <<[verb |-> "create", number |-> 0]>> ELSE <<>>
    ELSE LET issue == Found(listing, o)
             call(verb) == <<[verb |-> verb, number |-> issue.number]>>
         IN  (IF wanted /\ ~issue.open THEN call("reopen") ELSE <<>>)
             \o (IF wanted \/ issue.open THEN call("update") ELSE <<>>)
             \o (IF ~wanted /\ issue.open THEN call("close") ELSE <<>>)

\* The owner whose turn it is.
Places(todo) == {i \in DOMAIN OwnerOrder : OwnerOrder[i] \in todo}
Turn(todo) == OwnerOrder[Earliest(Places(todo))]

NextOwner(n) ==
    /\ run[n].pc = "owner"
    /\ run[n].todo # {}
    /\ LET o == Turn(run[n].todo)
       IN  run' = [run EXCEPT ![n].pc = "call",
                              ![n].calls = Calls(run[n].listing, o, run[n].open[o] # {})]
    /\ UNCHANGED <<entry, owned, issues, scans, faults, people>>

\* The tracker after the first of a run's calls; a body is written whole.
Applied(n) ==
    LET call == Head(run[n].calls)
        o == Turn(run[n].todo)
        body == run[n].open[o]
    IN  CASE call.verb = "create" ->
               Append(issues, [mark |-> Mark[o], open |-> TRUE, lists |-> body])
          [] call.verb = "update" ->
               [issues EXCEPT ![call.number].mark = Mark[o], ![call.number].lists = body]
          [] OTHER -> [issues EXCEPT ![call.number].open = (call.verb = "reopen")]

\* What the other runs listed is out of date once `n` has written (ghost).
Overtaken(r) == IF r.pc \in {"owner", "call", "done"} THEN [r EXCEPT !.alone = FALSE] ELSE r
RunAfterCall(n, calls, failed) ==
    [m \in Notifiers |->
       IF m = n THEN [run[n] EXCEPT !.calls = calls, !.failed = failed] ELSE Overtaken(run[m])]

CallWorks(n) ==
    /\ run[n].pc = "call" /\ run[n].calls # <<>>
    /\ issues' = Applied(n)
    /\ run' = RunAfterCall(n, Tail(run[n].calls), run[n].failed)
    /\ UNCHANGED <<entry, owned, scans, faults, people>>

\* A call the tool reports as failed, whether or not the forge carried it out: the rest of this
\* owner's calls are dropped, and the other owners' go on.
CallFails(n, carriedOut) ==
    /\ run[n].pc = "call" /\ run[n].calls # <<>>
    /\ faults < MaxFaults /\ faults' = faults + 1
    /\ issues' = IF carriedOut THEN Applied(n) ELSE issues
    /\ run' = RunAfterCall(n, <<>>, TRUE)
    /\ UNCHANGED <<entry, owned, scans, people>>

OwnerDone(n) ==
    /\ run[n].pc = "call" /\ run[n].calls = <<>>
    /\ run' = [run EXCEPT ![n].pc = "owner", ![n].todo = @ \ {Turn(@)}]
    /\ UNCHANGED <<entry, owned, issues, scans, faults, people>>

Finish(n) ==
    /\ run[n].pc = "owner" /\ run[n].todo = {}
    /\ run' = [run EXCEPT ![n].pc = "done"]
    /\ UNCHANGED <<entry, owned, issues, scans, faults, people>>

ExitCode(r) == IF r.failed THEN 2 ELSE 0

Exit(n) ==
    /\ run[n].pc = "done"
    /\ run' = [run EXCEPT ![n] = NoRun]
    /\ UNCHANGED <<entry, owned, issues, scans, faults, people>>

\* A run is killed, or its listing fails and it ends 2 before it wrote anything.
Killed(n) ==
    /\ run[n].pc \in {"list", "owner", "call"}
    /\ faults < MaxFaults /\ faults' = faults + 1
    /\ run' = [run EXCEPT ![n] = NoRun]
    /\ UNCHANGED <<entry, owned, issues, scans, people>>

(***************************************************************************)
(* People: they open issues of their own, close and reopen any, edit a      *)
(* body, and give a repository to another owner.                            *)
(***************************************************************************)
PeopleWrite(after) ==
    /\ people < MaxPeople /\ people' = people + 1
    /\ issues' = after
    /\ run' = [m \in Notifiers |-> Overtaken(run[m])]
    /\ UNCHANGED <<entry, owned, scans, faults>>

OpenAnother == PeopleWrite(Append(issues, [mark |-> NotMarked, open |-> TRUE, lists |-> {}]))
Toggle(i) == PeopleWrite([issues EXCEPT ![i].open = ~@])
Edit(i) == PeopleWrite([issues EXCEPT ![i].lists = {}])

Reassign(r, o) ==
    /\ people < MaxPeople /\ people' = people + 1
    /\ owned[r] # o
    /\ owned' = [owned EXCEPT ![r] = o]
    /\ UNCHANGED <<entry, issues, run, scans, faults>>

Init ==
    /\ entry = [f \in Findings |-> Absent]
    /\ owned \in [Repos -> Owners]
    /\ issues = <<>>
    /\ run = [n \in Notifiers |-> NoRun]
    /\ scans = 0 /\ faults = 0 /\ people = 0

\* The next step of a run that nothing goes wrong in.
Advance(n) ==
    \/ Start(n)
    \/ ListIssues(n)
    \/ NextOwner(n)
    \/ CallWorks(n)
    \/ OwnerDone(n)
    \/ Finish(n)
    \/ Exit(n)

Next ==
    \/ \E present \in SUBSET Findings, read \in SUBSET Repos : Record(present, read)
    \/ \E n \in Notifiers : Advance(n)
    \/ \E n \in Notifiers, carriedOut \in BOOLEAN : CallFails(n, carriedOut)
    \/ \E n \in Notifiers : Killed(n)
    \/ OpenAnother
    \/ \E i \in DOMAIN issues : Toggle(i) \/ Edit(i)
    \/ \E r \in Repos, o \in Owners : Reassign(r, o)

Spec == Init /\ [][Next]_vars

\* notify is run from a schedule and waits for each call of the tool, so a run that can go on
\* does, and another one follows it.  Scans, faults and people's acts are not fair: they may stop.
FairSpec == Spec /\ \A n \in Notifiers : WF_vars(Advance(n))

-----------------------------------------------------------------------------
Marked(o) == {i \in DOMAIN issues : issues[i].mark = Mark[o]}
InReach(i) == i > Len(issues) - Listed

Marks == {Mark[o] : o \in Owners} \cup {NotMarked}
Issues == [mark : Marks, open : BOOLEAN, lists : SUBSET Findings]
Rows == [number : Nat, mark : Marks, open : BOOLEAN]
CallsOfTool == [verb : {"create", "update", "reopen", "close"}, number : Nat]
Runs == [pc : {"idle", "list", "owner", "call", "done"}, todo : SUBSET Owners,
         open : UNION {[known -> SUBSET Findings] : known \in SUBSET Owners},
         listing : Seq(Rows), calls : Seq(CallsOfTool), failed : BOOLEAN, alone : BOOLEAN]

\* The variables' types; the owners a run has to do are owners it knows.
TypeOK ==
    /\ entry \in [Findings -> [status : {"absent", "open", "fixed"}, owner : Owners]]
    /\ owned \in [Repos -> Owners]
    /\ issues \in Seq(Issues)
    /\ run \in [Notifiers -> Runs]
    /\ \A n \in Notifiers : run[n].todo \subseteq DOMAIN run[n].open
    /\ {scans, faults, people} \subseteq Nat

\* notify.rs:3 "kept as one issue per owner": a second issue with an owner's marker is opened
\* only when more others than a listing returns came after the first, whatever calls failed
\* or were carried out without an answer, and however runs were killed (one run at a time).
DuplicatesAreFarApart ==
    \A o \in Owners : \A i, j \in Marked(o) : i < j => j - i > Listed

\* sync_issues: a run that ends 0, when nobody else wrote to the tracker since its listing,
\* leaves each owner whose marker is its own with an open issue that lists exactly the
\* findings open when the run began, or without an open issue in the listing.
ZeroMeansInLine ==
    \A n \in Notifiers :
      run[n].pc = "done" /\ ExitCode(run[n]) = 0 /\ run[n].alone =>
        \A o \in DOMAIN run[n].open :
          (\A other \in DOMAIN run[n].open \ {o} : Mark[other] # Mark[o]) =>
            IF run[n].open[o] # {}
            THEN \E i \in Marked(o) : issues[i].open /\ issues[i].lists = run[n].open[o]
            ELSE \A i \in Marked(o) : issues[i].open => i <= Len(issues) - Listed

\* notify writes only to issues that bear the marker of an owner: it never closes, reopens or
\* rewrites an issue people opened for themselves (Tracker::update and set_open).
PeoplesIssuesKept ==
    [][people' = people =>
         \A i \in DOMAIN issues : issues[i].mark = NotMarked => issues'[i] = issues[i]]_vars

\* Whatever failed before, once scans, faults and people rest, every owner of the index ends up
\* with an open issue listing exactly its open findings, or with no open issue in reach.
InLine(o) ==
    IF OpenOf(o) # {}
    THEN \E i \in Marked(o) : issues[i].open /\ issues[i].lists = OpenOf(o)
    ELSE \A i \in Marked(o) : InReach(i) => ~issues[i].open
KnownOwnersSettle == <>[](\A o \in Known : InLine(o))

\* notify.rs:8 "closed when an owner has none open".  It is not kept for an owner all of whose
\* entries went to another owner while they were open: fold gives the entries the new owner,
\* and build no longer knows the old one.
EveryOwnerSettles == <>[](\A o \in Owners : InLine(o))
=============================================================================
