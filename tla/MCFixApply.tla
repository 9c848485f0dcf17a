----------------------------- MODULE MCFixApply -----------------------------
(***************************************************************************)
(* FixApply for TLC: two repositories, a plan for both, and the newer plan  *)
(* that replaces one of its branches and blocks the other.                  *)
(***************************************************************************)
EXTENDS FixApply

App1 == [repo |-> "app", name |-> "serde-2"]
App2 == [repo |-> "app", name |-> "serde-3"]
Lib1 == [repo |-> "lib", name |-> "serde-2"]
MCBranches == {App1, App2, Lib1}
OneBranch == {App1}

Edit(b) == [branch |-> b, blocked |-> FALSE]
Blocked(b) == [branch |-> b, blocked |-> TRUE]
First == [edits |-> <<Edit(Lib1), Edit(App1)>>, scanned |-> {"app", "lib"}]
Newer == [edits |-> <<Edit(App2), Blocked(Lib1)>>, scanned |-> {"app", "lib"}]
FirstThenNewer == {First, Newer}
OnePlan == {[edits |-> <<Edit(App1)>>, scanned |-> {"app"}]}

Default == [push |-> FALSE, openPr |-> TRUE, close |-> FALSE, only |-> {}, canary |-> {},
            maxRepos |-> 20, maxPrs |-> NoLimit, stopAfter |-> NoLimit]
MCArgs == {[Default EXCEPT !.close = TRUE], [Default EXCEPT !.canary = {"app"}],
           [Default EXCEPT !.maxPrs = 1],
           [Default EXCEPT !.openPr = FALSE, !.push = TRUE, !.stopAfter = 1, !.maxRepos = 1],
           [Default EXCEPT !.openPr = FALSE, !.only = {"app"}]}
OpenOnly == {Default}
=============================================================================
