------------------------------ MODULE MCHistory ------------------------------
(***************************************************************************)
(* History for TLC: one repository, one advisory and the directories it may *)
(* be kept in: one with retention, one that git shares and damages, one     *)
(* that two recorders write at once.                                        *)
(***************************************************************************)
EXTENDS History

CONSTANTS p1, p2

CargoOnly == {[adv |-> "A1", eco |-> 0, repo |-> "app"]}
Pruned == [recorders |-> {p1}, keep |-> 1, shared |-> FALSE, till |-> 3, runs |-> 3, hashes |-> {0}]
Merged == [recorders |-> {p1}, keep |-> 0, shared |-> TRUE, till |-> 2, runs |-> 3, hashes |-> {0}]
Raced == [recorders |-> {p1, p2}, keep |-> 0, shared |-> FALSE, till |-> 1, runs |-> 2,
          hashes |-> {0, 1}]
Directories == {Pruned, Merged, Raced}
=============================================================================
