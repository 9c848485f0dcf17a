------------------------------ MODULE MCNotify ------------------------------
(***************************************************************************)
(* Notify for TLC: one run at a time, two teams and the findings without an *)
(* owner.                                                                   *)
(***************************************************************************)
EXTENDS Notify

OwnRepo == [f \in {"f1", "f2"} |-> f]
TeamAndNoOwner == <<"team", "none">>
TwoTeams == <<"red", "team", "none">>
OwnMark == [o \in {"red", "team", "none"} |-> o]
=============================================================================
