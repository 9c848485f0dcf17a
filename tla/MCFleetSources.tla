-------------------------- MODULE MCFleetSources --------------------------
(***************************************************************************)
(* FleetSources for TLC: a forge with one repo, and one that has another or *)
(* is yet to get it.                                                        *)
(***************************************************************************)
EXTENDS FleetSources

TwoRepos == {<<"a", "b">>, <<"a", Gone>>}
=============================================================================
