---------------------------- MODULE MCSnapshots ----------------------------
(***************************************************************************)
(* Snapshots for TLC: two sources.                                          *)
(***************************************************************************)
EXTENDS Snapshots
=============================================================================
