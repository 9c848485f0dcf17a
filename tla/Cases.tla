------------------------------- MODULE Cases -------------------------------
(***************************************************************************)
(* The input a run puts to one of fleetreach's pure algorithms.  The        *)
(* modules that model those algorithms state their properties of this       *)
(* variable; MCDecisions says which inputs are tried.                       *)
(***************************************************************************)
VARIABLE case    \* of: the algorithm's name; and its input under other fields
=============================================================================
