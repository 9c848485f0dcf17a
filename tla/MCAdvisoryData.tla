-------------------------- MODULE MCAdvisoryData --------------------------
(***************************************************************************)
(* Instances of AdvisoryData.                                              *)
(***************************************************************************)
EXTENDS AdvisoryData, TLC

\* A changed record keeps the zip's size, an added or withdrawn one does not.
MCSize(export) == Cardinality({id \in Ids : export[id] # 0})

\* All current, the export behind, or the listing behind.
MCLags == {{}, {"export"}, {"listing"}}

\* The ids play no role of their own.
MCSymmetry == Permutations(Ids)
=============================================================================
