----------------------------- MODULE MCEbrTreeQ -----------------------------
(***************************************************************************)
(* Three threads over a tree of four leaves: threads 0 and 1 are siblings, *)
(* and 2 is in the other half.                                             *)
(***************************************************************************)
EXTENDS EbrTreeQ, TLC

TwoSiblings == 0 :> 1 @@ 1 :> 1 @@ 2 :> 5
=============================================================================
