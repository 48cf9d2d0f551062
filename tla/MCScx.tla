-------------------------------- MODULE MCScx --------------------------------
(***************************************************************************)
(* An instance of Scx for TLC: a chain of nodes with one field each.       *)
(***************************************************************************)
EXTENDS Scx, TLC
CONSTANTS t1, t2, f1

TwoThreads == {t1, t2}
OneField == {f1}

(* One of two threads reuses its descriptor. *)
TwoOne == t1 :> 2 @@ t2 :> 1
=============================================================================
