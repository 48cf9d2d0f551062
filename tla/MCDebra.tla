------------------------------- MODULE MCDebra -------------------------------
(***************************************************************************)
(* Instances of Debra for TLC.                                             *)
(***************************************************************************)
EXTENDS Debra, TLC
CONSTANTS o1, o2

Objects == {o1, o2}

(* The objects are interchangeable. *)
ObjectSymmetry == Permutations(Obj)
=============================================================================
