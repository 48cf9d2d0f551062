-------------------------------- MODULE MCKcas --------------------------------
(***************************************************************************)
(* An instance of Kcas for TLC in which a word gets stuck.                 *)
(***************************************************************************)
EXTENDS Kcas, TLC
CONSTANTS t1, t2

Threads == {t1, t2}
Zero == 0
Values == 0 .. 2

Entry(a, old, new) == [addr |-> a, old |-> old, new |-> new]
Swap(entries) == {[op |-> "kcas", entries |-> entries]}
Read(a) == {[op |-> "read", addr |-> a]}

(* While t1 swaps both words, t2 swaps the second one there and back and   *)
(* reads both.                                                             *)
ThereAndBack ==
  {t1 :> <<Swap(<<Entry(1, 0, 1), Entry(2, 0, 1)>>), Swap(<<Entry(1, 0, 2)>>)>>
   @@ t2 :> <<Swap(<<Entry(2, 0, 1)>>), Swap(<<Entry(2, 1, 0)>>), Read(1), Read(2)>>}
=============================================================================
