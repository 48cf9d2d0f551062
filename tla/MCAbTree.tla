------------------------------- MODULE MCAbTree -------------------------------
(***************************************************************************)
(* Instances of AbTree for TLC.                                            *)
(***************************************************************************)
EXTENDS AbTree
CONSTANTS t0, t1, t2, v1, v2

FillerAndTwo == {t0, t1, t2}
OneValue == {v1}
TwoValues == {v1, v2}

Find(k) == [op |-> "find", key |-> k]
Erase(k) == [op |-> "erase", key |-> k]
Insert(k, v) == [op |-> "insert", key |-> k, value |-> v]
InsertIfAbsent(k, v) == [op |-> "insertIfAbsent", key |-> k, value |-> v]

(* One after the other, the keys from 1 to n. *)
Fill(n) == [i \in 1 .. n |-> {InsertIfAbsent(i, v1)}]

ElevenKeys == 1 .. 11

(* Any calls on a tree of one leaf, which is or becomes the root. *)
SmallCall == {c \in Call : c.key <= 4}
SmallScript ==
  t0 :> Fill(3)
  @@ t1 :> <<SmallCall, {Erase(1), Find(4)}>>
  @@ t2 :> <<SmallCall>>

(* Two internal nodes below the root, the left one with leaves {1, 2} and  *)
(* {3, 4}, the right one with leaves {5, 6} and {7, 8, 9}, or with a third *)
(* one: each thread may erase from a leaf of another's parent or sibling.  *)
EraseScript ==
  t0 :> Fill(9) \o <<{Find(10), InsertIfAbsent(10, v1)}>>
  @@ t1 :> <<{Erase(1), Erase(4)}, {Find(2)}>>
  @@ t2 :> <<{Erase(2), Erase(3), Erase(5), Erase(8)}, {Insert(1, v1), Insert(9, v1)}>>

(* Leaves of two keys below internal nodes with two children: two erases   *)
(* by one thread, while another is between its rebalancing steps.          *)
SiblingScript ==
  t0 :> Fill(8)
  @@ t1 :> <<{Erase(1)}>>
  @@ t2 :> <<{Erase(2)}, {Erase(3)}>>

(* A root with three leaves, the first of them full: its nodes of weight 0 *)
(* may be below each other, beside or above a leaf with too few keys.      *)
InsertScript ==
  t0 :> [i \in 1 .. 7 |-> {InsertIfAbsent(<<1, 4, 8, 9, 10, 11, 2>>[i], v1)}]
  @@ t1 :> <<{Insert(3, v1)}, {Find(4)}>>
  @@ t2 :> <<{Insert(5, v1)}, {Insert(6, v1), Erase(3), Erase(8), Erase(11)}>>

Scripted(calls, s) == [calls |-> calls, spurious |-> s]

AllScripts ==
  {Scripted(SmallScript, TRUE), Scripted(EraseScript, TRUE), Scripted(InsertScript, FALSE)}
SiblingScripts == {Scripted(SiblingScript, FALSE)}
=============================================================================
