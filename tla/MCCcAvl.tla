------------------------------- MODULE MCCcAvl -------------------------------
(***************************************************************************)
(* Instances of CcAvl for TLC.                                             *)
(***************************************************************************)
EXTENDS CcAvl, TLC
CONSTANTS t0, t1, t2, v1, v2

ThreeThreads == {t0, t1, t2}
TwoValues == {v1, v2}
EightKeys == 1 .. 8

Find(k) == [op |-> "find", key |-> k]
Erase(k) == [op |-> "erase", key |-> k]
Insert(k, v) == [op |-> "insert", key |-> k, value |-> v]
InsertIfAbsent(k, v) == [op |-> "insertIfAbsent", key |-> k, value |-> v]

(* t0 inserts the keys one after the other.  The others may start before  *)
(* it has repaired the tree after the last one.                            *)
Filling(keys) == [after |-> {}, calls |-> [i \in DOMAIN keys |-> {InsertIfAbsent(keys[i], v1)}], stops |-> FALSE]
Beside(calls) == [after |-> {t0}, calls |-> calls, stops |-> FALSE]
After(t, calls) == [Beside(calls) EXCEPT !.after = {t0, t}]
Stops(s) == [s EXCEPT !.stops = TRUE]

(* t0 is about to rotate, once or twice, when the others begin to search,  *)
(* or to take away what it rotates.                                        *)
Rotating(keys, others) ==
  t0 :> Filling(keys)
  @@ t1 :> Beside(<<{Find(1), Find(2), Find(3), Erase(1), Erase(2), Erase(3), Insert(1, v2)}>>)
  @@ t2 :> Beside(others)

(* A routing node loses its children or gets its value back. *)
Routing ==
  t0 :> Filling(<<2, 1, 3>>)
  @@ t1 :> Beside(<<{Erase(2)}, {Find(2), Insert(1, v2)}>>)
  @@ t2 :> Beside(<<{Erase(3), Insert(2, v2), InsertIfAbsent(2, v2), Erase(1)}>>)

(* Two inserts at one place, in the empty tree or below a leaf. *)
Racing(keys) ==
  t0 :> Filling(keys)
  @@ t1 :> [Beside(<<{Insert(3, v2)}>>) EXCEPT !.after = {}]
  @@ t2 :> Beside(<<{InsertIfAbsent(3, v1), Erase(2)}>>)

(* Two operations have damaged the tree and are not scheduled any more: a  *)
(* third has to rotate a child the other way first.                        *)
Leaning(keys, below, gone) ==
  t0 :> Stops(Filling(keys))
  @@ t1 :> Stops(Beside(<<{InsertIfAbsent(below, v1)}>>))
  @@ t2 :> Beside(<<{Erase(gone), Find(below)}>>)

(* A node is too low by two for its sibling: one rotation does not do.     *)
Overweight ==
  t0 :> Filling(<<6, 3, 7, 2, 4, 8, 1, 5>>)
  @@ t1 :> Stops(Beside(<<{Erase(8)}>>))
  @@ t2 :> After(t1, <<{Erase(7)}>>)

(* The inner grandchild becomes lower after its height has been read.      *)
Shrinking ==
  t0 :> Filling(<<6, 2, 7, 1, 4, 8, 3>>)
  @@ t1 :> Stops(After(t2, <<{Erase(3)}>>))
  @@ t2 :> Beside(<<{Erase(8)}>>)

AvlScripts ==
  {Rotating(<<1, 2, 3>>, <<{Erase(1)}>>), Rotating(<<3, 2, 1>>, <<>>),
   Rotating(<<1, 3, 2>>, <<>>), Rotating(<<3, 1, 2>>, <<>>),
   Routing, Racing(<<>>), Racing(<<2>>), Racing(<<2, 1>>),
   Leaning(<<6, 1, 7, 4, 3>>, 2, 7), Leaning(<<2, 7, 1, 4, 5>>, 6, 1), Overweight, Shrinking}
=============================================================================
