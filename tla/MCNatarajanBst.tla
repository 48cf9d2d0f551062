---------------------------- MODULE MCNatarajanBst ----------------------------
(***************************************************************************)
(* Instances of NatarajanBst for TLC.                                      *)
(***************************************************************************)
EXTENDS NatarajanBst, TLC
CONSTANTS t1, t2, t3, v1, v2

Threads == {t1, t2, t3}
Values == {v1, v2}

(* A path of three internal nodes, one below the other. *)
Chain3 == <<3, 2, 1>>

Erase(k) == [op |-> "erase", key |-> k]
Insert(k) == [op |-> "insertIfAbsent", key |-> k, value |-> v1]

(* Any calls: two by one thread, one by another. *)
TwoThreads == t1 :> <<Call, Call>> @@ t2 :> <<Call>> @@ t3 :> <<>>

(* A third thread meets, completes or removes along with its own two       *)
(* deletions that are half done.                                           *)
ThreeThreads ==
  t1 :> <<{Erase(1)}>>
  @@ t2 :> <<{Erase(2)}>>
  @@ t3 :> <<{Erase(1), Erase(3), Insert(1)}>>

TwoOrThreeThreads == {TwoThreads, ThreeThreads}
=============================================================================
