------------------------------ MODULE MCRqDcssp ------------------------------
(***************************************************************************)
(* A deletion and two range queries by another thread, for TLC.            *)
(***************************************************************************)
EXTENDS RqDcssp

Delete(k) == [op |-> "delete", key |-> k]
RangeQuery == [op |-> "range"]

(* The deletion of the only node, and two queries. *)
OneDeletion == {<<<<Delete(1)>>, <<RangeQuery, RangeQuery>>>>}
TwoThreads == 1 .. 2
Words == 0 .. 2
FirstKey == {1}
=============================================================================
