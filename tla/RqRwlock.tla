------------------------------- MODULE RqRwlock -------------------------------
(***************************************************************************)
(* The range query provider RQ_RWLOCK, for a data structure without        *)
(* logical deletion.  An update reads the timestamp and changes its word   *)
(* as a reader of the lock; a range query increments the timestamp as its  *)
(* writer, which is when it takes effect.  Then the query traverses the    *)
(* words, and looks for the nodes that it has missed among those that      *)
(* other threads announce to delete and those that they have retired; it   *)
(* waits for timestamps that are not set yet.                              *)
(*                                                                         *)
(* The data structure is one word per key, with the node of the key or     *)
(* None; the retired nodes are those of the bags that getSafeBlockbags     *)
(* returns, which keep all that is retired while the query runs.           *)
(***************************************************************************)
EXTENDS RWLock, Sequences, SequencesExt

CONSTANTS
  None,
  NumKeys,
  Present,      (* the keys that have a node at first                      *)
  Scripts       (* bound: the i-th call of t is s[t][i], for an s in       *)
                (* Scripts; a thread inserts each key once at most         *)

Key == 1 .. NumKeys
Node == Key \X ({None} \cup Locker)     (* named by key and inserter       *)

VARIABLES
  word,           (* word[k]: the node of the key, or None                 *)
  timestamp,
  itime, dtime,   (* of the nodes; 0 is TIMESTAMP_NOT_SET                  *)
  announced,      (* announced[t]: numAnnouncements, and the entry         *)
  bag,            (* bag[t]: the nodes that t has retired, the last first  *)
  pc,
  update,         (* the call to linearize_update of t                     *)
  rq,             (* the range query of t                                  *)
  script,         (* the calls that t has still to make                    *)
  asOf            (* history: asOf[t] is what the words held when the      *)
                  (* query of t took effect                                *)

vars == <<lockVars, word, timestamp, itime, dtime, announced, bag, pc, update, rq, script, asOf>>
times == <<timestamp, itime, dtime>>
retiring == <<announced, bag>>

Others(t) == Locker \ {t}
InOrder(S) == SetToSortSeq(S, <)

Init ==
  /\ LockInit
  /\ word = [k \in Key |-> IF k \in Present THEN <<k, None>> ELSE None]
  /\ timestamp = 1
  /\ itime = [n \in Node |-> IF n[2] = None THEN 1 ELSE 0]
  /\ dtime = [n \in Node |-> 0]
  /\ announced = [t \in Locker |-> [num |-> 0, node |-> None]]
  /\ bag = [t \in Locker |-> <<>>]
  /\ pc = [t \in Locker |-> "idle"]
  /\ update = [t \in Locker |-> None]
  /\ rq = [t \in Locker |-> None]
  /\ script \in Scripts
  /\ asOf = [t \in Locker |-> None]

Run(t, from, to) == pc[t] = from /\ pc' = [pc EXCEPT ![t] = to]

-----------------------------------------------------------------------------
(* Updates *)

(* The caller finds the node of the key.  It announces the node that it is *)
(* going to delete.                                                        *)
Announce(t) ==
  LET c == Head(script[t])
      old == word[c.key]
      new == IF c.op = "delete" THEN None ELSE <<c.key, t>>
  IN  /\ pc[t] = "idle"
      /\ script[t] # <<>> /\ c.op # "range"
      /\ script' = [script EXCEPT ![t] = Tail(@)]
      /\ UNCHANGED <<lockVars, word, times, bag, rq, asOf>>
      /\ IF (c.op = "insert" /\ old # None) \/ (c.op = "delete" /\ old = None)
         THEN UNCHANGED <<pc, update, announced>>
         ELSE /\ Run(t, "idle", "read.lock")
              /\ update' = [update EXCEPT ![t] =
                   [op |-> c.op, key |-> c.key, old |-> old, new |-> new, ts |-> 0]]
              /\ announced' = IF old = None THEN announced
                              ELSE [announced EXCEPT ![t] = [num |-> 1, node |-> old]]

Inserted(t) == {update[t].new} \ {None}
Deleted(t) == {update[t].old} \ {None}

EnterUpdate(t) ==
  /\ \/ Run(t, "read.lock", "read.await") /\ ReadLock(t)
     \/ Run(t, "read.await", "stamp") /\ AwaitWriter(t)
  /\ UNCHANGED <<word, times, retiring, update, rq, script, asOf>>

Stamp(t) ==
  /\ Run(t, "stamp", "swap")
  /\ update' = [update EXCEPT ![t].ts = timestamp]
  /\ UNCHANGED <<lockVars, word, times, retiring, rq, script, asOf>>

(* linearize_update_at_write writes in any case: its caller keeps other    *)
(* updates from the word.                                                  *)
Swap(t) ==
  LET u == update[t]
  IN  /\ pc[t] = "swap"
      /\ IF u.op = "put" \/ word[u.key] = u.old
         THEN Run(t, "swap", "swapped") /\ word' = [word EXCEPT ![u.key] = u.new]
         ELSE Run(t, "swap", "not.swapped") /\ UNCHANGED word
      /\ UNCHANGED <<lockVars, times, retiring, update, rq, script, asOf>>

LeaveUpdate(t) ==
  /\ \/ Run(t, "swapped", "itimes")
     \/ Run(t, "not.swapped", "failed")
  /\ ReadUnlock(t)
  /\ UNCHANGED <<word, times, retiring, update, rq, script, asOf>>

SetInsertionTimestamps(t) ==
  /\ Run(t, "itimes", "dtimes")
  /\ itime' = [n \in Node |-> IF n \in Inserted(t) THEN update[t].ts ELSE itime[n]]
  /\ UNCHANGED <<lockVars, word, timestamp, dtime, retiring, update, rq, script, asOf>>

SetDeletionTimestamps(t) ==
  /\ Run(t, "dtimes", "retire")
  /\ dtime' = [n \in Node |-> IF n \in Deleted(t) THEN update[t].ts ELSE dtime[n]]
  /\ UNCHANGED <<lockVars, word, timestamp, itime, retiring, update, rq, script, asOf>>

(* physical_deletion_succeeded: retire, and only then announce no longer.  *)
Retire(t) ==
  /\ Run(t, "retire", "unannounce")
  /\ bag' = [bag EXCEPT ![t] = SetToSeq(Deleted(t)) \o @]
  /\ UNCHANGED <<lockVars, word, times, announced, update, rq, script, asOf>>

Unannounce(t) ==
  /\ Run(t, "unannounce", "idle")
  /\ announced' = [announced EXCEPT ![t].num = 0]
  /\ update' = [update EXCEPT ![t] = None]
  /\ UNCHANGED <<lockVars, word, times, bag, rq, script, asOf>>

(* physical_deletion_failed *)
NotDeleted(t) ==
  /\ Run(t, "failed", "idle")
  /\ announced' = [announced EXCEPT ![t].num = 0]
  /\ update' = [update EXCEPT ![t] = None]
  /\ UNCHANGED <<lockVars, word, times, bag, rq, script, asOf>>

-----------------------------------------------------------------------------
(* traversal_start *)

(* Mutant: the timestamp is incremented without the lock. *)
StartUnlocked(t) ==
  /\ script[t] # <<>> /\ Head(script[t]).op = "range"
  /\ Run(t, "idle", "increment")
  /\ script' = [script EXCEPT ![t] = Tail(@)]
  /\ lpc' = [lpc EXCEPT ![t] = "writing"]
  /\ UNCHANGED <<lock, seen, word, times, retiring, update, rq, asOf>>

Start(t) ==
  /\ script[t] # <<>> /\ Head(script[t]).op = "range"
  /\ Run(t, "idle", "increment")
  /\ script' = [script EXCEPT ![t] = Tail(@)]
  /\ WriteLock(t)
  /\ UNCHANGED <<word, times, retiring, update, rq, asOf>>

Increment(t) ==
  /\ Run(t, "increment", "write.unlock")
  /\ timestamp' = timestamp + 1
  /\ rq' = [rq EXCEPT ![t] =
       [lin |-> timestamp + 1, end |-> 0, keys |-> {}, key |-> 1, node |-> None, source |-> None,
        back |-> "traverse", threads |-> <<>>, bags |-> <<>>]]
  /\ asOf' = [asOf EXCEPT ![t] = word]
  /\ UNCHANGED <<lockVars, word, itime, dtime, retiring, update, script>>

Started(t) ==
  /\ Run(t, "write.unlock", "traverse")
  /\ WriteUnlock(t)
  /\ UNCHANGED <<word, times, retiring, update, rq, script, asOf>>

-----------------------------------------------------------------------------
(* The traversal, and traversal_try_add *)

querying == <<lockVars, word, times, retiring, update, script, asOf>>

Traverse(t) ==
  LET q == rq[t]
      n == word[q.key]
  IN  /\ pc[t] = "traverse"
      /\ UNCHANGED querying
      /\ IF q.key > NumKeys
         THEN /\ Run(t, "traverse", "announced")
              /\ rq' = [rq EXCEPT ![t].end = timestamp, ![t].threads = InOrder(Others(t))]
         ELSE /\ Run(t, "traverse", IF n = None THEN "traverse" ELSE "itime")
              /\ rq' = [rq EXCEPT ![t].key = @ + 1, ![t].node = n, ![t].source = None, ![t].back = "traverse"]

Add(t, from) == Run(t, from, rq[t].back) /\ rq' = [rq EXCEPT ![t].keys = @ \cup {rq[t].node[1]}]
Skip(t, from) == Run(t, from, rq[t].back) /\ UNCHANGED rq

(* What is found in the data structure is not deleted before the query.    *)
ReadItime(t) ==
  LET q == rq[t]
  IN  /\ pc[t] = "itime"
      /\ itime[q.node] # 0
      /\ UNCHANGED querying
      /\ \/ itime[q.node] >= q.lin /\ Skip(t, "itime")
         \/ itime[q.node] < q.lin /\ q.back = "traverse" /\ Add(t, "itime")
         \/ itime[q.node] < q.lin /\ q.back # "traverse" /\ Run(t, "itime", "dtime") /\ UNCHANGED rq

CompareDtime(t, from) ==
  IF dtime[rq[t].node] < rq[t].lin THEN Skip(t, from) ELSE Add(t, from)

(* A query waits for the dtime of a retired node, and for that of an       *)
(* announced node as long as its entry is there.                           *)
ReadDtime(t) ==
  LET q == rq[t]
  IN  /\ pc[t] = "dtime"
      /\ UNCHANGED querying
      /\ \/ dtime[q.node] # 0 /\ CompareDtime(t, "dtime")
         \/ /\ dtime[q.node] = 0 /\ q.source # None
            /\ announced[q.source].node # q.node
            /\ Run(t, "dtime", "last") /\ UNCHANGED rq

ReadDtimeAgain(t) ==
  /\ pc[t] = "last"
  /\ UNCHANGED querying
  /\ IF dtime[rq[t].node] = 0 THEN Skip(t, "last") ELSE CompareDtime(t, "last")

-----------------------------------------------------------------------------
(* traversal_end: the nodes that the others announce; numAnnouncements is  *)
(* read before the entry.                                                  *)
ReadAnnounced(t) ==
  LET q == rq[t]
      u == Head(q.threads)
  IN  /\ pc[t] = "announced"
      /\ UNCHANGED querying
      /\ IF q.threads = <<>>
         THEN /\ Run(t, "announced", "bags")
              /\ rq' = [rq EXCEPT ![t].threads = InOrder(Others(t))]
         ELSE IF announced[u].num = 0
         THEN UNCHANGED pc /\ rq' = [rq EXCEPT ![t].threads = Tail(@)]
         ELSE Run(t, "announced", "entry") /\ UNCHANGED rq

ReadEntry(t) ==
  LET u == Head(rq[t].threads)
  IN  /\ Run(t, "entry", "itime")
      /\ rq' = [rq EXCEPT ![t].threads = Tail(@), ![t].node = announced[u].node, ![t].source = u,
                          ![t].back = "announced"]
      /\ UNCHANGED querying

(* An iterator for each bag of the others... *)
GetSafeBlockbags(t) ==
  LET q == rq[t]
  IN  /\ pc[t] = "bags"
      /\ UNCHANGED querying
      /\ IF q.threads = <<>>
         THEN Run(t, "bags", "bag") /\ UNCHANGED rq
         ELSE /\ UNCHANGED pc
              /\ rq' = [rq EXCEPT ![t].threads = Tail(@), ![t].bags = Append(@, bag[Head(q.threads)])]

(* ...and then the nodes, from the last retired one back: those that have  *)
(* been deleted since traversal_end began are passed over, and the first   *)
(* that was deleted before the query ends the bag.                         *)
NextInBag(t) ==
  LET q == rq[t]
      b == Head(q.bags)
      d == dtime[Head(b)]
      next == [q EXCEPT !.bags = <<Tail(b)>> \o Tail(@)]
  IN  /\ pc[t] = "bag"
      /\ UNCHANGED querying
      /\ IF q.bags = <<>> THEN Run(t, "bag", "done") /\ UNCHANGED rq
         ELSE IF b = <<>> \/ (d # 0 /\ d < q.lin /\ d <= q.end)
         THEN UNCHANGED pc /\ rq' = [rq EXCEPT ![t].bags = Tail(@)]
         ELSE IF d # 0 /\ d > q.end
         THEN UNCHANGED pc /\ rq' = [rq EXCEPT ![t] = next]
         ELSE /\ Run(t, "bag", "itime")
              /\ rq' = [rq EXCEPT ![t] = [next EXCEPT !.node = Head(b), !.source = None, !.back = "bag"]]

Done(t) ==
  /\ Run(t, "done", "idle")
  /\ rq' = [rq EXCEPT ![t] = None]
  /\ asOf' = [asOf EXCEPT ![t] = None]
  /\ UNCHANGED <<lockVars, word, times, retiring, update, script>>

-----------------------------------------------------------------------------
Step(t) ==
  \/ Announce(t) \/ EnterUpdate(t) \/ Stamp(t) \/ Swap(t) \/ LeaveUpdate(t)
  \/ SetInsertionTimestamps(t) \/ SetDeletionTimestamps(t) \/ Retire(t) \/ Unannounce(t) \/ NotDeleted(t)
  \/ Start(t) \/ Increment(t) \/ Started(t) \/ Traverse(t) \/ ReadItime(t) \/ ReadDtime(t) \/ ReadDtimeAgain(t)
  \/ ReadAnnounced(t) \/ ReadEntry(t) \/ GetSafeBlockbags(t) \/ NextInBag(t) \/ Done(t)

Next == \E t \in Locker : Step(t)

Spec == Init /\ [][Next]_vars

-----------------------------------------------------------------------------
(* A range query returns the keys that were there when it incremented the  *)
(* timestamp, whatever was inserted or deleted while it looked.            *)
RangeQueryAtomic ==
  \A t \in Locker : pc[t] = "done" => rq[t].keys = {k \in Key : asOf[t][k] # None}
=============================================================================
