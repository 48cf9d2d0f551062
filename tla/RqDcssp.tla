-------------------------------- MODULE RqDcssp --------------------------------
(***************************************************************************)
(* The lock-free range query provider (RQ_LOCKFREE) over DCSSP, for a data *)
(* structure without logical deletion.  An update that adds or removes a   *)
(* node changes a word by a DCSSP that also checks the timestamp, and then *)
(* writes the timestamp into the node.  A range query increments the       *)
(* timestamp, which is when it takes effect, traverses the words, and      *)
(* looks for the nodes that it has missed among those that other threads   *)
(* announce to delete and those that they have retired.  Where a node has  *)
(* no timestamp yet, it finds out from the descriptors of the others.      *)
(*                                                                         *)
(* The data structure is one word per key, with the node of the key or     *)
(* None; the retired nodes are those of the bags that getSafeBlockbags     *)
(* returns, which keep all that is retired while the query runs.           *)
(***************************************************************************)
EXTENDS Dcss, Sequences, SequencesExt

CONSTANTS
  NumKeys,
  Present,      (* the keys that have a node at first                      *)
  Scripts       (* bound: the i-th call of t is s[t][i], for an s in       *)
                (* Scripts; a thread inserts each key once at most         *)

Key == 1 .. NumKeys
Clock == 0                              (* the word of the timestamp       *)
Node == Key \X ({None} \cup Thread)     (* named by key and inserter       *)

VARIABLES
  itime, dtime,   (* of the nodes; 0 is TIMESTAMP_NOT_SET                  *)
  announced,      (* announced[t]: the node that t is deleting, and        *)
                  (* whether numAnnouncements counts it                    *)
  bag,            (* bag[t]: the nodes that t has retired, the last first  *)
  rpc,
  update,         (* the call to linearize_update of t                     *)
  rq,             (* the range query of t                                  *)
  script,         (* the calls that t has still to make                    *)
  asOf            (* history: asOf[t][k] is what the word of k held when   *)
                  (* the query of t took effect                            *)

vars == <<dcssVars, itime, dtime, announced, bag, rpc, update, rq, script, asOf>>

Others(t) == Thread \ {t}
Timestamp == word[Clock][2]

Init ==
  /\ word = [a \in {Clock} \cup Key |->
               IF a = Clock THEN Plain(1) ELSE IF a \in Present THEN Plain(<<a, None>>) ELSE Plain(None)]
  /\ DcssInit
  /\ itime = [n \in Node |-> IF n[2] = None THEN 1 ELSE 0]
  /\ dtime = [n \in Node |-> 0]
  /\ announced = [t \in Thread |-> [num |-> 0, node |-> None]]
  /\ bag = [t \in Thread |-> <<>>]
  /\ rpc = [t \in Thread |-> "idle"]
  /\ update = [t \in Thread |-> None]
  /\ rq = [t \in Thread |-> None]
  /\ script \in Scripts
  /\ asOf = [t \in Thread |-> None]

Run(t, from, to) == rpc[t] = from /\ rpc' = [rpc EXCEPT ![t] = to]
times == <<itime, dtime>>
retiring == <<announced, bag>>

-----------------------------------------------------------------------------
(* Updates *)

Invoke(t) ==
  /\ script[t] # <<>>
  /\ script' = [script EXCEPT ![t] = Tail(@)]
  /\ LET c == Head(script[t])
     IN  \/ /\ c.op = "range"
            /\ Run(t, "idle", "start")
            /\ UNCHANGED <<dcssVars, update>>
         \/ /\ c.op # "range"
            /\ Run(t, "idle", "found")
            /\ update' = [update EXCEPT ![t] = [call |-> c]]
            /\ CallRead(t, ReadOf(c.key))
  /\ UNCHANGED <<times, retiring, rq>>

(* The caller has found the node of the key; announce_physical_deletion.   *)
Announce(t) ==
  LET c == update[t].call
      old == answer[t][2]
      new == IF c.op = "delete" THEN None ELSE <<c.key, t>>
      noEffect == \/ c.op = "insert" /\ old # None
                  \/ c.op = "delete" /\ old = None
  IN  /\ rpc[t] = "found" /\ dpc[t] = "idle"
      /\ UNCHANGED <<dcssVars, times, bag, rq, script>>
      /\ \/ /\ noEffect
            /\ Run(t, "found", "idle")
            /\ update' = [update EXCEPT ![t] = None]
            /\ UNCHANGED announced
         \/ /\ ~noEffect
            /\ Run(t, "found", "stamp")
            /\ update' = [update EXCEPT ![t] =
                 [call |-> c, old1 |-> 0, old2 |-> old, new2 |-> new,
                  inserted |-> {new} \ {None}, deleted |-> {old} \ {None}]]
            /\ announced' = IF old = None THEN announced
                            ELSE [announced EXCEPT ![t] = [num |-> 1, node |-> old]]

(* The loops of linearize_update_at_cas and linearize_update_at_write: the *)
(* latter reads the word again each time.                                  *)
Stamp(t) ==
  /\ rpc[t] = "stamp"
  /\ update' = [update EXCEPT ![t].old1 = Timestamp]
  /\ UNCHANGED <<times, retiring, rq, script>>
  /\ \/ /\ update[t].call.op # "put"
        /\ Run(t, "stamp", "swap")
        /\ UNCHANGED dcssVars
     \/ /\ update[t].call.op = "put"
        /\ Run(t, "stamp", "swap")
        /\ CallRead(t, ReadOf(update[t].call.key))

Swap(t) ==
  LET u == update[t]
      old2 == IF u.call.op = "put" THEN answer[t][2] ELSE u.old2
  IN  /\ Run(t, "swap", "swapped")
      /\ dpc[t] = "idle"
      /\ CallDcss(t, Dcssp(Clock, u.old1, u.call.key, old2, u.new2, <<u.inserted, u.deleted>>))
      /\ UNCHANGED <<times, retiring, update, rq, script>>

(* The timestamp has changed, or the word, which ends a compare-and-swap:  *)
(* physical_deletion_failed.                                               *)
NotSwapped(t) ==
  /\ rpc[t] = "swapped"
  /\ dpc[t] = "idle" /\ answer[t][1] # "SUCCESS"
  /\ UNCHANGED <<dcssVars, times, bag, rq, script>>
  /\ IF answer[t][1] = "FAILED_ADDR2" /\ update[t].call.op # "put"
     THEN /\ Run(t, "swapped", "idle")
          /\ announced' = [announced EXCEPT ![t].num = 0]
          /\ update' = [update EXCEPT ![t] = None]
     ELSE Run(t, "swapped", "stamp") /\ UNCHANGED <<announced, update>>

(* Mutant: an update that has been made is announced no longer. *)
UnannounceFirst(t) ==
  /\ Run(t, "swapped", "dtimes")
  /\ dpc[t] = "idle" /\ answer[t][1] = "SUCCESS"
  /\ itime' = [n \in Node |-> IF n \in update[t].inserted THEN update[t].old1 ELSE itime[n]]
  /\ announced' = [announced EXCEPT ![t].num = 0]
  /\ UNCHANGED <<dcssVars, dtime, bag, update, rq, script>>

SetInsertionTimestamps(t) ==
  /\ Run(t, "swapped", "dtimes")
  /\ dpc[t] = "idle" /\ answer[t][1] = "SUCCESS"
  /\ itime' = [n \in Node |-> IF n \in update[t].inserted THEN update[t].old1 ELSE itime[n]]
  /\ UNCHANGED <<dcssVars, dtime, retiring, update, rq, script>>

SetDeletionTimestamps(t) ==
  /\ Run(t, "dtimes", "discard")
  /\ dtime' = [n \in Node |-> IF n \in update[t].deleted THEN update[t].old1 ELSE dtime[n]]
  /\ UNCHANGED <<dcssVars, itime, retiring, update, rq, script>>

DiscardPayloads(t) ==
  /\ Run(t, "discard", "retire")
  /\ desc' = [desc EXCEPT ![t].payload = NoPayload]
  /\ UNCHANGED <<word, dpc, op, help, answer, times, retiring, update, rq, script>>

(* physical_deletion_succeeded: retire, and only then announce no longer. *)
Retire(t) ==
  /\ Run(t, "retire", "unannounce")
  /\ bag' = [bag EXCEPT ![t] = SetToSeq(update[t].deleted) \o @]
  /\ UNCHANGED <<dcssVars, times, announced, update, rq, script>>

Unannounce(t) ==
  /\ Run(t, "unannounce", "idle")
  /\ announced' = [announced EXCEPT ![t].num = 0]
  /\ update' = [update EXCEPT ![t] = None]
  /\ UNCHANGED <<dcssVars, times, bag, rq, script>>

-----------------------------------------------------------------------------
(* Range queries *)

InOrder(S) == SetToSortSeq(S, <)

(* traversal_start *)
Start(t) ==
  /\ Run(t, "start", "traverse")
  /\ word' = [word EXCEPT ![Clock] = Plain(Timestamp + 1)]
  /\ rq' = [rq EXCEPT ![t] =
       [lin |-> Timestamp + 1, end |-> 0, keys |-> {}, key |-> 1, node |-> None, back |-> "traverse",
        kind |-> 1, left |-> <<>>, snap |-> None, threads |-> <<>>, bags |-> <<>>]]
  /\ UNCHANGED <<desc, dpc, op, help, answer, times, retiring, update, script>>

(* The traversal of the data structure; then traversal_end.                *)
Traverse(t) ==
  /\ rpc[t] = "traverse"
  /\ UNCHANGED <<times, retiring, update, script>>
  /\ IF rq[t].key <= NumKeys
     THEN /\ Run(t, "traverse", "visit")
          /\ CallRead(t, ReadOf(rq[t].key))
          /\ rq' = [rq EXCEPT ![t].key = @ + 1]
     ELSE /\ Run(t, "traverse", "announced")
          /\ rq' = [rq EXCEPT ![t].end = Timestamp, ![t].threads = InOrder(Others(t)), ![t].back = "announced"]
          /\ UNCHANGED dcssVars

(* traversal_try_add: has the node been inserted (kind 1) before the query *)
(* took effect, and if so, deleted (kind 2)?                               *)
TryAdd(t, node, kind) ==
  rq' = [rq EXCEPT ![t].node = node, ![t].kind = kind, ![t].left = InOrder(Others(t))]

Visit(t) ==
  LET n == answer[t][2]
  IN  /\ rpc[t] = "visit" /\ dpc[t] = "idle"
      /\ UNCHANGED <<dcssVars, times, retiring, update, script>>
      /\ \/ n = None /\ Run(t, "visit", "traverse") /\ UNCHANGED rq
         \/ n # None /\ Run(t, "visit", "look") /\ TryAdd(t, n, 1)

Skip(t, from) ==
  /\ Run(t, from, rq[t].back)
  /\ rq' = [rq EXCEPT ![t].snap = None, ![t].node = None]

Add(t, from) ==
  /\ Run(t, from, rq[t].back)
  /\ rq' = [rq EXCEPT ![t].snap = None, ![t].node = None, ![t].keys = @ \cup {rq[t].node[1]}]

(* t has learnt when the node was inserted or deleted, or (0) not.  A node *)
(* that it has found in the data structure is not deleted before.          *)
Learn(t, from, ts) ==
  LET q == rq[t]
  IN  \/ q.kind = 1 /\ ts # 0 /\ ts >= q.lin /\ Skip(t, from)
      \/ /\ q.kind = 1 /\ (ts = 0 \/ ts < q.lin)
         /\ \/ q.back = "traverse" /\ Add(t, from)
            \/ /\ q.back # "traverse"
               /\ Run(t, from, "look")
               /\ TryAdd(t, q.node, 2)
      \/ q.kind = 2 /\ ts # 0 /\ ts < q.lin /\ Skip(t, from)
      \/ q.kind = 2 /\ (ts = 0 \/ ts >= q.lin) /\ Add(t, from)

(* The loops over the other threads, for a node without timestamp. *)
Look(t) ==
  LET q == rq[t]
      ts == IF q.kind = 1 THEN itime[q.node] ELSE dtime[q.node]
  IN  /\ rpc[t] = "look"
      /\ UNCHANGED <<dcssVars, times, retiring, update, script>>
      /\ IF ts # 0 \/ q.left = <<>>
         THEN Learn(t, "look", ts)
         ELSE /\ Run(t, "look", "snapshot")
              /\ rq' = [rq EXCEPT ![t].snap = desc[Head(q.left)]]

NextThread(t, from) ==
  /\ Run(t, from, "look")
  /\ rq' = [rq EXCEPT ![t].left = Tail(@), ![t].snap = None]

(* The state that the snapshot shows, if it is one: the descriptor's       *)
(* sequence number has not changed since.                                  *)
Snapshot(t) ==
  LET q == rq[t]
      u == Head(q.left)
  IN  /\ rpc[t] = "snapshot"
      /\ UNCHANGED <<dcssVars, times, retiring, update, script>>
      /\ IF \/ desc[u].seq # q.snap.seq
            \/ q.node \notin q.snap.payload[q.kind]
            \/ q.snap.state = "FAILED"
         THEN NextThread(t, "snapshot")
         ELSE IF q.snap.state = "SUCCEEDED" THEN Learn(t, "snapshot", q.snap.old1)
         ELSE Run(t, "snapshot", "addr2") /\ UNCHANGED rq

(* An undecided operation is helped if its tag is in place...              *)
ReadAddr2(t) ==
  LET q == rq[t]
      inPlace == word[q.snap.addr2] = Tag(Head(q.left), q.snap.seq)
  IN  /\ rpc[t] = "addr2"
      /\ Run(t, "addr2", IF inPlace THEN "help" ELSE "reread")
      /\ UNCHANGED <<dcssVars, times, retiring, update, rq, script>>

(* ...but helpProcess looks for the tag anew. *)
HelpOther(t) ==
  /\ Run(t, "help", "reread")
  /\ CallHelp(t, HelpProcess(Head(rq[t].left)))
  /\ UNCHANGED <<times, retiring, update, rq, script>>

Reread(t) ==
  LET q == rq[t]
      u == Head(q.left)
  IN  /\ rpc[t] = "reread"
      /\ dpc[t] = "idle"
      /\ UNCHANGED <<dcssVars, times, retiring, update, script>>
      /\ IF desc[u].seq = q.snap.seq /\ desc[u].state = "SUCCEEDED"
         THEN Learn(t, "reread", q.snap.old1)
         ELSE NextThread(t, "reread")

(* traversal_end: the nodes that the others announce; numAnnouncements is  *)
(* read before the entry.                                                  *)
ReadAnnounced(t) ==
  LET q == rq[t]
      u == Head(q.threads)
  IN  /\ rpc[t] = "announced"
      /\ UNCHANGED <<dcssVars, times, retiring, update, script>>
      /\ IF q.threads = <<>>
         THEN /\ Run(t, "announced", "bags")
              /\ rq' = [rq EXCEPT ![t].threads = InOrder(Others(t))]
         ELSE IF announced[u].num = 0
         THEN UNCHANGED rpc /\ rq' = [rq EXCEPT ![t].threads = Tail(@)]
         ELSE Run(t, "announced", "entry") /\ UNCHANGED rq

ReadEntry(t) ==
  LET n == announced[Head(rq[t].threads)].node
  IN  /\ Run(t, "entry", "look")
      /\ rq' = [rq EXCEPT ![t].threads = Tail(@), ![t].node = n, ![t].kind = 1, ![t].left = InOrder(Others(t))]
      /\ UNCHANGED <<dcssVars, times, retiring, update, script>>

(* Then the bags of the others: first an iterator for each... *)
GetSafeBlockbags(t) ==
  LET q == rq[t]
  IN  /\ rpc[t] = "bags"
      /\ UNCHANGED <<dcssVars, times, retiring, update, script>>
      /\ IF q.threads = <<>>
         THEN /\ Run(t, "bags", "bag")
              /\ rq' = [rq EXCEPT ![t].back = "bag"]
         ELSE /\ UNCHANGED rpc
              /\ rq' = [rq EXCEPT ![t].threads = Tail(@), ![t].bags = Append(@, bag[Head(q.threads)])]

(* ...and then the nodes, from the last retired one back: those that have  *)
(* been deleted since traversal_end began are passed over, and the first   *)
(* that was deleted before the query ends the bag.                         *)
NextInBag(t) ==
  LET q == rq[t]
      b == Head(q.bags)
      d == dtime[Head(b)]
      next == [q EXCEPT !.bags = <<Tail(b)>> \o Tail(@)]
  IN  /\ rpc[t] = "bag"
      /\ UNCHANGED <<dcssVars, times, retiring, update, script>>
      /\ IF q.bags = <<>> THEN Run(t, "bag", "done") /\ UNCHANGED rq
         ELSE IF b = <<>> \/ (d # 0 /\ d < q.lin /\ d <= q.end)
         THEN UNCHANGED rpc /\ rq' = [rq EXCEPT ![t].bags = Tail(@)]
         ELSE IF d # 0 /\ d > q.end
         THEN UNCHANGED rpc /\ rq' = [rq EXCEPT ![t] = next]
         ELSE /\ Run(t, "bag", "look")
              /\ rq' = [rq EXCEPT ![t] = [next EXCEPT !.node = Head(b), !.kind = 1, !.left = InOrder(Others(t))]]

Done(t) ==
  /\ Run(t, "done", "idle")
  /\ rq' = [rq EXCEPT ![t] = None]
  /\ UNCHANGED <<dcssVars, times, retiring, update, script>>

-----------------------------------------------------------------------------
DcssRuns(t) == DcssStep(t) /\ UNCHANGED <<times, retiring, rpc, update, rq, script>>

Step(t) ==
  \/ Invoke(t) \/ Announce(t) \/ Stamp(t) \/ Swap(t) \/ NotSwapped(t)
  \/ SetInsertionTimestamps(t) \/ SetDeletionTimestamps(t) \/ DiscardPayloads(t) \/ Retire(t) \/ Unannounce(t)
  \/ Start(t) \/ Traverse(t) \/ Visit(t) \/ Look(t) \/ Snapshot(t) \/ ReadAddr2(t) \/ HelpOther(t) \/ Reread(t)
  \/ ReadAnnounced(t) \/ ReadEntry(t) \/ GetSafeBlockbags(t) \/ NextInBag(t) \/ Done(t)
  \/ DcssRuns(t)

(* What the words held when a query took effect: for a tag, what its       *)
(* operation makes of the word once it is decided.                         *)
Settled(w) ==
  LET d == desc'[w[2]]
  IN  IF ~IsTag(w) \/ d.seq # w[3] \/ d.state = "UNDECIDED" THEN w
      ELSE Plain(IF d.state = "SUCCEEDED" THEN d.new2 ELSE d.old2)
Note ==
  asOf' = [t \in Thread |->
    IF rq'[t] = None THEN None
    ELSE [k \in Key |-> Settled(IF rpc[t] = "start" THEN word[k] ELSE asOf[t][k])]]

Next == (\E t \in Thread : Step(t)) /\ Note

Spec == Init /\ [][Next]_vars

-----------------------------------------------------------------------------
(* A range query returns the keys that were there when it incremented the  *)
(* timestamp, whatever was inserted or deleted while it looked.            *)
RangeQueryAtomic ==
  \A t \in Thread : rpc[t] = "done" =>
    rq[t].keys = {k \in Key : ~IsTag(asOf[t][k]) /\ asOf[t][k] # Plain(None)}
=============================================================================
