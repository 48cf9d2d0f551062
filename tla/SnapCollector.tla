---------------------------- MODULE SnapCollector ----------------------------
(***************************************************************************)
(* The snap collector, and the range query provider over it.  Queries that *)
(* run at the same time share a collector: they add the nodes that they    *)
(* see, in the order of the keys, while updates and searches report to it  *)
(* what they insert, delete or find.  The first query to finish decides    *)
(* the moment of all.                                                      *)
(*                                                                         *)
(* The data structure has a word for the node of each key, and deletes a   *)
(* node logically before it unlinks it.  One action per access to a word   *)
(* that another thread may change.                                         *)
(***************************************************************************)
EXTENDS Integers, FiniteSets, Sequences, SequencesExt

CONSTANTS
  Thread,
  KeyOf,       (* KeyOf[n]: the key of node n; nodes are numbered by their *)
               (* addresses                                                *)
  Present,     (* the nodes in the data structure at the beginning         *)
  Scripts      (* bound: the calls of each thread, one after the other     *)

VARIABLES
  linked,      (* linked[k]: the node with key k                           *)
  marked,      (* the nodes that have been deleted logically               *)
  unused,      (* nodes that have not been inserted yet                    *)
  seenIn,      (* nodes that some call has returned to have found or       *)
  seenOut,     (* inserted, and not to have found or to have deleted       *)
  snapPointer, (* the current collector                                    *)
  collectors,
  pc,
  job,         (* job[t]: the call of t, and the local variables           *)
  script       (* script[t]: the calls of t still to come                  *)

structure == <<linked, marked, unused>>
known == <<seenIn, seenOut>>
vars == <<structure, known, snapPointer, collectors, pc, job, script>>

Node == DOMAIN KeyOf
Key == {KeyOf[n] : n \in Node}
KeyMax == Max(Key) + 1
NoNode == 0

(* The tail of a list of nodes to which nobody is to add any more. *)
Blocker == -1

(* Nodes of the list are counted from the first; tail may be one behind.   *)
NewCollector ==
  [active |-> TRUE, nodes |-> <<>>, tail |-> 0,
   reports |-> [t \in Thread |-> <<>>], blocked |-> {},
   sorted |-> FALSE, allReports |-> <<>>,
   joined |-> {},               (* the threads of its queries              *)
   owed |-> {}, denied |-> {}]  (* what was, or was not, in the data       *)
                                (* structure when it was deactivated       *)

Init ==
  /\ linked = [k \in Key |-> IF \E n \in Present : KeyOf[n] = k THEN CHOOSE n \in Present : KeyOf[n] = k ELSE NoNode]
  /\ marked = {}
  /\ unused = Node \ Present
  /\ seenIn = Present
  /\ seenOut = {}
  /\ snapPointer = 1
  /\ collectors = <<[NewCollector EXCEPT !.active = FALSE, !.tail = Blocker, !.blocked = Thread]>>
  /\ pc = [t \in Thread |-> "idle"]
  /\ job = [t \in Thread |-> <<>>]
  /\ script \in Scripts

Go(t, from, to) == pc[t] = from /\ pc' = [pc EXCEPT ![t] = to]
Set(t, changed) == job' = [job EXCEPT ![t] = changed @@ @]

-----------------------------------------------------------------------------
(* Updates and searches.  after is what is left to do after a report.      *)

Update(call) == call @@ [node |-> NoNode, wish |-> "", sc |-> 0, after |-> <<>>, in |-> {}, out |-> {}]
Query == [op |-> "query", sc |-> 0, key |-> 1, node |-> NoNode, last |-> 0, tid |-> 1, loc |-> 0, rep |-> 1, result |-> <<>>]

Begin(t) ==
  /\ script[t] # <<>>
  /\ LET call == Head(script[t])
     IN  /\ Go(t, "idle", IF call.op = "query" THEN "start" ELSE "find")
         /\ job' = [job EXCEPT ![t] = IF call.op = "query" THEN Query ELSE Update(call)]
  /\ script' = [script EXCEPT ![t] = Tail(@)]
  /\ UNCHANGED <<structure, known, snapPointer, collectors>>

Find(t) ==
  LET call == job[t]
      n == linked[call.key]
      older == {m \in Node \ unused : KeyOf[m] = call.key}
      absent == n = NoNode
      deleted == n \in marked
  IN  /\ pc[t] = "find"
      /\ CASE call.op = "insert" /\ absent ->
                Go(t, "find", "link") /\ Set(t, [out |-> older])
           [] call.op = "insert" /\ deleted ->
                Go(t, "find", "report") /\ Set(t, [node |-> n, wish |-> "remove", after |-> <<"unlink", "find">>])
           [] call.op = "insert" /\ ~absent /\ ~deleted ->
                Go(t, "find", "report") /\ Set(t, [node |-> n, wish |-> "add", after |-> <<"return">>, in |-> {n}])
           [] call.op = "delete" /\ ~absent /\ ~deleted ->
                Go(t, "find", "mark") /\ Set(t, [node |-> n])
           [] call.op = "search" /\ ~absent ->
                Go(t, "find", "report") /\ Set(t, [node |-> n, wish |-> "either", after |-> <<"return">>,
                                                   in |-> {n} \ marked, out |-> {n} \cap marked])
           [] OTHER -> Go(t, "find", "return") /\ Set(t, [out |-> older])
      /\ UNCHANGED <<structure, known, snapPointer, collectors, script>>

(* linearize_update_at_cas: an insertion... *)
Link(t) ==
  LET k == job[t].key
  IN  /\ pc[t] = "link"
      /\ IF linked[k] # NoNode
         THEN Go(t, "link", "find") /\ UNCHANGED <<linked, unused, job>>
         ELSE /\ Go(t, "link", "report")
              /\ \E n \in {m \in unused : KeyOf[m] = k} :
                   /\ linked' = [linked EXCEPT ![k] = n]
                   /\ unused' = unused \ {n}
                   /\ Set(t, [node |-> n, wish |-> "add", after |-> <<"return">>, in |-> {n}])
      /\ UNCHANGED <<marked, known, snapPointer, collectors, script>>

(* Mutant: the node is unlinked before its deletion is reported. *)
MarkReportsLast(t) ==
  LET n == job[t].node
  IN  /\ pc[t] = "mark"
      /\ IF n \in marked
         THEN Go(t, "mark", "find") /\ UNCHANGED <<marked, job>>
         ELSE /\ Go(t, "mark", "unlink")
              /\ marked' = marked \cup {n}
              /\ Set(t, [wish |-> "remove", after |-> <<"report", "return">>, out |-> {n}])
      /\ UNCHANGED <<linked, unused, known, snapPointer, collectors, script>>

(* ...or a deletion, which is announced again before the node is unlinked. *)
Mark(t) ==
  LET n == job[t].node
  IN  /\ pc[t] = "mark"
      /\ IF n \in marked
         THEN Go(t, "mark", "find") /\ UNCHANGED <<marked, job>>
         ELSE /\ Go(t, "mark", "report")
              /\ marked' = marked \cup {n}
              /\ Set(t, [wish |-> "remove", after |-> <<"report", "unlink", "return">>, out |-> {n}])
      /\ UNCHANGED <<linked, unused, known, snapPointer, collectors, script>>

(* The next thing to do. *)
GoOn(t, from) == Go(t, from, Head(job[t].after)) /\ Set(t, [after |-> Tail(job[t].after)])

Unlink(t) ==
  LET n == job[t].node
  IN  /\ pc[t] = "unlink"
      /\ GoOn(t, "unlink")
      /\ linked' = IF linked[KeyOf[n]] = n THEN [linked EXCEPT ![KeyOf[n]] = NoNode] ELSE linked
      /\ UNCHANGED <<marked, unused, known, snapPointer, collectors, script>>

Return(t) ==
  /\ Go(t, "return", "idle")
  /\ seenIn' = seenIn \cup job[t].in
  /\ seenOut' = seenOut \cup job[t].out
  /\ job' = [job EXCEPT ![t] = <<>>]
  /\ UNCHANGED <<structure, snapPointer, collectors, script>>

-----------------------------------------------------------------------------
(* search_, insert_readonly_ and delete_report_target_key, and Report.     *)

ReadCollector(t) ==
  /\ Go(t, "report", "active")
  /\ Set(t, [sc |-> snapPointer])
  /\ UNCHANGED <<structure, known, snapPointer, collectors, script>>

IsActive(t) ==
  /\ pc[t] = "active"
  /\ IF collectors[job[t].sc].active
     THEN Go(t, "active", IF job[t].wish = "remove" THEN "append" ELSE "deleted") /\ UNCHANGED job
     ELSE GoOn(t, "active")
  /\ UNCHANGED <<structure, known, snapPointer, collectors, script>>

(* An insertion has nothing to report of a node that has been deleted. *)
IsLogicallyDeleted(t) ==
  LET deleted == job[t].node \in marked
  IN  /\ pc[t] = "deleted"
      /\ IF deleted /\ job[t].wish = "add"
         THEN GoOn(t, "deleted")
         ELSE Go(t, "deleted", "append") /\ Set(t, [wish |-> IF deleted THEN "remove" ELSE "add"])
      /\ UNCHANGED <<structure, known, snapPointer, collectors, script>>

AppendReport(t) ==
  LET sc == job[t].sc
      report == [node |-> job[t].node, type |-> job[t].wish]
  IN  /\ pc[t] = "append"
      /\ IF t \in collectors[sc].blocked
         THEN GoOn(t, "append") /\ UNCHANGED collectors
         ELSE /\ Go(t, "append", "advance")
              /\ collectors' = [collectors EXCEPT ![sc].reports[t] = Append(@, report)]
              /\ UNCHANGED job
      /\ UNCHANGED <<structure, known, snapPointer, script>>

AdvanceReports(t) ==
  /\ pc[t] = "advance"
  /\ GoOn(t, "advance")
  /\ UNCHANGED <<structure, known, snapPointer, collectors, script>>

-----------------------------------------------------------------------------
(* traversal_start: a query joins the collector, or replaces one that is   *)
(* not active any more.                                                    *)

Start(t) ==
  /\ Go(t, "start", "join")
  /\ Set(t, [sc |-> snapPointer])
  /\ UNCHANGED <<structure, known, snapPointer, collectors, script>>

Join(t) ==
  LET sc == job[t].sc
  IN  /\ Go(t, "join", IF collectors[sc].active THEN "traverse" ELSE "replace")
      /\ collectors' = IF collectors[sc].active THEN [collectors EXCEPT ![sc].joined = @ \cup {t}] ELSE collectors
      /\ UNCHANGED <<structure, known, snapPointer, job, script>>

Replace(t) ==
  /\ pc[t] = "replace"
  /\ IF snapPointer # job[t].sc
     THEN Go(t, "replace", "replaced") /\ UNCHANGED <<snapPointer, collectors, job>>
     ELSE /\ Go(t, "replace", "traverse")
          /\ collectors' = Append(collectors, [NewCollector EXCEPT !.joined = {t}])
          /\ snapPointer' = Len(collectors) + 1
          /\ Set(t, [sc |-> snapPointer'])
  /\ UNCHANGED <<structure, known, script>>

Replaced(t) ==
  /\ Go(t, "replaced", "traverse")
  /\ Set(t, [sc |-> snapPointer])
  /\ collectors' = [collectors EXCEPT ![snapPointer].joined = @ \cup {t}]
  /\ UNCHANGED <<structure, known, snapPointer, script>>

(* The data structure looks at the nodes in the order of the keys, until   *)
(* the collector is not active any more.                                   *)
Traverse(t) ==
  LET k == job[t].key
      done == k = KeyMax \/ ~collectors[job[t].sc].active
      n == linked[k]
  IN  /\ pc[t] = "traverse"
      /\ IF done THEN Go(t, "traverse", "block") /\ UNCHANGED job
         ELSE IF n \in {NoNode} \cup marked THEN Set(t, [key |-> k + 1]) /\ UNCHANGED pc
         ELSE Go(t, "traverse", "tail") /\ Set(t, [node |-> n])
      /\ UNCHANGED <<structure, known, snapPointer, collectors, script>>

(* traversal_try_add, AddNode: it returns the last node, after which the   *)
(* traversal goes on; without one it tries again.                          *)
GoOnAfter(t, from, c, last) ==
  /\ Go(t, from, "traverse")
  /\ Set(t, [key |-> IF last \in {0, Blocker} THEN job[t].key ELSE KeyOf[c.nodes[last]] + 1])

ReadTail(t) ==
  LET c == collectors[job[t].sc]
  IN  /\ pc[t] = "tail"
      /\ IF c.tail = Blocker \/ (c.tail > 0 /\ KeyOf[c.nodes[c.tail]] >= job[t].key)
         THEN GoOnAfter(t, "tail", c, c.tail)
         ELSE Go(t, "tail", "last") /\ Set(t, [last |-> c.tail])
      /\ UNCHANGED <<structure, known, snapPointer, collectors, script>>

TailAdvanced(c, last) == IF c.tail = last THEN last + 1 ELSE c.tail

ReadLast(t) ==
  LET c == collectors[job[t].sc]
      last == job[t].last
  IN  /\ pc[t] = "last"
      /\ IF last = Len(c.nodes)
         THEN Go(t, "last", "add") /\ UNCHANGED <<collectors, job>>
         ELSE /\ collectors' = [collectors EXCEPT ![job[t].sc].tail = TailAdvanced(c, last)]
              /\ GoOnAfter(t, "last", c, TailAdvanced(c, last))
      /\ UNCHANGED <<structure, known, snapPointer, script>>

AddNode(t) ==
  LET c == collectors[job[t].sc]
  IN  /\ pc[t] = "add"
      /\ IF job[t].last = Len(c.nodes)
         THEN /\ Go(t, "add", "added")
              /\ collectors' = [collectors EXCEPT ![job[t].sc].nodes = Append(@, job[t].node)]
              /\ UNCHANGED job
         ELSE GoOnAfter(t, "add", c, c.tail) /\ UNCHANGED collectors
      /\ UNCHANGED <<structure, known, snapPointer, script>>

AddedNode(t) ==
  LET c == collectors[job[t].sc]
  IN  /\ pc[t] = "added"
      /\ collectors' = [collectors EXCEPT ![job[t].sc].tail = TailAdvanced(c, job[t].last)]
      /\ GoOnAfter(t, "added", c, job[t].last + 1)
      /\ UNCHANGED <<structure, known, snapPointer, script>>

-----------------------------------------------------------------------------
(* traversal_end *)

BlockFurtherPointers(t) ==
  /\ Go(t, "block", "deactivate")
  /\ collectors' = [collectors EXCEPT ![job[t].sc].tail = Blocker]
  /\ UNCHANGED <<structure, known, snapPointer, job, script>>

(* The moment of the queries.  A call that has not returned, and of which  *)
(* nobody else has told, may come before or after it.                      *)
Deactivate(t) ==
  /\ Go(t, "deactivate", "reports")
  /\ collectors' =
       IF ~collectors[job[t].sc].active THEN collectors
       ELSE [collectors EXCEPT ![job[t].sc].active = FALSE,
                               ![job[t].sc].owed = seenIn \ marked,
                               ![job[t].sc].denied = seenOut \cup unused]
  /\ UNCHANGED <<structure, known, snapPointer, job, script>>

(* A list whose owner has appended a report and not advanced its tail yet  *)
(* is not blocked.                                                         *)
BlockFurtherReports(t) ==
  LET sc == job[t].sc
      u == job[t].tid
      behind == pc[u] = "advance" /\ job[u].sc = sc
  IN  /\ pc[t] = "reports"
      /\ pc' = [pc EXCEPT ![t] = IF u = Cardinality(Thread) THEN "prepare" ELSE "reports"]
      /\ Set(t, [tid |-> u + 1])
      /\ collectors' = IF behind THEN collectors ELSE [collectors EXCEPT ![sc].blocked = @ \cup {u}]
      /\ UNCHANGED <<structure, known, snapPointer, script>>

(* compareCRI: by key, then by address, then by type. *)
Ordinal(type) == IF type = "add" THEN 1 ELSE 0
CompareCRI(a, b) ==
  \/ KeyOf[a.node] < KeyOf[b.node]
  \/ KeyOf[a.node] = KeyOf[b.node] /\ a.node < b.node
  \/ a.node = b.node /\ Ordinal(a.type) < Ordinal(b.type)

(* The first of the queries to get here sorts the reports for all. *)
Prepare(t) ==
  LET c == collectors[job[t].sc]
      all == UNION {ToSet(c.reports[u]) : u \in Thread}
  IN  /\ Go(t, "prepare", "next")
      /\ collectors' =
           IF c.sorted THEN collectors
           ELSE [collectors EXCEPT ![job[t].sc].sorted = TRUE,
                                   ![job[t].sc].allReports = SetToSortSeq(all, CompareCRI)]
      /\ UNCHANGED <<structure, known, snapPointer, job, script>>

(* GetNext merges the list of nodes, which may still grow, and the reports.*)
(* Of the reports of one node it looks at the last; of the nodes of one    *)
(* key it returns the first that this one says has been added.             *)
GetNext(t) ==
  LET c == collectors[job[t].sc]
      q == job[t]
      next == IF q.loc < Len(c.nodes) THEN c.nodes[q.loc + 1] ELSE NoNode
      nodeKey == IF next = NoNode THEN KeyMax ELSE KeyOf[next]
      all == c.allReports
      repKey == IF q.rep <= Len(all) THEN KeyOf[all[q.rep].node] ELSE KeyMax
      ofNode == Max({i \in DOMAIN all : all[i].node = all[q.rep].node})
      ofKey == Max({i \in DOMAIN all : KeyOf[all[i].node] = repKey})
      held == IF nodeKey = repKey THEN q.loc + 1 ELSE q.loc
  IN  /\ pc[t] = "next"
      /\ IF nodeKey = KeyMax /\ repKey = KeyMax
         THEN Go(t, "next", "end") /\ UNCHANGED job
         ELSE /\ UNCHANGED pc
              /\ Set(t, IF nodeKey < repKey
                        THEN [loc |-> q.loc + 1, result |-> Append(q.result, next)]
                        ELSE IF all[ofNode].type = "add"
                        THEN [loc |-> held, rep |-> ofKey + 1, result |-> Append(q.result, all[ofNode].node)]
                        ELSE [loc |-> IF all[ofNode].node = next THEN held ELSE q.loc, rep |-> ofNode + 1])
      /\ UNCHANGED <<structure, known, snapPointer, collectors, script>>

EndQuery(t) ==
  /\ Go(t, "end", "idle")
  /\ job' = [job EXCEPT ![t] = <<>>]
  /\ UNCHANGED <<structure, known, snapPointer, collectors, script>>

-----------------------------------------------------------------------------
Step(t) ==
  \/ Begin(t) \/ Find(t) \/ Link(t) \/ Mark(t) \/ Unlink(t) \/ Return(t)
  \/ ReadCollector(t) \/ IsActive(t) \/ IsLogicallyDeleted(t) \/ AppendReport(t) \/ AdvanceReports(t)
  \/ Start(t) \/ Join(t) \/ Replace(t) \/ Replaced(t)
  \/ Traverse(t) \/ ReadTail(t) \/ ReadLast(t) \/ AddNode(t) \/ AddedNode(t)
  \/ BlockFurtherPointers(t) \/ Deactivate(t) \/ BlockFurtherReports(t) \/ Prepare(t) \/ GetNext(t) \/ EndQuery(t)

Next == \E t \in Thread : Step(t)

Spec == Init /\ [][Next]_vars

-----------------------------------------------------------------------------
Reported(c, n, type) == [node |-> n, type |-> type] \in ToSet(c.allReports)

(* A query returns the nodes that were in the data structure when its      *)
(* collector was deactivated and, if it shares the collector with no other *)
(* query, only those, once for each key.  Two cases are not covered.  Of a *)
(* node that has been reported as removed and as added, the wrong report   *)
(* comes last.  And a search may find the collector active, and then that  *)
(* the node has been deleted, after the moment of the query.               *)
RangeQueryAtomic ==
  \A t \in Thread : pc[t] = "end" =>
    LET c == collectors[job[t].sc]
        result == job[t].result
    IN  /\ \A n \in c.owed \ ToSet(result) : Reported(c, n, "remove")
        /\ c.joined = {t} =>
             /\ \A i \in 2 .. Len(result) : KeyOf[result[i - 1]] < KeyOf[result[i]]
             /\ \A n \in ToSet(result) \cap c.denied : Reported(c, n, "add") /\ Reported(c, n, "remove")
=============================================================================
