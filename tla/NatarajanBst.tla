----------------------------- MODULE NatarajanBst -----------------------------
(***************************************************************************)
(* The external binary search tree of Natarajan and Mittal with memory     *)
(* reclamation (natarajan_ext_bst_lf, stage 2).  Keys are in the leaves.   *)
(* The word of a child holds its address, a flag (the child is a leaf that *)
(* is being deleted) and a mark (its parent is being removed).  A deletion *)
(* flags the word of its leaf, marks the word of the sibling, and swings   *)
(* the last unmarked word above from its child to the sibling, which may   *)
(* remove the leaves of other deletions with it; whoever meets it can do   *)
(* the last two steps.                                                     *)
(*                                                                         *)
(* One action per access to a word.  The words of a leaf never change:     *)
(* the read that finds that a node is a leaf is part of the next step.     *)
(* The tree is composed with what Reclamation promises: a node may be      *)
(* allocated again as soon as it is retired and no operation in progress   *)
(* has been running since before it was unlinked.                          *)
(***************************************************************************)
EXTENDS Integers, Sequences, FiniteSets

CONSTANTS
  Thread,
  MaxKey,     (* the keys of callers are 1 .. MaxKey                       *)
  Value, NoValue,
  Prefill,    (* the keys that are inserted before the threads start       *)
  NumNodes,   (* bound: the nodes are 1 .. NumNodes                        *)
  Scripts     (* bound: what the threads may call, one set of calls for    *)
              (* each call of a thread                                     *)

VARIABLES
  mem,      (* the nodes                                                   *)
  pc, call, (* where t is, and in which operation                          *)
  loc,      (* the local variables of t                                    *)
  linked,   (* history: the nodes reachable from the root                  *)
  dict,     (* history: what a search would find if nobody else was at work *)
  owed,     (* history: owed[t]: unlinked by t, not yet retired            *)
  pinned,   (* history: pinned[t]: unlinked since t's startOp              *)
  seen,     (* history: values of the key of t's call since it began       *)
  answer,   (* what the last call of t returned                            *)
  script    (* what the threads have still to call                         *)

shared == <<mem, linked, dict, owed>>
vars == <<mem, pc, call, loc, linked, dict, owed, pinned, seen, answer, script>>

-----------------------------------------------------------------------------
Key == 1 .. MaxKey
Node == 1 .. NumNodes
NULL == 0
Root == 1
Sides == {"left", "right"}

NoCall == [op |-> "none"]
Call == [op : {"find", "erase"}, key : Key] \cup [op : {"insertIfAbsent"}, key : Key, value : Value]

ASSUME BstAssumption ==
  /\ MaxKey \in Nat
  /\ Prefill \in Seq(1 .. MaxKey)
  /\ \A i, j \in DOMAIN Prefill : i # j => Prefill[i] # Prefill[j]
  /\ NumNodes \in Nat /\ NumNodes >= 3 + 2 * Len(Prefill)
  /\ Scripts \subseteq [Thread -> Seq(SUBSET Call)]
  /\ NoValue \notin Value

(* create_child_word *)
Word(addr, mark, flag) == [addr |-> addr, mark |-> mark, flag |-> flag]
NullWord == Word(NULL, FALSE, FALSE)
IsFree(w) == ~w.mark /\ ~w.flag

Leaf(k, v) == [key |-> k, value |-> v, left |-> NullWord, right |-> NullWord]
Internal(k, l, r) ==
  [key |-> k, value |-> NoValue, left |-> Word(l, FALSE, FALSE), right |-> Word(r, FALSE, FALSE)]

(* cmp(key, node->key) chooses the side. *)
SideOf(k, node) == IF k < node.key THEN "left" ELSE "right"
Side(t, n) == SideOf(call[t].key, mem[n])
Sibling(s) == IF s = "left" THEN "right" ELSE "left"

(* The new internal node that replaces a leaf, above it and the new leaf. *)
NewInternal(new, newLeaf, exist, existLeaf) ==
  IF new < exist THEN Internal(exist, newLeaf, existLeaf) ELSE Internal(new, existLeaf, newLeaf)

IsLeaf(node) == node.left.addr = NULL

(* The nodes that are reached from those of start along next, found round  *)
(* by round.  There are NumNodes nodes: that many rounds find them all.    *)
Rounds(next, start) ==
  LET further == [r \in [found : SUBSET Node, new : SUBSET Node] |->
                    [found |-> r.found \cup UNION {next[n] : n \in r.new},
                     new |-> (UNION {next[n] : n \in r.new}) \ r.found]]
      round[d \in 0 .. NumNodes] ==
        IF d = 0 THEN [found |-> start, new |-> start] ELSE further[round[d - 1]]
  IN  round

Reach(next, start) == Rounds(next, start)[NumNodes].found

Kids(m) == [n \in Node |-> {m[n][s].addr : s \in Sides} \ {NULL}]
Turn(m, k) == [n \in Node |-> {m[n][SideOf(k, m[n])].addr} \ {NULL}]

Reachable(m) == Reach(Kids(m), {Root})

(* The way of a search for k if nobody else is at work. *)
Path(m, k) == Reach(Turn(m, k), {Root})

LeavesAt(m, k) == {n \in Path(m, k) : IsLeaf(m[n]) /\ m[n].key = k}

Contents(m) ==
  [k \in Key |-> IF LeavesAt(m, k) = {} THEN NoValue
                 ELSE m[CHOOSE n \in LeavesAt(m, k) : TRUE].value]

(* An insert: the new leaf and the leaf that was below parent become the   *)
(* children of the new internal node.                                      *)
Grown(m, parent, k, v, newLeaf, newInt) ==
  LET side == SideOf(k, m[parent])
      exist == m[parent][side].addr
  IN  [m EXCEPT ![newLeaf] = Leaf(k, v),
                ![newInt] = NewInternal(k, newLeaf, m[exist].key, exist),
                ![parent][side] = Word(newInt, FALSE, FALSE)]

(* The tree that sequential inserts of Prefill make of the constructor's.  *)
EmptyTree ==
  [n \in Node |-> IF n = Root THEN Internal(MaxKey + 2, 2, 3)
                  ELSE IF n = 2 THEN Leaf(MaxKey + 1, NoValue) ELSE Leaf(MaxKey + 2, NoValue)]

ParentFor(m, k) == CHOOSE n \in Path(m, k) : \E c \in Turn(m, k)[n] : IsLeaf(m[c])

Prefilled(v) ==
  LET tree[i \in 0 .. Len(Prefill)] ==
        IF i = 0 THEN EmptyTree
        ELSE Grown(tree[i - 1], ParentFor(tree[i - 1], Prefill[i]), Prefill[i], v, 2 * i + 2, 2 * i + 3)
  IN  tree[Len(Prefill)]

NoLocals ==
  [lum |-> NULL, lumC |-> NullWord,    (* the seek record: the last node   *)
                                       (* whose word on the path is not    *)
                                       (* marked, and that word;           *)
   parent |-> NULL, pL |-> NullWord,   (* the parent of the leaf, and the  *)
                                       (* word of the leaf                 *)
   cur |-> NULL,                       (* search                           *)
   leaf |-> NULL,                      (* the leaf that t has flagged      *)
   pS |-> NullWord,                    (* the word of the sibling          *)
   todo |-> <<>>,                      (* calls of retireDeletedNodes      *)
   retval |-> NoValue]

Init ==
  /\ \E v \in Value : mem = Prefilled(v)
  /\ pc = [t \in Thread |-> "idle"]
  /\ call = [t \in Thread |-> NoCall]
  /\ loc = [t \in Thread |-> NoLocals]
  /\ linked = Reachable(mem)
  /\ dict = Contents(mem)
  /\ owed = [t \in Thread |-> {}]
  /\ pinned = [t \in Thread |-> {}]
  /\ seen = [t \in Thread |-> {}]
  /\ answer = [t \in Thread |-> NoValue]
  /\ script \in Scripts

-----------------------------------------------------------------------------
(* The nodes that allocate may return. *)
Available ==
  Node \ (linked \cup (UNION {owed[t] : t \in Thread}) \cup (UNION {pinned[t] : t \in Thread}))

GoTo(t, from, to) == pc[t] = from /\ pc' = [pc EXCEPT ![t] = to]

(* t gives the tree a new shape: what it cuts off is pinned by every       *)
(* operation in progress, and t owes its retirement.                       *)
Reshape(t, m) ==
  LET gone == linked \ linked'
  IN  /\ mem' = m
      /\ linked' = Reachable(mem')
      /\ dict' = Contents(mem')
      /\ owed' = [owed EXCEPT ![t] = @ \cup gone]
      /\ pinned' = [u \in Thread |-> IF pc[u] = "idle" THEN {} ELSE pinned[u] \cup gone]
      /\ seen' = [u \in Thread |->
                    IF call[u] = NoCall THEN {} ELSE seen[u] \cup {dict'[call[u].key]}]

Invoke(t, c) ==
  /\ GoTo(t, "idle", "root")
  /\ script[t] # <<>>
  /\ c \in Head(script[t])
  /\ script' = [script EXCEPT ![t] = Tail(@)]
  /\ call' = [call EXCEPT ![t] = c]
  /\ seen' = [seen EXCEPT ![t] = {dict[c.key]}]
  /\ UNCHANGED <<shared, loc, pinned, answer>>

Return(t) ==
  /\ GoTo(t, "return", "idle")
  /\ answer' = [answer EXCEPT ![t] = loc[t].retval]
  /\ call' = [call EXCEPT ![t] = NoCall]
  /\ loc' = [loc EXCEPT ![t] = NoLocals]
  /\ pinned' = [pinned EXCEPT ![t] = {}]
  /\ seen' = [seen EXCEPT ![t] = {}]
  /\ UNCHANGED <<shared, script>>

(* The caller's view does not change and t stays inside its guard. *)
Quiet == UNCHANGED <<call, pinned, seen, answer, script>>

Answer(t, from, v) ==
  /\ GoTo(t, from, "return")
  /\ loc' = [loc EXCEPT ![t] = [NoLocals EXCEPT !.leaf = loc[t].leaf, !.retval = v]]
  /\ UNCHANGED shared
  /\ Quiet

(* Mutant: the next round goes on where the last one was. *)
RetryInPlace(t, from) ==
  /\ GoTo(t, from, "seek")
  /\ pinned' = [pinned EXCEPT ![t] = {}]
  /\ loc' = [loc EXCEPT ![t].pS = NullWord, ![t].todo = <<>>]
  /\ UNCHANGED <<call, seen, answer, script>>

(* The loop of insertIfAbsent or delete_node goes round: the guard closes  *)
(* and opens again.                                                        *)
Retry(t, from) ==
  /\ GoTo(t, from, "root")
  /\ loc' = [loc EXCEPT ![t] = NoLocals]
  /\ pinned' = [pinned EXCEPT ![t] = {}]
  /\ UNCHANGED <<call, seen, answer, script>>

-----------------------------------------------------------------------------
(* search *)
FindRoot(t) ==
  /\ call[t] # NoCall /\ call[t].op = "find"
  /\ GoTo(t, "root", "find")
  /\ loc' = [loc EXCEPT ![t].cur = mem[Root].left.addr]
  /\ UNCHANGED shared
  /\ Quiet

FindDown(t) ==
  LET n == loc[t].cur
      next == mem[n][Side(t, n)].addr
  IN  /\ pc[t] = "find"
      /\ IF next # NULL
         THEN /\ loc' = [loc EXCEPT ![t].cur = next]
              /\ UNCHANGED <<shared, pc>>
              /\ Quiet
         ELSE Answer(t, "find", IF mem[n].key = call[t].key THEN mem[n].value ELSE NoValue)

-----------------------------------------------------------------------------
(* insseek, delseek and secondary_seek follow the same path. *)
SeekRoot(t) ==
  /\ call[t] # NoCall /\ call[t].op # "find"
  /\ GoTo(t, "root", "seek")
  /\ loc' = [loc EXCEPT ![t] = [NoLocals EXCEPT
       !.parent = Root, !.pL = mem[Root].left, !.leaf = loc[t].leaf, !.retval = loc[t].retval]]
  /\ UNCHANGED shared
  /\ Quiet

(* Mutant: the seek takes the grandparent for the last unmarked node. *)
SeekDownByGrandparent(t) ==
  LET l == loc[t]
      n == l.pL.addr
      next == mem[n][Side(t, n)]
  IN  /\ GoTo(t, "seek", "seek")
      /\ next.addr # NULL
      /\ loc' = [loc EXCEPT ![t] =
           [l EXCEPT !.parent = n, !.pL = next, !.lum = l.parent, !.lumC = l.pL]]
      /\ UNCHANGED shared
      /\ Quiet

SeekDown(t) ==
  LET l == loc[t]
      n == l.pL.addr
      next == mem[n][Side(t, n)]
  IN  /\ GoTo(t, "seek", "seek")
      /\ next.addr # NULL
      /\ loc' = [loc EXCEPT ![t] =
           [l EXCEPT !.parent = n, !.pL = next,
                     !.lum = IF l.pL.mark THEN @ ELSE l.parent,
                     !.lumC = IF l.pL.mark THEN @ ELSE l.pL]]
      /\ UNCHANGED shared
      /\ Quiet

(* The seek of t has come to a leaf.  An operation that has flagged its    *)
(* leaf is in delete_node's inner loop.                                    *)
AtLeaf(t) == pc[t] = "seek" /\ IsLeaf(mem[loc[t].pL.addr])
KeyFound(t) == mem[loc[t].pL.addr].key = call[t].key
Injected(t) == loc[t].leaf # NULL

InsertFound(t) ==
  /\ AtLeaf(t) /\ call[t].op = "insertIfAbsent"
  /\ KeyFound(t)
  /\ Answer(t, "seek", mem[loc[t].pL.addr].value)

(* Mutant: the insert does not look whether the word is free. *)
InsertWindowAnyWord(t) ==
  LET l == loc[t]
  IN  /\ AtLeaf(t) /\ call[t].op = "insertIfAbsent"
      /\ ~KeyFound(t)
      /\ mem[l.parent][Side(t, l.parent)] = l.pL
      /\ \E newInt \in Available : \E newLeaf \in Available \ {newInt} :
           Reshape(t, Grown(mem, l.parent, call[t].key, call[t].value, newLeaf, newInt))
      /\ GoTo(t, "seek", "return")
      /\ loc' = [loc EXCEPT ![t] = NoLocals]
      /\ UNCHANGED <<call, answer, script>>

(* perform_one_insert_window_operation *)
InsertWindow(t) ==
  LET l == loc[t]
  IN  /\ AtLeaf(t) /\ call[t].op = "insertIfAbsent"
      /\ ~KeyFound(t)
      /\ IsFree(l.pL)
      /\ IF mem[l.parent][Side(t, l.parent)] = l.pL
         THEN /\ \E newInt \in Available : \E newLeaf \in Available \ {newInt} :
                   Reshape(t, Grown(mem, l.parent, call[t].key, call[t].value, newLeaf, newInt))
              /\ GoTo(t, "seek", "return")
              /\ loc' = [loc EXCEPT ![t] = NoLocals]
              /\ UNCHANGED <<call, answer, script>>
         ELSE Retry(t, "seek") /\ UNCHANGED shared

EraseAbsent(t) ==
  /\ AtLeaf(t) /\ call[t].op = "erase" /\ ~Injected(t)
  /\ ~KeyFound(t)
  /\ Answer(t, "seek", NoValue)

(* Mutant: the key is taken for the value. *)
InjectForKey(t) ==
  LET l == loc[t]
      side == Side(t, l.parent)
  IN  /\ AtLeaf(t) /\ call[t].op = "erase" /\ ~Injected(t)
      /\ KeyFound(t)
      /\ IsFree(l.pL)
      /\ mem[l.parent][side] = l.pL
      /\ GoTo(t, "seek", "mark")
      /\ mem' = [mem EXCEPT ![l.parent][side] = Word(l.pL.addr, FALSE, TRUE)]
      /\ loc' = [loc EXCEPT ![t].leaf = l.pL.addr, ![t].retval = call[t].key]
      /\ UNCHANGED <<linked, dict, owed>>
      /\ Quiet

Inject(t) ==
  LET l == loc[t]
      side == Side(t, l.parent)
  IN  /\ AtLeaf(t) /\ call[t].op = "erase" /\ ~Injected(t)
      /\ KeyFound(t)
      /\ IsFree(l.pL)
      /\ IF mem[l.parent][side] = l.pL
         THEN /\ GoTo(t, "seek", "mark")
              /\ mem' = [mem EXCEPT ![l.parent][side] = Word(l.pL.addr, FALSE, TRUE)]
              /\ loc' = [loc EXCEPT ![t].leaf = l.pL.addr, ![t].retval = mem[l.pL.addr].value]
              /\ UNCHANGED <<linked, dict, owed>>
              /\ Quiet
         ELSE Retry(t, "seek") /\ UNCHANGED shared

(* secondary_seek does not find the flagged leaf: somebody has removed it. *)
SecondaryGone(t) ==
  /\ AtLeaf(t) /\ Injected(t)
  /\ ~loc[t].pL.flag \/ loc[t].pL.addr # loc[t].leaf
  /\ Answer(t, "seek", loc[t].retval)

(* Another deletion is in the way. *)
Conflict(t) ==
  /\ AtLeaf(t) /\ ~Injected(t)
  /\ IF call[t].op = "erase" THEN KeyFound(t) ELSE ~KeyFound(t)

(* Mutant: whoever meets a flagged word tries again until it is gone. *)
MarkByOwner(t) ==
  \/ /\ Conflict(t) /\ loc[t].pL.flag
     /\ Retry(t, "seek")
     /\ UNCHANGED shared
  \/ /\ \/ pc[t] = "mark"
        \/ AtLeaf(t) /\ Injected(t) /\ loc[t].pL.flag /\ loc[t].pL.addr = loc[t].leaf
     /\ pc' = [pc EXCEPT ![t] = "read"]
     /\ mem' = [mem EXCEPT ![loc[t].parent][Sibling(Side(t, loc[t].parent))].mark = TRUE]
     /\ UNCHANGED <<linked, dict, owed, loc>>
     /\ Quiet

(* mark_Node, an atomic bit test and set.  The owner gets here by inject   *)
(* or by secondary_seek, a helper when it meets a flagged word.            *)
Mark(t) ==
  LET l == loc[t]
  IN  /\ \/ pc[t] = "mark"
         \/ Conflict(t) /\ l.pL.flag
         \/ AtLeaf(t) /\ Injected(t) /\ l.pL.flag /\ l.pL.addr = l.leaf
      /\ pc' = [pc EXCEPT ![t] = "read"]
      /\ mem' = [mem EXCEPT ![l.parent][Sibling(Side(t, l.parent))].mark = TRUE]
      /\ UNCHANGED <<linked, dict, owed, loc>>
      /\ Quiet

ReadSibling(t) ==
  /\ GoTo(t, "read", "swing")
  /\ loc' = [loc EXCEPT ![t].pS = mem[loc[t].parent][Sibling(Side(t, loc[t].parent))]]
  /\ UNCHANGED shared
  /\ Quiet

(* Mutant: the flag is left behind. *)
PromotedUnflagged(w) == Word(w.addr, FALSE, FALSE)

(* The word that has replaced its parent's takes the flag with it. *)
Promoted(w) == Word(w.addr, FALSE, w.flag)

(* The CAS on the last unmarked word.  It takes the place of the word pS,  *)
(* of the sibling; of the leaf itself if that one is marked, not flagged.  *)
Swing(t, from, pS) ==
  LET l == loc[t]
      side == Side(t, l.lum)
  IN  IF mem[l.lum][side] = l.lumC
      THEN /\ Reshape(t, [mem EXCEPT ![l.lum][side] = Promoted(pS)])
           /\ GoTo(t, from, "retire")
           /\ loc' = [loc EXCEPT ![t] = [NoLocals EXCEPT
                !.pS = pS, !.leaf = l.leaf, !.retval = l.retval,
                !.todo = <<[node |-> l.lumC.addr, flagged |-> FALSE]>>]]
           /\ UNCHANGED <<call, answer, script>>
      ELSE /\ UNCHANGED shared
           /\ IF Injected(t)
              THEN /\ GoTo(t, from, "root")
                   /\ loc' = [loc EXCEPT ![t] =
                        [NoLocals EXCEPT !.leaf = l.leaf, !.retval = l.retval]]
                   /\ Quiet
              ELSE Retry(t, from)

SwingToSibling(t) == pc[t] = "swing" /\ Swing(t, "swing", loc[t].pS)

HelpMarked(t) ==
  /\ Conflict(t)
  /\ loc[t].pL.mark /\ ~loc[t].pL.flag
  /\ Swing(t, "seek", loc[t].pL)

(* Mutant: the traversal does not stop at the node that stays. *)
RetiresTarget(t, visit) ==
  IF IsLeaf(mem[visit.node])
  THEN visit.flagged
  ELSE \E s \in Sides : mem[visit.node][s].flag

(* One call of retireDeletedNodes; it goes on to the children whose words  *)
(* are not free.                                                           *)
Retires(t, visit) ==
  /\ visit.node # loc[t].pS.addr
  /\ IF IsLeaf(mem[visit.node])
     THEN visit.flagged
     ELSE \E s \in Sides : mem[visit.node][s].flag

(* Mutant: the traversal stops after the first removed internal node. *)
ChildrenLeaves(t, visit) ==
  LET n == mem[visit.node]
      below(w) == IF w.flag THEN <<[node |-> w.addr, flagged |-> TRUE]>> ELSE <<>>
  IN  IF Retires(t, visit) /\ ~IsLeaf(n) THEN below(n.left) \o below(n.right) ELSE <<>>

Children(t, visit) ==
  LET n == mem[visit.node]
      below(w) == IF IsFree(w) THEN <<>> ELSE <<[node |-> w.addr, flagged |-> w.flag]>>
  IN  IF Retires(t, visit) /\ ~IsLeaf(n) THEN below(n.left) \o below(n.right) ELSE <<>>

RetireDeletedNodes(t) ==
  LET visit == Head(loc[t].todo)
      todo == Children(t, visit) \o Tail(loc[t].todo)
  IN  /\ pc[t] = "retire"
      /\ owed' = [owed EXCEPT ![t] = IF Retires(t, visit) THEN @ \ {visit.node} ELSE @]
      /\ UNCHANGED <<mem, linked, dict>>
      /\ \/ /\ todo # <<>>
            /\ loc' = [loc EXCEPT ![t].todo = todo]
            /\ UNCHANGED pc
            /\ Quiet
         \/ /\ todo = <<>> /\ Injected(t)
            /\ GoTo(t, "retire", "return")
            /\ loc' = [loc EXCEPT ![t] =
                 [NoLocals EXCEPT !.leaf = loc[t].leaf, !.retval = loc[t].retval]]
            /\ Quiet
         \/ /\ todo = <<>> /\ ~Injected(t)
            /\ Retry(t, "retire")

-----------------------------------------------------------------------------
Step(t) ==
  \/ Return(t)
  \/ FindRoot(t) \/ FindDown(t)
  \/ SeekRoot(t) \/ SeekDown(t)
  \/ InsertFound(t) \/ InsertWindow(t)
  \/ EraseAbsent(t) \/ Inject(t) \/ SecondaryGone(t)
  \/ Mark(t) \/ ReadSibling(t) \/ SwingToSibling(t) \/ HelpMarked(t)
  \/ RetireDeletedNodes(t)

Next == \E t \in Thread : Step(t) \/ \E c \in Call : Invoke(t, c)

Spec == Init /\ [][Next]_vars

(* Somebody runs; any thread may stop anywhere as long as others do not. *)
FairSpec == Spec /\ WF_vars(\E t \in Thread : Step(t))

-----------------------------------------------------------------------------
WordType == [addr : Node \cup {NULL}, mark : BOOLEAN, flag : BOOLEAN]

Locals ==
  [lum : Node \cup {NULL}, lumC : WordType, parent : Node \cup {NULL}, pL : WordType,
   cur : Node \cup {NULL}, leaf : Node \cup {NULL}, pS : WordType,
   todo : Seq([node : Node, flagged : BOOLEAN]), retval : Value \cup {NoValue}]

(* Type correctness of the nodes, the threads and the history. *)
TypeOK ==
  /\ mem \in [Node -> [key : 1 .. MaxKey + 2, value : Value \cup {NoValue},
                       left : WordType, right : WordType]]
  /\ pc \in [Thread -> {"idle", "root", "find", "seek", "mark", "read", "swing", "retire", "return"}]
  /\ call \in [Thread -> Call \cup {NoCall}]
  /\ loc \in [Thread -> Locals]
  /\ linked \subseteq Node
  /\ dict \in [Key -> Value \cup {NoValue}]
  /\ owed \in [Thread -> SUBSET Node]
  /\ pinned \in [Thread -> SUBSET Node]
  /\ seen \in [Thread -> SUBSET (Value \cup {NoValue})]
  /\ answer \in [Thread -> Value \cup {NoValue}]
  /\ script \in [Thread -> Seq(SUBSET Call)]

(* The addresses in the local variables of t. *)
Held(t) ==
  LET l == loc[t]
  IN  ({l.lum, l.lumC.addr, l.parent, l.pL.addr, l.cur, l.leaf, l.pS.addr}
         \cup {l.todo[i].node : i \in DOMAIN l.todo}) \ {NULL}

(* A thread follows words of nodes that may have been cut off long ago.    *)
(* All it gets to were in the tree at some moment since its guard opened,  *)
(* which is what keeps them from being allocated again; retireDeletedNodes *)
(* retires each node that t's CAS has cut off, once, and nothing else,     *)
(* though a CAS may cut off a chain of several deletions.                  *)
NodesReclaimed ==
  \A t \in Thread :
    /\ Held(t) \subseteq linked \cup pinned[t]
    /\ pc[t] # "retire" => owed[t] = {}
    /\ pc[t] = "retire" /\ Retires(t, Head(loc[t].todo)) => Head(loc[t].todo).node \in owed[t]

(* A word that is flagged or marked keeps its address and its flag, and a  *)
(* mark stays, for as long as anybody may follow it: nobody inserts below  *)
(* a node that is being removed, and no second deletion takes the leaf.    *)
FrozenWords ==
  [][\A n \in Node \ Available, s \in Sides :
       ~IsFree(mem[n][s]) => /\ mem'[n][s].addr = mem[n][s].addr
                             /\ mem'[n][s].flag = mem[n][s].flag
                             /\ mem[n][s].mark => mem'[n][s].mark]_vars

(* Every operation in progress ends, or others do, whoever stops: nobody   *)
(* waits for a deletion that its owner has left half done.                 *)
LockFree == []<>(\A t \in Thread : pc[t] = "idle")

(* A deletion takes effect when its flagged leaf is cut off, by whomever.  *)
Effect(t) ==
  CASE Injected(t) /\ loc[t].leaf \notin linked -> {loc[t].retval}
    [] pc[t] = "return" /\ call[t].op = "insertIfAbsent" /\ loc[t].retval = NoValue -> {NoValue}
    [] OTHER -> {}

Abstract == INSTANCE Dictionary WITH effect <- [t \in Thread |-> Effect(t)]

(* The tree implements the dictionary: every find, insert and erase takes  *)
(* effect once, between its call and its return, and returns accordingly.  *)
DictionarySpec == Abstract!Spec
=============================================================================
