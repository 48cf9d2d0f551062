-------------------------------- MODULE AbTree --------------------------------
(***************************************************************************)
(* The lock-free relaxed (a,b)-tree (brown_ext_abtree_lf).  Leaves hold    *)
(* keys and values and never change; internal nodes hold routing keys and  *)
(* change only in their pointers.  An update replaces nodes by new ones    *)
(* with one SCX on the nodes it depends on.  It may leave a violation: an  *)
(* internal node of weight 0, or a node with fewer than a pointers.  The   *)
(* thread that creates such a node fixes it before its operation returns,  *)
(* unless it finds the node gone: then the one who replaced it is          *)
(* responsible for the nodes it put there.                                 *)
(*                                                                         *)
(* One action per read of a pointer, llx and scx.  The fields of a node    *)
(* that never change are read along with the next access.  An llx and the  *)
(* comparison of one pointer that follows it are one action: an scx on a   *)
(* snapshot that is older than the comparison fails.  An scx does what     *)
(* AtomicScx promises: it takes effect if none of the linked nodes has     *)
(* changed.  It is one action with the construction of the new nodes and   *)
(* the retirement of the old ones, which are seen by nobody before and     *)
(* after it.  Memory is reused as Reclamation promises.                    *)
(***************************************************************************)
EXTENDS Integers, Sequences, FiniteSets, SequencesExt

CONSTANTS
  Thread,
  Filler,     (* fills the tree before the other threads start             *)
  DEGREE,
  Key, Value, NoValue,
  AnyKey,     (* the constructor's anyKey                                  *)
  NumNodes,   (* bound: the nodes are 1 .. NumNodes                        *)
  MaxDepth,   (* bound: no leaf is deeper than this                        *)
  Scripts     (* bound: the i-th call of t is one of s.calls[t][i], for an *)
              (* s in Scripts; s.spurious: whether an llx or scx may fail  *)
              (* for no reason                                             *)

Call == [op : {"find", "erase"}, key : Key]
        \cup [op : {"insert", "insertIfAbsent"}, key : Key, value : Value]

ASSUME AbTreeAssumption ==
  /\ Filler \in Thread
  /\ DEGREE \in Nat /\ DEGREE >= 3
  /\ Key \subseteq Int /\ AnyKey \in Key
  /\ NoValue \notin Value
  /\ NumNodes \in Nat /\ NumNodes >= 2 /\ MaxDepth \in Nat
  /\ Scripts \subseteq [calls : [Thread -> Seq(SUBSET Call)], spurious : BOOLEAN]

VARIABLES
  mem,        (* the nodes                                                 *)
  finalized,  (* the nodes that an scx has finalized                       *)
  inuse,      (* the nodes that are allocated and not retired              *)
  pc, call,   (* where t is, and in which operation                        *)
  loc,        (* the local variables of t                                  *)
  linked,     (* history: the nodes reachable from the entry               *)
  dict,       (* history: what searches would find if nobody was at work   *)
  pinned,     (* history: pinned[t]: retired since the guard of t opened   *)
  seen,       (* history: values of the key of t's call since it began     *)
  answer,     (* what the last call of t returned                          *)
  script,     (* the calls that t has not made yet                         *)
  spurious    (* whether an llx or scx may fail for no reason              *)

shared == <<mem, finalized, inuse, linked, dict>>
vars == <<mem, finalized, inuse, pc, call, loc, linked, dict, pinned, seen, answer, script, spurious>>

-----------------------------------------------------------------------------
b == DEGREE
a == IF DEGREE \div 4 > 2 THEN DEGREE \div 4 ELSE 2

Node == 1 .. NumNodes
NULL == 0
Entry == 1

NoCall == [op |-> "none"]

(* The pointers of a leaf are the values.  The size is Len(ptrs). *)
Leaf(searchKey, keys, values) ==
  [leaf |-> TRUE, weight |-> 1, searchKey |-> searchKey, keys |-> keys, ptrs |-> values]
Internal(weight, searchKey, keys, ptrs) ==
  [leaf |-> FALSE, weight |-> weight, searchKey |-> searchKey, keys |-> keys, ptrs |-> ptrs]

(* getChildIndex and getKeyIndex; positions are counted from 1. *)
ChildIndex(node, k) == 1 + Cardinality({i \in DOMAIN node.keys : node.keys[i] <= k})
KeyIndex(node, k) == 1 + Cardinality({i \in DOMAIN node.keys : node.keys[i] < k})
Has(node, k) == k \in ToSet(node.keys)

(* Where a search for k ends if nobody else is at work. *)
LeafOf(m, k) ==
  LET next == [n \in Node |-> IF m[n].leaf THEN n ELSE m[n].ptrs[ChildIndex(m[n], k)]]
      at[d \in 0 .. MaxDepth] == IF d = 0 THEN Entry ELSE next[at[d - 1]]
  IN  m[at[MaxDepth]]

Lookup(node, k) == IF Has(node, k) THEN node.ptrs[KeyIndex(node, k)] ELSE NoValue
Contents(m) == [k \in Key |-> Lookup(LeafOf(m, k), k)]

(* The nodes that are i edges below the entry. *)
Level(m) ==
  LET at[d \in 0 .. MaxDepth] ==
        IF d = 0 THEN {Entry}
        ELSE UNION {ToSet(m[n].ptrs) : n \in {x \in at[d - 1] : ~m[x].leaf}}
  IN  at

Reachable(m) == UNION {Level(m)[d] : d \in 0 .. MaxDepth}

NoLocals ==
  [gp |-> NULL, p |-> NULL, l |-> NULL,  (* where the search is            *)
   ixP |-> 0, ixL |-> 0,                 (* and the positions of p and l   *)
   s |-> NULL,                           (* the sibling of l               *)
   links |-> {},                         (* the nodes that llx has linked, *)
                                         (* with their snapshots           *)
   todo |-> <<>>,                        (* the invocations of             *)
                                         (* fixWeightViolation and         *)
                                         (* fixDegreeViolation, the        *)
                                         (* current one first              *)
   effect |-> {}]                        (* what the operation returns, if *)
                                         (* its scx has succeeded          *)

Init ==
  /\ mem = [n \in Node |-> IF n = Entry THEN Internal(1, AnyKey, <<>>, <<2>>)
                           ELSE Leaf(AnyKey, <<>>, <<>>)]
  /\ finalized = {}
  /\ inuse = {Entry, 2}
  /\ pc = [t \in Thread |-> "idle"]
  /\ call = [t \in Thread |-> NoCall]
  /\ loc = [t \in Thread |-> NoLocals]
  /\ linked = {Entry, 2}
  /\ dict = Contents(mem)
  /\ pinned = [t \in Thread |-> {}]
  /\ seen = [t \in Thread |-> {}]
  /\ answer = [t \in Thread |-> NoValue]
  /\ \E s \in Scripts : script = s.calls /\ spurious = s.spurious

-----------------------------------------------------------------------------
GoTo(t, from, to) == pc[t] = from /\ pc' = [pc EXCEPT ![t] = to]

(* The caller's view does not change and t stays inside its guard. *)
Quiet == UNCHANGED <<call, pinned, seen, answer, script, spurious>>

Local(t, from, to, l) ==
  /\ GoTo(t, from, to)
  /\ loc' = [loc EXCEPT ![t] = l]
  /\ UNCHANGED shared
  /\ Quiet

(* The measured threads start when the tree has been filled. *)
Invoke(t, c) ==
  /\ GoTo(t, "idle", "root")
  /\ t = Filler \/ (script[Filler] = <<>> /\ pc[Filler] = "idle")
  /\ script[t] # <<>> /\ c \in Head(script[t])
  /\ script' = [script EXCEPT ![t] = Tail(@)]
  /\ call' = [call EXCEPT ![t] = c]
  /\ seen' = [seen EXCEPT ![t] = {dict[c.key]}]
  /\ UNCHANGED <<shared, loc, pinned, answer, spurious>>

Answer(t, from, v) ==
  /\ GoTo(t, from, "idle")
  /\ answer' = [answer EXCEPT ![t] = v]
  /\ call' = [call EXCEPT ![t] = NoCall]
  /\ loc' = [loc EXCEPT ![t] = NoLocals]
  /\ pinned' = [pinned EXCEPT ![t] = {}]
  /\ seen' = [seen EXCEPT ![t] = {}]
  /\ UNCHANGED <<shared, script, spurious>>

Return(t) == \E v \in loc[t].effect : Answer(t, "return", v)

(* Mutant: it goes on with the leaf that it has found. *)
RetryInPlace(t, from) ==
  /\ GoTo(t, from, "search")
  /\ loc' = [loc EXCEPT ![t].links = {}]
  /\ pinned' = [pinned EXCEPT ![t] = {}]
  /\ UNCHANGED <<shared, call, seen, answer, script, spurious>>

(* An update starts again, in a new guard. *)
Retry(t, from) ==
  /\ GoTo(t, from, "root")
  /\ loc' = [loc EXCEPT ![t] = NoLocals]
  /\ pinned' = [pinned EXCEPT ![t] = {}]
  /\ UNCHANGED <<shared, call, seen, answer, script, spurious>>

-----------------------------------------------------------------------------
(* The invocations of the two procedures that fix violations. *)
Fix(procedure, n) == [fix |-> procedure, viol |-> n, begun |-> FALSE]

Fixing(t) == loc[t].todo # <<>>
Viol(t) == Head(loc[t].todo).viol
FixingWeight(t) == Fixing(t) /\ Head(loc[t].todo).fix = "weight"
FixingDegree(t) == Fixing(t) /\ Head(loc[t].todo).fix = "degree"

(* Whether an invocation finds a violation in the fields of its node. *)
Needed(m, frame) ==
  IF frame.fix = "weight" THEN m[frame.viol].weight = 0 ELSE Len(m[frame.viol].ptrs) < a

(* What t does when its invocations are these: an invocation that had      *)
(* begun goes round its loop again.                                        *)
Resume(todo) ==
  IF todo = <<>> THEN "return" ELSE IF Head(todo).begun THEN "root" ELSE "check"

(* The current invocation returns. *)
Pop(t, from) ==
  LET todo == Tail(loc[t].todo)
  IN  Local(t, from, Resume(todo), [NoLocals EXCEPT !.todo = todo, !.effect = loc[t].effect])

(* It invokes others, and goes round its loop. *)
Push(t, from, frames) ==
  Local(t, from, "check", [NoLocals EXCEPT !.todo = frames \o loc[t].todo, !.effect = loc[t].effect])

Restart(t, from) ==
  Local(t, from, "root", [NoLocals EXCEPT !.todo = loc[t].todo, !.effect = loc[t].effect])

(* Each invocation looks first whether its node has been removed. *)
FixCheck(t) ==
  LET frame == Head(loc[t].todo)
      isRoot == FixingDegree(t) /\ frame.viol = mem[Entry].ptrs[1]
  IN  /\ pc[t] = "check"
      /\ \/ (isRoot \/ frame.viol \in finalized) /\ Pop(t, "check")
         \/ /\ ~isRoot
            /\ frame.viol \notin finalized \/ spurious
            /\ Local(t, "check", "root", [loc[t] EXCEPT !.todo[1].begun = TRUE])

-----------------------------------------------------------------------------
(* The searches: for the key of the call, or for the searchKey of the node *)
(* with the violation, until that node or a leaf is found.                 *)
SearchKey(t) == IF Fixing(t) THEN mem[Viol(t)].searchKey ELSE call[t].key

SearchRoot(t) ==
  Local(t, "root", "search",
        [NoLocals EXCEPT !.p = Entry, !.l = mem[Entry].ptrs[1], !.ixL = 1,
                         !.todo = loc[t].todo, !.effect = loc[t].effect])

Arrived(t) ==
  pc[t] = "search" /\ (mem[loc[t].l].leaf \/ (Fixing(t) /\ loc[t].l = Viol(t)))

SearchDown(t) ==
  LET l == loc[t].l
      ix == ChildIndex(mem[l], SearchKey(t))
  IN  /\ pc[t] = "search" /\ ~Arrived(t)
      /\ Local(t, "search", "search",
               [loc[t] EXCEPT !.gp = loc[t].p, !.p = l, !.l = mem[l].ptrs[ix],
                              !.ixP = loc[t].ixL, !.ixL = ix])

(* The leaf tells a find, an insertIfAbsent of a key that is there, and an *)
(* erase of one that is not, what to answer.                               *)
ReadOnly(t) ==
  LET present == Has(mem[loc[t].l], call[t].key)
  IN  \/ call[t].op = "find"
      \/ call[t].op = "insertIfAbsent" /\ present
      \/ call[t].op = "erase" /\ ~present

AnswerFromLeaf(t) ==
  /\ Arrived(t) /\ ~Fixing(t)
  /\ ReadOnly(t)
  /\ Answer(t, "search", Lookup(mem[loc[t].l], call[t].key))

-----------------------------------------------------------------------------
(* llx *)
Linkable(n) == n \notin finalized
Link(n) == [node |-> n, ptrs |-> mem[n].ptrs]

(* An llx of n, and the test that a pointer still is what the search read. *)
LlxTest(t, from, to, n, test) ==
  /\ Linkable(n) /\ test
  /\ Local(t, from, to, [loc[t] EXCEPT !.links = @ \cup {Link(n)}])

LlxFails(n, test) == spurious \/ ~(Linkable(n) /\ test)

(* Whether an scx on the linked nodes can succeed. *)
Valid(t) == \A k \in loc[t].links : k.node \notin finalized /\ mem[k.node].ptrs = k.ptrs

(* The lowest nodes that allocate may return. *)
Fresh ==
  LET available == Node \ (inuse \cup UNION {pinned[t] : t \in Thread})
      first == Min(available)
      second == Min(available \ {first})
      third == Min(available \ {first, second})
  IN  <<first, second, third>>

(* scxExecute succeeds: t's scx swings pointer ix of node n from old to    *)
(* new, which is one of the new nodes, and finalizes the internal nodes    *)
(* that it removes; t retires these and goes on to the violations it may   *)
(* have created, before what it had to do after the current invocation.    *)
Scx(t, from, n, ix, old, new, nodes, removed, frames, rest, effect) ==
  LET todo == SelectSeq(frames, LAMBDA f : Needed(mem', f)) \o rest
  IN  /\ Valid(t)
      /\ mem' = [x \in Node |->
                   IF x \in DOMAIN nodes THEN nodes[x]
                   ELSE IF x = n /\ mem[n].ptrs[ix] = old THEN [mem[n] EXCEPT !.ptrs[ix] = new]
                   ELSE mem[x]]
      /\ finalized' = (finalized \cup {x \in removed : ~mem[x].leaf}) \ DOMAIN nodes
      /\ inuse' = (inuse \cup DOMAIN nodes) \ removed
      /\ linked' = Reachable(mem')
      /\ dict' = Contents(mem')
      /\ pinned' = [u \in Thread |-> IF pc[u] = "idle" THEN {} ELSE pinned[u] \cup removed]
      /\ seen' = [u \in Thread |->
                    IF call[u] = NoCall THEN {} ELSE seen[u] \cup {dict'[call[u].key]}]
      /\ GoTo(t, from, Resume(todo))
      /\ loc' = [loc EXCEPT ![t] = [NoLocals EXCEPT !.todo = todo, !.effect = effect]]
      /\ UNCHANGED <<call, answer, script, spurious>>

-----------------------------------------------------------------------------
(* Mutant: the pointer is not compared. *)
LinkParentOnly(t) ==
  /\ Arrived(t) /\ ~Fixing(t) /\ ~ReadOnly(t)
  /\ LlxTest(t, "search", "update", loc[t].p, TRUE)

(* doInsert and erase *)
LinkParent(t) ==
  LET l == loc[t]
      test == mem[l.p].ptrs[l.ixL] = l.l
  IN  /\ Arrived(t) /\ ~Fixing(t) /\ ~ReadOnly(t)
      /\ \/ LlxTest(t, "search", "update", l.p, test)
         \/ LlxFails(l.p, test) /\ Retry(t, "search")

(* t replaces its leaf by the new node that comes last. *)
ReplaceLeaf(t, nodes, new, frames, effect) ==
  LET l == loc[t]
  IN  Scx(t, "update", l.p, l.ixL, l.l, new, nodes, {l.l}, frames, <<>>, {effect})

ReplaceValue(t) ==
  LET leaf == mem[loc[t].l]
      k == call[t].key
      ix == KeyIndex(leaf, k)
      n == Fresh[1]
  IN  /\ pc[t] = "update" /\ call[t].op = "insert"
      /\ Has(leaf, k)
      /\ ReplaceLeaf(t, n :> Leaf(leaf.searchKey, leaf.keys, ReplaceAt(leaf.ptrs, ix, call[t].value)),
                     n, <<Fix("degree", n)>>, leaf.ptrs[ix])

(* Mutant: off by one. *)
InsertPairIntoFull(t) ==
  LET leaf == mem[loc[t].l]
      k == call[t].key
      ix == KeyIndex(leaf, k)
      n == Fresh[1]
  IN  /\ pc[t] = "update" /\ call[t].op \in {"insert", "insertIfAbsent"}
      /\ ~Has(leaf, k)
      /\ Len(leaf.keys) <= b
      /\ ReplaceLeaf(t, n :> Leaf(leaf.searchKey, InsertAt(leaf.keys, ix, k),
                                  InsertAt(leaf.ptrs, ix, call[t].value)),
                     n, <<Fix("degree", n)>>, NoValue)

InsertPair(t) ==
  LET leaf == mem[loc[t].l]
      k == call[t].key
      ix == KeyIndex(leaf, k)
      n == Fresh[1]
  IN  /\ pc[t] = "update" /\ call[t].op \in {"insert", "insertIfAbsent"}
      /\ ~Has(leaf, k)
      /\ Len(leaf.keys) < b
      /\ ReplaceLeaf(t, n :> Leaf(leaf.searchKey, InsertAt(leaf.keys, ix, k),
                                  InsertAt(leaf.ptrs, ix, call[t].value)),
                     n, <<Fix("degree", n)>>, NoValue)

(* Mutant. *)
WeightOne(above) == 1

(* A new internal node with two children has weight 0, unless it will be   *)
(* the root.                                                               *)
NewWeight(above) == IF above = Entry THEN 1 ELSE 0

Overflow(t) ==
  LET leaf == mem[loc[t].l]
      k == call[t].key
      ix == KeyIndex(leaf, k)
      keys == InsertAt(leaf.keys, ix, k)
      ptrs == InsertAt(leaf.ptrs, ix, call[t].value)
      size1 == (DEGREE + 1) \div 2
      left == Fresh[1]
      right == Fresh[2]
      n == Fresh[3]
      sep == keys[size1 + 1]
  IN  /\ pc[t] = "update" /\ call[t].op \in {"insert", "insertIfAbsent"}
      /\ ~Has(leaf, k)
      /\ Len(leaf.keys) >= b
      /\ ReplaceLeaf(t, left :> Leaf(keys[1], SubSeq(keys, 1, size1), SubSeq(ptrs, 1, size1))
                        @@ right :> Leaf(sep, SubSeq(keys, size1 + 1, DEGREE + 1),
                                         SubSeq(ptrs, size1 + 1, DEGREE + 1))
                        @@ n :> Internal(NewWeight(loc[t].p), sep, <<sep>>, <<left, right>>),
                     n, <<Fix("weight", n)>>, NoValue)

(* The new leaf may be empty: it is found by a key that it does not have. *)
ErasePair(t) ==
  LET leaf == mem[loc[t].l]
      k == call[t].key
      ix == KeyIndex(leaf, k)
      n == Fresh[1]
  IN  /\ pc[t] = "update" /\ call[t].op = "erase"
      /\ ReplaceLeaf(t, n :> Leaf(leaf.keys[1], RemoveAt(leaf.keys, ix), RemoveAt(leaf.ptrs, ix)),
                     n, <<Fix("degree", n)>>, leaf.ptrs[ix])

UpdateFails(t) ==
  /\ pc[t] = "update"
  /\ spurious \/ ~Valid(t)
  /\ Retry(t, "update")

-----------------------------------------------------------------------------
(* The search for the violation ends. *)
HandOver(t) ==
  /\ Arrived(t) /\ Fixing(t)
  /\ loc[t].l # Viol(t)
  /\ Pop(t, "search")

AtViolation(t) == Arrived(t) /\ Fixing(t) /\ loc[t].l = Viol(t)

(* Mutant: whoever has made the violation at the parent is to fix it. *)
ParentByOwner(t) ==
  /\ AtViolation(t) /\ FixingWeight(t)
  /\ mem[loc[t].p].weight = 0
  /\ Restart(t, "search")

(* Mutant: the invocation for the parent takes the place of this one. *)
ParentInstead(t) ==
  /\ AtViolation(t) /\ FixingWeight(t)
  /\ mem[loc[t].p].weight = 0
  /\ Local(t, "search", "check", [NoLocals EXCEPT
       !.todo = <<Fix("weight", loc[t].p)>> \o Tail(loc[t].todo), !.effect = loc[t].effect])

(* A weight violation at the parent is fixed first. *)
ParentFirst(t) ==
  /\ AtViolation(t) /\ FixingWeight(t)
  /\ mem[loc[t].p].weight = 0
  /\ Push(t, "search", <<Fix("weight", loc[t].p)>>)

LinkGrandparent(t) ==
  LET l == loc[t]
      test == mem[l.gp].ptrs[l.ixP] = l.p
  IN  /\ AtViolation(t)
      /\ FixingDegree(t) \/ mem[l.p].weight = 1
      /\ \/ LlxTest(t, "search", "parent", l.gp, test)
         \/ LlxFails(l.gp, test) /\ Restart(t, "search")

LinkNextParent(t) ==
  LET l == loc[t]
      test == mem[l.p].ptrs[l.ixL] = l.l
      next == IF FixingWeight(t) THEN "self" ELSE "sibling"
  IN  /\ pc[t] = "parent"
      /\ \/ LlxTest(t, "parent", next, l.p, test)
         \/ LlxFails(l.p, test) /\ Restart(t, "parent")

(* A node of weight 0 is internal. *)
LinkSelf(t) ==
  /\ pc[t] = "self"
  /\ \/ LlxTest(t, "self", "scx", loc[t].l, TRUE)
     \/ LlxFails(loc[t].l, TRUE) /\ Restart(t, "self")

-----------------------------------------------------------------------------
(* fixWeightViolation: p and l become one node, or a node with two children. *)
MergedKeys(t) ==
  LET p == mem[loc[t].p]
      ix == loc[t].ixL
  IN  SubSeq(p.keys, 1, ix - 1) \o mem[loc[t].l].keys \o SubSeq(p.keys, ix, Len(p.keys))

(* Mutant: the pointers of l come last. *)
MergedPtrsLast(t) ==
  RemoveAt(mem[loc[t].p].ptrs, loc[t].ixL) \o mem[loc[t].l].ptrs

MergedPtrs(t) ==
  LET p == mem[loc[t].p]
      ix == loc[t].ixL
  IN  SubSeq(p.ptrs, 1, ix - 1) \o mem[loc[t].l].ptrs \o SubSeq(p.ptrs, ix + 1, Len(p.ptrs))

MergedSize(t) == Len(mem[loc[t].p].ptrs) + Len(mem[loc[t].l].ptrs) - 1

(* t replaces p, and its child or children, and its invocation returns. *)
ReplaceParent(t, nodes, new, removed, frames) ==
  LET l == loc[t]
  IN  Scx(t, "scx", l.gp, l.ixP, l.p, new, nodes, removed, frames, Tail(l.todo), l.effect)

Absorb(t) ==
  LET n == Fresh[1]
  IN  /\ pc[t] = "scx" /\ FixingWeight(t)
      /\ MergedSize(t) <= b
      /\ ReplaceParent(t, n :> Internal(1, MergedKeys(t)[1], MergedKeys(t), MergedPtrs(t)),
                       n, {loc[t].p, loc[t].l}, <<Fix("degree", n)>>)

Split(t) ==
  LET keys == MergedKeys(t)
      ptrs == MergedPtrs(t)
      size == MergedSize(t)
      size1 == size \div 2
      left == Fresh[1]
      right == Fresh[2]
      n == Fresh[3]
  IN  /\ pc[t] = "scx" /\ FixingWeight(t)
      /\ size > b
      /\ ReplaceParent(t,
           left :> Internal(1, keys[1], SubSeq(keys, 1, size1 - 1), SubSeq(ptrs, 1, size1))
           @@ right :> Internal(1, keys[size1 + 1], SubSeq(keys, size1 + 1, size - 1),
                                SubSeq(ptrs, size1 + 1, size))
           @@ n :> Internal(NewWeight(loc[t].gp), keys[size1], <<keys[size1]>>,
                            <<left, right>>),
           n, {loc[t].p, loc[t].l}, <<Fix("weight", n), Fix("degree", n)>>)

-----------------------------------------------------------------------------
(* fixDegreeViolation: the sibling is on the left if there is one. *)
IxS(t) == IF loc[t].ixL > 1 THEN loc[t].ixL - 1 ELSE 2
LeftIndex(t) == IF loc[t].ixL < IxS(t) THEN loc[t].ixL ELSE IxS(t)
RightIndex(t) == IF loc[t].ixL < IxS(t) THEN IxS(t) ELSE loc[t].ixL
Left(t) == IF loc[t].ixL < IxS(t) THEN loc[t].l ELSE loc[t].s
Right(t) == IF loc[t].ixL < IxS(t) THEN loc[t].s ELSE loc[t].l

(* Mutant: the sibling is not looked at. *)
WeightFirstButSibling(t, s) ==
  SelectSeq(<<Fix("weight", loc[t].p), Fix("weight", loc[t].l)>>, LAMBDA f : Needed(mem, f))

WeightFirst(t, s) ==
  SelectSeq(<<Fix("weight", loc[t].p), Fix("weight", loc[t].l), Fix("weight", s)>>,
            LAMBDA f : Needed(mem, f))

(* Weight violations at p, l and s are fixed first.  The only child of a   *)
(* node has no sibling: what is read there was never written.              *)
ReadSibling(t) ==
  LET l == loc[t]
      ptrs == mem[l.p].ptrs
  IN  /\ pc[t] = "sibling"
      /\ \E s \in IF IxS(t) \in DOMAIN ptrs THEN {ptrs[IxS(t)]} ELSE Node :
           LET frames == WeightFirst(t, s)
               left == IF l.ixL < IxS(t) THEN l.l ELSE s
           IN  IF frames # <<>> THEN Push(t, "sibling", frames)
               ELSE Local(t, "sibling", IF mem[left].leaf THEN "scx" ELSE "left", [l EXCEPT !.s = s])

LinkLeft(t) ==
  /\ pc[t] = "left"
  /\ \/ LlxTest(t, "left", "right", Left(t), TRUE)
     \/ LlxFails(Left(t), TRUE) /\ Restart(t, "left")

LinkRight(t) ==
  /\ pc[t] = "right"
  /\ \/ LlxTest(t, "right", "scx", Right(t), TRUE)
     \/ LlxFails(Right(t), TRUE) /\ Restart(t, "right")

(* What left and right have together, with the key of p between them if    *)
(* they are internal.                                                      *)
JoinedKeys(t) ==
  LET left == mem[Left(t)]
  IN  left.keys \o (IF left.leaf THEN <<>> ELSE <<mem[loc[t].p].keys[LeftIndex(t)]>>)
        \o mem[Right(t)].keys
JoinedPtrs(t) == mem[Left(t)].ptrs \o mem[Right(t)].ptrs
JoinedSize(t) == Len(mem[Left(t)].ptrs) + Len(mem[Right(t)].ptrs)

Joined(t) ==
  [leaf |-> mem[Left(t)].leaf, weight |-> 1, searchKey |-> mem[loc[t].l].searchKey,
   keys |-> JoinedKeys(t), ptrs |-> JoinedPtrs(t)]

(* Mutant: the sibling is not retired. *)
FamilyButSibling(t) == {loc[t].p, loc[t].l}

(* What an AbsorbSibling or a Distribute removes. *)
Family(t) == {loc[t].p, loc[t].l, loc[t].s}

(* Mutant: a parent that is not the root is absorbed as well. *)
AbsorbAnyParent(t) ==
  LET l == loc[t]
      newl == Fresh[1]
  IN  /\ pc[t] = "scx" /\ FixingDegree(t)
      /\ JoinedSize(t) < 2 * a
      /\ Len(mem[l.p].ptrs) = 2
      /\ ReplaceParent(t, newl :> Joined(t), newl, Family(t), <<Fix("degree", newl)>>)

(* The root and its two children become one node. *)
RootAbsorb(t) ==
  LET l == loc[t]
      newl == Fresh[1]
  IN  /\ pc[t] = "scx" /\ FixingDegree(t)
      /\ JoinedSize(t) < 2 * a
      /\ l.gp = Entry /\ Len(mem[l.p].ptrs) = 2
      /\ ReplaceParent(t, newl :> Joined(t), newl, Family(t), <<Fix("degree", newl)>>)

(* Mutant: the parent may have lost a child too many. *)
AbsorbSiblingOneFix(t) ==
  LET l == loc[t]
      p == mem[l.p]
      newl == Fresh[1]
      n == Fresh[2]
  IN  /\ pc[t] = "scx" /\ FixingDegree(t)
      /\ JoinedSize(t) < 2 * a
      /\ ~(l.gp = Entry /\ Len(p.ptrs) = 2)
      /\ ReplaceParent(t,
           newl :> Joined(t)
           @@ n :> Internal(1, p.searchKey, RemoveAt(p.keys, LeftIndex(t)),
                            RemoveAt(ReplaceAt(p.ptrs, l.ixL, newl), IxS(t))),
           n, Family(t), <<Fix("degree", newl)>>)

AbsorbSibling(t) ==
  LET l == loc[t]
      p == mem[l.p]
      newl == Fresh[1]
      n == Fresh[2]
  IN  /\ pc[t] = "scx" /\ FixingDegree(t)
      /\ JoinedSize(t) < 2 * a
      /\ ~(l.gp = Entry /\ Len(p.ptrs) = 2)
      /\ ReplaceParent(t,
           newl :> Joined(t)
           @@ n :> Internal(1, p.searchKey, RemoveAt(p.keys, LeftIndex(t)),
                            RemoveAt(ReplaceAt(p.ptrs, l.ixL, newl), IxS(t))),
           n, Family(t), <<Fix("degree", newl), Fix("degree", n)>>)

(* A key between internal nodes moves to the parent; one between leaves is *)
(* copied.                                                                 *)
LeftKeyCount(leaf, leftsz) == IF leaf THEN leftsz ELSE leftsz - 1

Distribute(t) ==
  LET l == loc[t]
      p == mem[l.p]
      keys == JoinedKeys(t)
      ptrs == JoinedPtrs(t)
      size == JoinedSize(t)
      leftsz == size \div 2
      leaf == mem[Left(t)].leaf
      leftKeys == SubSeq(keys, 1, LeftKeyCount(leaf, leftsz))
      keyp == keys[Len(leftKeys) + 1]
      rightKeys == SubSeq(keys, leftsz + 1, Len(keys))
      Part(ks, ps) == [leaf |-> leaf, weight |-> 1, searchKey |-> ks[1], keys |-> ks, ptrs |-> ps]
      n == Fresh[1]
      newleft == Fresh[2]
      newright == Fresh[3]
  IN  /\ pc[t] = "scx" /\ FixingDegree(t)
      /\ size >= 2 * a
      /\ ReplaceParent(t,
           n :> Internal(1, p.searchKey, ReplaceAt(p.keys, LeftIndex(t), keyp),
                         ReplaceAt(ReplaceAt(p.ptrs, LeftIndex(t), newleft), RightIndex(t), newright))
           @@ newleft :> Part(leftKeys, SubSeq(ptrs, 1, leftsz))
           @@ newright :> Part(rightKeys, SubSeq(ptrs, leftsz + 1, size)),
           n, Family(t), <<Fix("degree", n)>>)

FixFails(t) ==
  /\ pc[t] = "scx"
  /\ spurious \/ ~Valid(t)
  /\ Restart(t, "scx")

-----------------------------------------------------------------------------
Step(t) ==
  \/ Return(t)
  \/ SearchRoot(t) \/ SearchDown(t) \/ AnswerFromLeaf(t)
  \/ LinkParent(t) \/ UpdateFails(t)
  \/ ReplaceValue(t) \/ InsertPair(t) \/ Overflow(t) \/ ErasePair(t)
  \/ FixCheck(t) \/ HandOver(t) \/ ParentFirst(t)
  \/ LinkGrandparent(t) \/ LinkNextParent(t) \/ LinkSelf(t)
  \/ ReadSibling(t) \/ LinkLeft(t) \/ LinkRight(t)
  \/ Absorb(t) \/ Split(t) \/ RootAbsorb(t) \/ AbsorbSibling(t) \/ Distribute(t)
  \/ FixFails(t)

Next == \E t \in Thread : Step(t) \/ \E c \in Call : Invoke(t, c)

Spec == Init /\ [][Next]_vars

(* Somebody runs; any thread may stop anywhere as long as others do not. *)
FairSpec == Spec /\ WF_vars(~spurious /\ \E t \in Thread : Step(t))

-----------------------------------------------------------------------------
(* Type correctness; the arrays of a node have DEGREE elements, of which a *)
(* leaf uses as many for keys as for values.                               *)
TypeOK ==
  /\ DOMAIN mem = Node
  /\ \A n \in Node :
       /\ mem[n].weight \in {0, 1}
       /\ mem[n].searchKey \in Key
       /\ mem[n].keys \in Seq(Key)
       /\ mem[n].ptrs \in Seq(IF mem[n].leaf THEN Value ELSE Node)
       /\ Len(mem[n].ptrs) <= DEGREE
       /\ Len(mem[n].keys) = IF mem[n].leaf THEN Len(mem[n].ptrs) ELSE Len(mem[n].ptrs) - 1
  /\ \A n \in Level(mem)[MaxDepth] : mem[n].leaf
  /\ finalized \subseteq Node /\ inuse \subseteq Node /\ linked \subseteq Node
  /\ pc \in [Thread -> {"idle", "root", "search", "update", "check", "parent", "self",
                        "sibling", "left", "right", "scx", "return"}]
  /\ call \in [Thread -> Call \cup {NoCall}]
  /\ \A t \in Thread :
       /\ {loc[t].gp, loc[t].p, loc[t].l, loc[t].s} \subseteq Node \cup {NULL}
       /\ {loc[t].ixP, loc[t].ixL} \subseteq 0 .. DEGREE
       /\ \A k \in loc[t].links : k.node \in Node
       /\ loc[t].todo \in Seq([fix : {"weight", "degree"}, viol : Node, begun : BOOLEAN])
       /\ loc[t].effect \subseteq Value \cup {NoValue}
  /\ dict \in [Key -> Value \cup {NoValue}]
  /\ pinned \in [Thread -> SUBSET Node]
  /\ seen \in [Thread -> SUBSET (Value \cup {NoValue})]
  /\ answer \in [Thread -> Value \cup {NoValue}]
  /\ \A t \in Thread : \A i \in DOMAIN script[t] : script[t][i] \subseteq Call
  /\ spurious \in BOOLEAN

Root == mem[Entry].ptrs[1]

(* The sums of the weights on the paths to the nodes, each with its node. *)
Depths(m) ==
  LET at[d \in 0 .. MaxDepth] ==
        IF d = 0 THEN {<<Entry, 0>>}
        ELSE UNION {{<<c, x[2] + m[c].weight>> : c \in ToSet(m[x[1]].ptrs)} :
                      x \in {y \in at[d - 1] : ~m[y[1]].leaf}}
  IN  UNION {at[d] : d \in 0 .. MaxDepth}

(* Between any two steps the tree is a relaxed (a,b)-tree: all leaves have *)
(* the same depth if nodes of weight 0 are not counted, and such a node    *)
(* has two children and is not the root.                                   *)
RelaxedTree ==
  /\ \A x, y \in Depths(mem) : mem[x[1]].leaf /\ mem[y[1]].leaf => x[2] = y[2]
  /\ \A n \in linked : mem[n].weight = 0 => ~mem[n].leaf /\ Len(mem[n].ptrs) = 2 /\ n # Root

Violations ==
  {Fix("weight", n) : n \in {x \in linked : mem[x].weight = 0}}
  \cup {Fix("degree", n) : n \in {x \in linked \ {Entry, Root} : Len(mem[x].ptrs) < a}}

(* Responsibility for a violation is handed over and never lost: for each  *)
(* violation in the tree an operation in progress has an invocation that   *)
(* is to fix it.  When no operation is, the tree is balanced.              *)
ViolationsOwned ==
  \A v \in Violations :
    \E t \in Thread : \E i \in DOMAIN loc[t].todo :
      loc[t].todo[i].fix = v.fix /\ loc[t].todo[i].viol = v.viol

Held(t) ==
  ({loc[t].gp, loc[t].p, loc[t].l, loc[t].s} \cup {k.node : k \in loc[t].links}
     \cup {f.viol : f \in ToSet(loc[t].todo)}) \ {NULL}

(* All nodes that an operation can follow a pointer to have been in the    *)
(* tree since its guard opened, so that none of them is allocated again;   *)
(* and each step retires exactly the nodes that its scx removes.           *)
NodesReclaimed ==
  /\ \A t \in Thread : Held(t) \subseteq linked \cup pinned[t]
  /\ inuse = linked

(* The assertions of the two procedures: there is a grandparent, a node    *)
(* with a weight violation is internal, and siblings without weight        *)
(* violations are both leaves or both internal.                            *)
FixAssertions ==
  \A t \in Thread :
    /\ AtViolation(t) => loc[t].gp # NULL
    /\ FixingWeight(t) => ~mem[Viol(t)].leaf
    /\ pc[t] \in {"left", "right", "scx"} /\ FixingDegree(t)
         => (mem[loc[t].l].leaf <=> mem[loc[t].s].leaf)

(* fixDegreeViolation notes that p->size >= a when it has found no weight  *)
(* violation.                                                              *)
ParentHasSibling ==
  \A t \in Thread :
    pc[t] \in {"left", "right", "scx"} /\ FixingDegree(t) => Len(mem[loc[t].p].ptrs) >= a

(* Rebalancing comes to an end, whoever stops: fixing one violation never  *)
(* waits for the owner of another.  Only calls that fail for no reason may *)
(* go on for ever.                                                         *)
RebalancingEnds == []<>(spurious \/ \A t \in Thread : pc[t] = "idle")

Abstract == INSTANCE Dictionary WITH effect <- [t \in Thread |-> loc[t].effect]

(* The tree implements the dictionary: every call takes effect once, when  *)
(* its own scx does, or answers what was true at a moment of its execution.*)
DictionarySpec == Abstract!Spec
=============================================================================
