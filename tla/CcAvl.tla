-------------------------------- MODULE CcAvl --------------------------------
(***************************************************************************)
(* Bronson's partially external AVL tree with optimistic validation        *)
(* (bronson_pext_bst_occ/ccavl_impl.h).  A node without a value is a       *)
(* routing node, unlinked when it has fewer than two children.  Updates    *)
(* and rotations lock nodes from the top down; searches take no locks and  *)
(* validate the version of a node after they have followed its child.      *)
(*                                                                         *)
(* One action per access to shared memory, with these exceptions: what is  *)
(* read from a node under its lock, and cannot change, is read with the    *)
(* step that locks it or the one that decides; locks are released together *)
(* with the last access under them.  A thread that holds locks and has     *)
(* decided what to write writes one word per step: the order of the writes *)
(* is what searches depend on.  Nodes are never allocated again, so the    *)
(* model shows what an operation may see when memory is not reused;        *)
(* retired and pinned tell which nodes a reclaimer may give back.          *)
(***************************************************************************)
EXTENDS Integers, Sequences, FiniteSets, SequencesExt

CONSTANTS
  Thread,
  Key, Value, NoValue,
  GrowCounts,  (* 2^OVL_BITS_BEFORE_OVERFLOW                               *)
  NumNodes,    (* bound: the nodes are 1 .. NumNodes                       *)
  Scripts      (* bound: for a script in Scripts the i-th call of t is one *)
               (* of script[t].calls[i]; t starts when the last calls of   *)
               (* script[t].after have taken effect, and if script[t].stops *)
               (* in its last call it is not scheduled again when it is    *)
               (* to repair the tree and holds no locks                    *)

Call == [op : {"find", "erase"}, key : Key]
        \cup [op : {"insert", "insertIfAbsent"}, key : Key, value : Value]

ASSUME CcAvlAssumption ==
  /\ Key \subseteq Nat \ {0}
  /\ NoValue \notin Value
  /\ GrowCounts \in Nat \ {0}
  /\ NumNodes \in Nat \ {0}
  /\ Scripts \subseteq [Thread -> [after : SUBSET Thread, calls : Seq(SUBSET Call), stops : BOOLEAN]]

VARIABLES
  mem,      (* the nodes                                                   *)
  owner,    (* owner[n]: who holds the lock of n                           *)
  used,     (* the nodes 1 .. used have been allocated                     *)
  retired,  (* the nodes that have been handed to the reclaimer            *)
  pc, call, (* where t is, and in which operation                          *)
  loc,      (* the local variables of t                                    *)
  linked,   (* history: the nodes that belong to the tree                  *)
  pinned,   (* history: pinned[t]: retired since the guard of t opened     *)
  seen,     (* history: values of the key of t's call since it began       *)
  answer,   (* what the last call of t returned                            *)
  script    (* the calls that t has not made yet                           *)

tree == <<mem, used, retired, linked, pinned>>
shared == <<tree, owner>>
vars == <<mem, owner, used, retired, pc, call, loc, linked, pinned, seen, answer, script>>

-----------------------------------------------------------------------------
Node == 1 .. NumNodes
NULL == 0
Root == 1          (* tree->root: the tree proper is its right child       *)
Sides == {"left", "right"}
Other(s) == IF s = "left" THEN "right" ELSE "left"
Nobody == {}

NoCall == [op |-> "none"]

(* changeOVL: the three bits and the two counts. *)
InitialOVL == [unlinked |-> FALSE, growing |-> FALSE, shrinking |-> FALSE, grows |-> 0, shrinks |-> 0]
UnlinkedOVL == [InitialOVL EXCEPT !.unlinked = TRUE]

IsChanging(ovl) == ovl.shrinking \/ ovl.growing
IsUnlinked(ovl) == ovl = UnlinkedOVL
IsShrinkingOrUnlinked(ovl) == ovl.shrinking \/ ovl.unlinked

(* All bits but those of growth are compared. *)
HasShrunkOrUnlinked(orig, current) ==
  \/ orig.unlinked # current.unlinked
  \/ orig.shrinking # current.shrinking
  \/ orig.shrinks # current.shrinks

BeginGrow(ovl) == [ovl EXCEPT !.growing = TRUE]
BeginShrink(ovl) == [ovl EXCEPT !.shrinking = TRUE]

(* The count of growths overflows into that of shrinks. *)
EndGrow(ovl) ==
  [ovl EXCEPT !.grows = (@ + 1) % GrowCounts,
              !.shrinks = @ + ((ovl.grows + 1) \div GrowCounts)]
EndShrink(ovl) == [ovl EXCEPT !.shrinks = @ + 1]

NewNode(k, v, parent) ==
  [key |-> k, value |-> v, left |-> NULL, right |-> NULL, parent |-> parent,
   height |-> 1, ovl |-> InitialOVL]

Larger(x, y) == IF x > y THEN x ELSE y
Height(n) == IF n = NULL THEN 0 ELSE mem[n].height

SideOf(k, n) == IF k < mem[n].key THEN "left" ELSE "right"
ChildSide(p, n) == IF mem[p].left = n THEN "left" ELSE "right"

Contents ==
  [k \in Key |->
     IF \E n \in linked \ {Root} : mem[n].key = k
     THEN mem[CHOOSE n \in linked \ {Root} : mem[n].key = k].value ELSE NoValue]

(* An invocation of attemptGet or attemptUpdate: curr and nodeOVL. *)
Frame(n, ovl) == [node |-> n, ovl |-> ovl]

NoCondition == [left |-> NULL, right |-> NULL, height |-> 0, hL |-> 0]

NoLocals ==
  [path |-> <<Frame(Root, InitialOVL)>>,  (* the invocations, the last one *)
                                          (* is current                    *)
   child |-> NULL, childOVL |-> InitialOVL,
   todo |-> <<>>,                         (* what t is going to write      *)
   damaged |-> NULL,                      (* the node that t is to repair  *)
   nParent |-> NULL,                      (* its parent, when t rebalances *)
   cond |-> NoCondition,                  (* what has been read of it      *)
   reb |-> <<>>,                          (* the arguments of the current  *)
                                          (* invocation of rebalanceTo     *)
   hOut |-> 0, hIn |-> 0,                 (* hLL0, hLR0 or hRR0, hRL0      *)
   effect |-> {}]                         (* what the operation returns,   *)
                                          (* once it has taken effect      *)

Init ==
  /\ mem = [n \in Node |-> NewNode(0, NoValue, NULL)]
  /\ owner = [n \in Node |-> Nobody]
  /\ used = 1
  /\ retired = {}
  /\ pc = [t \in Thread |-> "idle"]
  /\ call = [t \in Thread |-> NoCall]
  /\ loc = [t \in Thread |-> NoLocals]
  /\ linked = {Root}
  /\ pinned = [t \in Thread |-> {}]
  /\ seen = [t \in Thread |-> {}]
  /\ answer = [t \in Thread |-> NoValue]
  /\ script \in Scripts

-----------------------------------------------------------------------------
GoTo(t, from, to) == pc[t] = from /\ pc' = [pc EXCEPT ![t] = to]
Inside == UNCHANGED <<call, answer, script>>

Free(n) == owner[n] = Nobody
Take(t, n) == owner' = [owner EXCEPT ![n] = {t}]
Release(t) == owner' = [n \in Node |-> owner[n] \ {t}]
Locked(t) == {n \in Node : owner[n] = {t}}

(* A step that changes only what t has read. *)
Local(t, from, to, l) ==
  /\ GoTo(t, from, to)
  /\ loc' = [loc EXCEPT ![t] = l]
  /\ UNCHANGED <<shared, seen>>
  /\ Inside

(* The calls in progress whose key is k may answer v from now on. *)
SeenAlso(k, v) ==
  seen' = [t \in Thread |-> IF call[t] # NoCall /\ call[t].key = k THEN seen[t] \cup {v} ELSE seen[t]]

Done(t) == script[t].calls = <<>> /\ (call[t] = NoCall \/ loc[t].effect # {})

Invoke(t, c) ==
  /\ GoTo(t, "idle", "child")
  /\ \A u \in script[t].after : Done(u)
  /\ script[t].calls # <<>> /\ c \in Head(script[t].calls)
  /\ script' = [script EXCEPT ![t].after = {}, ![t].calls = Tail(@)]
  /\ call' = [call EXCEPT ![t] = c]
  /\ seen' = [seen EXCEPT ![t] = {Contents[c.key]}]
  /\ UNCHANGED <<shared, loc, answer>>

Answer(t, v) ==
  /\ pc' = [pc EXCEPT ![t] = "idle"]
  /\ answer' = [answer EXCEPT ![t] = v]
  /\ call' = [call EXCEPT ![t] = NoCall]
  /\ loc' = [loc EXCEPT ![t] = NoLocals]
  /\ pinned' = [pinned EXCEPT ![t] = {}]
  /\ seen' = [seen EXCEPT ![t] = {}]
  /\ Release(t)
  /\ UNCHANGED <<mem, used, retired, linked, script>>

Return(t) == pc[t] = "return" /\ \E v \in loc[t].effect : Answer(t, v)

Curr(t) == Last(loc[t].path)
Reading(t) == call[t].op = "find"
Erasing(t) == call[t].op = "erase"
AtRoot(t) == Len(loc[t].path) = 1
DirToC(t) == SideOf(call[t].key, Curr(t).node)

(* The version of the root holder never changes. *)
Valid(t) == ~HasShrunkOrUnlinked(Curr(t).ovl, mem[Curr(t).node].ovl)

(* The current invocation returns SpecialRetry: its caller goes round its  *)
(* loop.                                                                   *)
Retry(t, from) ==
  /\ GoTo(t, from, "child")
  /\ loc' = [loc EXCEPT ![t] = [NoLocals EXCEPT !.path = Front(loc[t].path)]]
  /\ Release(t)
  /\ UNCHANGED <<tree, seen>> /\ Inside

-----------------------------------------------------------------------------
(* The descent of getImpl and attemptGet, and of update and attemptUpdate. *)
ReadChild(t) ==
  LET c == mem[Curr(t).node][DirToC(t)]
      next == IF ~Reading(t) THEN "validate"
              ELSE IF c = NULL THEN "absent"
              ELSE IF mem[c].key = call[t].key THEN "value" ELSE "version"
  IN  Local(t, "child", next, [loc[t] EXCEPT !.child = c])

(* attemptGet: the child was NULL while the node was in its place. *)
FindAbsent(t) ==
  /\ pc[t] = "absent"
  /\ \/ ~Valid(t) /\ Retry(t, "absent")
     \/ Valid(t) /\ Answer(t, NoValue)

(* How it got there is irrelevant. *)
FindValue(t) == pc[t] = "value" /\ Answer(t, mem[loc[t].child].value)

(* attemptUpdate validates each read of the child. *)
ValidateChild(t) ==
  LET next == IF loc[t].child # NULL THEN "version" ELSE "insert"
  IN  /\ pc[t] = "validate"
      /\ \/ ~Valid(t) /\ Retry(t, "validate")
         \/ Valid(t) /\ ~(loc[t].child = NULL /\ Erasing(t)) /\ Local(t, "validate", next, loc[t])
         \/ Valid(t) /\ loc[t].child = NULL /\ Erasing(t) /\ Answer(t, NoValue)

(* Before it goes round its loop attemptGet validates, attemptUpdate does  *)
(* so after the next read of the child.                                    *)
Again(t) == IF Reading(t) THEN "recheck" ELSE "child"

ReadVersion(t) ==
  LET ovl == mem[loc[t].child].ovl
      next == IF ~IsShrinkingOrUnlinked(ovl) THEN "reread"
              ELSE IF IsChanging(ovl) THEN "wait" ELSE Again(t)
  IN  Local(t, "version", next, [loc[t] EXCEPT !.childOVL = ovl])

(* It spins; the lock behind the loop is out of reach, as nothing counts   *)
(* the tries.                                                              *)
WaitUntilChangeCompleted(t) ==
  /\ pc[t] = "wait"
  /\ mem[loc[t].child].ovl # loc[t].childOVL
  /\ Local(t, "wait", Again(t), loc[t])

Recheck(t) ==
  /\ pc[t] = "recheck"
  /\ \/ ~Valid(t) /\ Retry(t, "recheck")
     \/ Valid(t) /\ Local(t, "recheck", "child", loc[t])

(* Mutant: the version may be that of a node that has moved down since. *)
RereadChildNot(t) == Local(t, "reread", "enter", loc[t])

(* This read of the child is the one that its version protects. *)
RereadChild(t) ==
  Local(t, "reread", IF mem[Curr(t).node][DirToC(t)] # loc[t].child THEN Again(t) ELSE "enter", loc[t])

(* The way to curr is validated once more, then the way to the child is    *)
(* the child's own business.                                               *)
Enter(t) ==
  LET l == loc[t]
      found == ~Reading(t) /\ mem[l.child].key = call[t].key
  IN  /\ pc[t] = "enter"
      /\ \/ ~Valid(t) /\ Retry(t, "enter")
         \/ Valid(t) /\ Local(t, "enter", IF ~found THEN "child" ELSE IF Erasing(t) THEN "removed" ELSE "update",
                              [l EXCEPT !.path = Append(@, Frame(l.child, l.childOVL)),
                                        !.child = NULL, !.childOVL = InitialOVL])

-----------------------------------------------------------------------------
(* What t does under its locks: one word per step, in this order. *)
Store(n, field, val) == [do |-> "store", node |-> n, field |-> field, val |-> val]
Splice(p, n, c) == [do |-> "splice", parent |-> p, node |-> n, child |-> c]
Retire(n) == [do |-> "retire", node |-> n]
Lock(n) == [do |-> "lock", node |-> n]
Unlock(n) == [do |-> "unlock", node |-> n]
FixHeight(n) == [do |-> "fix", node |-> n]        (* return fixHeight_nl(n) *)
Damaged(n) == [do |-> "damaged", node |-> n]      (* return n               *)

(* The caller is done with its locks and goes on with the damaged node. *)
Repair(t, n) ==
  /\ loc' = [loc EXCEPT ![t] = [NoLocals EXCEPT !.damaged = n, !.effect = loc[t].effect]]
  /\ pc' = [pc EXCEPT ![t] = IF n \in {NULL, Root} THEN "return" ELSE "look"]

Allocate(n, k, v, p) == used' = n /\ linked' = linked \cup {n}

(* attemptInsertIntoEmpty *)
InsertIntoEmpty(t) ==
  LET n == used + 1
      c == call[t]
  IN  /\ pc[t] = "insert" /\ AtRoot(t)
      /\ Free(Root)
      /\ IF mem[Root].right # NULL
         THEN Local(t, "insert", "child", loc[t])
         ELSE /\ mem' = [mem EXCEPT ![n] = NewNode(c.key, c.value, Root),
                                    ![Root].right = n, ![Root].height = 2]
              /\ Allocate(n, c.key, c.value, Root)
              /\ SeenAlso(c.key, c.value)
              /\ loc' = [loc EXCEPT ![t] = [NoLocals EXCEPT !.effect = {NoValue}]]
              /\ GoTo(t, "insert", "return")
              /\ UNCHANGED <<owner, retired, pinned>> /\ Inside

(* attemptUpdate, with the lock of curr; it creates the leaf, and keeps    *)
(* the lock to fix the height.                                             *)
InsertLeaf(t) ==
  LET curr == Curr(t).node
      n == used + 1
      c == call[t]
  IN  /\ pc[t] = "insert" /\ ~AtRoot(t)
      /\ Free(curr)
      /\ \/ ~Valid(t) /\ Retry(t, "insert")
         \/ /\ Valid(t) /\ mem[curr][DirToC(t)] # NULL
            /\ Local(t, "insert", "child", loc[t])
         \/ /\ Valid(t) /\ mem[curr][DirToC(t)] = NULL
            /\ mem' = [mem EXCEPT ![n] = NewNode(c.key, c.value, curr), ![curr][DirToC(t)] = n]
            /\ Allocate(n, c.key, c.value, curr)
            /\ Take(t, curr)
            /\ SeenAlso(c.key, c.value)
            /\ loc' = [loc EXCEPT ![t] = [NoLocals EXCEPT !.effect = {NoValue}, !.todo = <<FixHeight(curr)>>]]
            /\ GoTo(t, "insert", "write")
            /\ UNCHANGED <<retired, pinned>> /\ Inside

(* attemptNodeUpdate, a removal: the value, then the children. *)
ReadRemoved(t) ==
  /\ pc[t] = "removed"
  /\ IF mem[Curr(t).node].value = NoValue THEN Answer(t, NoValue) ELSE Local(t, "removed", "left?", loc[t])

ReadLeft(t) ==
  Local(t, "left?", IF mem[Curr(t).node].left = NULL THEN "parent" ELSE "right?", loc[t])
ReadRight(t) ==
  Local(t, "right?", IF mem[Curr(t).node].right = NULL THEN "parent" ELSE "update", loc[t])

(* Mutant: an unlinked node gets a value. *)
UpdatableEvenUnlinked(n) == TRUE
Updatable(n) == ~IsUnlinked(mem[n].ovl)

(* A node with fewer than two children is unlinked, not emptied. *)
Unlinkable(n) == mem[n].left = NULL \/ mem[n].right = NULL

(* The lock is held for one write at most; to empty a routing node changes *)
(* nothing.                                                                *)
UpdateInPlace(t) ==
  LET curr == Curr(t).node
      c == call[t]
      prev == mem[curr].value
      new == IF Erasing(t) THEN NoValue ELSE c.value
  IN  /\ pc[t] = "update"
      /\ Free(curr)
      /\ \/ (~Updatable(curr) \/ (Erasing(t) /\ Unlinkable(curr))) /\ Retry(t, "update")
         \/ /\ Updatable(curr) /\ ~(Erasing(t) /\ Unlinkable(curr))
            /\ IF (c.op = "insertIfAbsent" /\ prev # NoValue) \/ (Erasing(t) /\ prev = NoValue)
               THEN Answer(t, prev)
               ELSE /\ mem' = [mem EXCEPT ![curr].value = new]
                    /\ SeenAlso(c.key, new)
                    /\ loc' = [loc EXCEPT ![t] = [NoLocals EXCEPT !.effect = {prev}]]
                    /\ GoTo(t, "update", "return")
                    /\ UNCHANGED <<owner, used, retired, linked, pinned>> /\ Inside

(* A potential unlink: the parent is the node it came from. *)
LockParent(t) ==
  LET parent == loc[t].path[Len(loc[t].path) - 1].node
  IN  /\ pc[t] = "parent"
      /\ Free(parent)
      /\ IF IsUnlinked(mem[parent].ovl) \/ mem[Curr(t).node].parent # parent
         THEN Retry(t, "parent")
         ELSE /\ Take(t, parent)
              /\ GoTo(t, "parent", "unlink")
              /\ loc' = [loc EXCEPT ![t].nParent = parent]
              /\ UNCHANGED <<tree, seen>> /\ Inside

(* Mutant: somebody else may have unlinked the node. *)
CanUnlinkAgain(p, n) == Unlinkable(n)

(* attemptUnlink_nl: nothing, or what it writes. *)
CanUnlink(p, n) == n \in {mem[p].left, mem[p].right} /\ Unlinkable(n)

SpliceOf(n) == IF mem[n].left # NULL THEN mem[n].left ELSE mem[n].right

Reparent(n, p) == IF n = NULL THEN <<>> ELSE <<Lock(n), Store(n, "parent", p), Unlock(n)>>

(* Mutant: a node is retired while it is in the tree. *)
RetireAndUnlink(p, n) ==
  <<Retire(n), Splice(p, n, SpliceOf(n))>> \o Reparent(SpliceOf(n), p)
  \o <<Store(n, "ovl", UnlinkedOVL), Store(n, "value", NoValue)>>

AttemptUnlink(p, n) ==
  <<Splice(p, n, SpliceOf(n)), Retire(n)>> \o Reparent(SpliceOf(n), p)
  \o <<Store(n, "ovl", UnlinkedOVL), Store(n, "value", NoValue)>>

UnlinkNode(t) ==
  LET p == loc[t].nParent
      n == Curr(t).node
      prev == mem[n].value
  IN  /\ pc[t] = "unlink"
      /\ Free(n)
      /\ \/ prev = NoValue /\ Answer(t, NoValue)
         \/ prev # NoValue /\ ~CanUnlink(p, n) /\ Retry(t, "unlink")
         \/ /\ prev # NoValue /\ CanUnlink(p, n)
            /\ GoTo(t, "unlink", "write")
            /\ Take(t, n)
            /\ loc' = [loc EXCEPT ![t] = [NoLocals EXCEPT !.todo = AttemptUnlink(p, n) \o <<Unlock(n), FixHeight(p)>>]]
            /\ UNCHANGED <<tree, seen>> /\ Inside

-----------------------------------------------------------------------------
(* The writes. *)
Head1(t) == Head(loc[t].todo)
Written(t) == [loc EXCEPT ![t].todo = Tail(@)]

WriteWord(t) ==
  LET w == Head1(t)
  IN  /\ pc[t] = "write" /\ w.do = "store"
      /\ mem' = [mem EXCEPT ![w.node][w.field] = w.val]
      /\ loc' = Written(t)
      /\ UNCHANGED <<pc, owner, used, retired, linked, pinned, seen>> /\ Inside

(* The node leaves the tree; if it had a value, this is where an erase     *)
(* takes effect.                                                           *)
WriteSplice(t) ==
  LET w == Head1(t)
      n == w.node
  IN  /\ pc[t] = "write" /\ w.do = "splice"
      /\ mem' = [mem EXCEPT ![w.parent][ChildSide(w.parent, n)] = w.child]
      /\ linked' = linked \ {n}
      /\ IF mem[n].value = NoValue
         THEN seen' = seen /\ loc' = Written(t)
         ELSE /\ SeenAlso(mem[n].key, NoValue)
              /\ loc' = [loc EXCEPT ![t].todo = Tail(@), ![t].effect = {mem[n].value}]
      /\ UNCHANGED <<pc, owner, used, retired, pinned>> /\ Inside

RetireNode(t) ==
  LET w == Head1(t)
  IN  /\ pc[t] = "write" /\ w.do = "retire"
      /\ retired' = retired \cup {w.node}
      /\ pinned' = [u \in Thread |-> IF call[u] = NoCall THEN {} ELSE pinned[u] \cup {w.node}]
      /\ loc' = Written(t)
      /\ UNCHANGED <<pc, owner, mem, used, linked, seen>> /\ Inside

LockSplice(t) ==
  LET w == Head1(t)
  IN  /\ pc[t] = "write"
      /\ \/ w.do = "lock" /\ Free(w.node) /\ Take(t, w.node)
         \/ w.do = "unlock" /\ owner' = [owner EXCEPT ![w.node] = Nobody]
      /\ loc' = Written(t)
      /\ UNCHANGED <<pc, tree, seen>> /\ Inside

(* All is written; fixHeight_nl follows, or its caller gets the node back. *)
DoneWriting(t) ==
  LET w == Head1(t)
  IN  /\ pc[t] = "write"
      /\ \/ /\ w.do = "fix"
            /\ GoTo(t, "write", "fix")
            /\ loc' = [loc EXCEPT ![t].todo = <<>>, ![t].damaged = w.node]
            /\ UNCHANGED <<shared, seen>>
         \/ /\ w.do = "damaged"
            /\ Repair(t, w.node)
            /\ Release(t)
            /\ UNCHANGED <<tree, seen>>
      /\ Inside

-----------------------------------------------------------------------------
(* nodeCondition.  fixHeightAndRebalance reads the words of a node that    *)
(* it has not locked one after the other; with the lock, all but the       *)
(* heights of the children are at rest.  rebalance_nl reads the same.      *)
LookLeft(t) ==
  Local(t, "look", "look.right", [loc[t] EXCEPT !.cond = [NoCondition EXCEPT !.left = mem[loc[t].damaged].left]])

LookRight(t) ==
  LET c == [loc[t].cond EXCEPT !.right = mem[loc[t].damaged].right]
  IN  Local(t, "look.right", IF NULL \in {c.left, c.right} THEN "look.value" ELSE "look.height",
            [loc[t] EXCEPT !.cond = c])

(* UnlinkRequired *)
LookValue(t) ==
  Local(t, "look.value", IF mem[loc[t].damaged].value = NoValue THEN "unlinked?" ELSE "look.height", loc[t])

LookHeight(t) ==
  Local(t, "look.height", "look.hL", [loc[t] EXCEPT !.cond.height = mem[loc[t].damaged].height])

LookHeightLeft(t) ==
  \E x \in {"look", "fix", "rebalance", "to"} :
    Local(t, x \o ".hL", x \o ".hR", [loc[t] EXCEPT !.cond.hL = Height(loc[t].cond.left)])

(* Mutant: the height of an empty tree is that of a leaf. *)
NewHeightFlat(c, hR) == Larger(c.hL, hR)

(* The height that the node should have, and its balance. *)
NewHeight(c, hR) == 1 + Larger(c.hL, hR)
Balance(c, hR) == c.hL - hR
Unbalanced(bal) == bal < -1 \/ bal > 1

NothingRequired(c, hR) == ~Unbalanced(Balance(c, hR)) /\ c.height = NewHeight(c, hR)

LookHeightRight(t) ==
  LET c == loc[t].cond
      hR == Height(c.right)
      next == IF Unbalanced(Balance(c, hR)) THEN "unlinked?" ELSE "height?"
  IN  /\ pc[t] = "look.hR"
      /\ IF NothingRequired(c, hR)
         THEN Repair(t, NULL) /\ UNCHANGED <<shared, seen>> /\ Inside
         ELSE Local(t, "look.hR", next, loc[t])

(* Mutant: who is to repair a node does not see that it is gone. *)
CheckUnlinkedNot(t) ==
  \/ Local(t, "height?", "lock", loc[t])
  \/ Local(t, "unlinked?", "nParent", loc[t])

(* There is no point in fixing an unlinked node.  The parent is read for a *)
(* rebalancing; for a height the node is locked and looked at again.       *)
CheckUnlinked(t) ==
  LET n == loc[t].damaged
  IN  /\ pc[t] \in {"unlinked?", "height?"}
      /\ IF IsUnlinked(mem[n].ovl)
         THEN Repair(t, NULL) /\ UNCHANGED <<shared, seen>> /\ Inside
         ELSE Local(t, pc[t], IF pc[t] = "height?" THEN "lock" ELSE "nParent", loc[t])

LockDamaged(t) ==
  /\ GoTo(t, "lock", "fix")
  /\ Free(loc[t].damaged)
  /\ Take(t, loc[t].damaged)
  /\ UNCHANGED <<loc, tree, seen>> /\ Inside

ReadCondition(n) == [NoCondition EXCEPT !.left = mem[n].left, !.right = mem[n].right, !.height = mem[n].height]
UnlinkRequired(n) == Unlinkable(n) /\ mem[n].value = NoValue

(* fixHeight_nl *)
FixLook(t) ==
  LET n == loc[t].damaged
  IN  /\ pc[t] = "fix"
      /\ IF UnlinkRequired(n)
         THEN Repair(t, n) /\ Release(t) /\ UNCHANGED <<tree, seen>> /\ Inside
         ELSE Local(t, "fix", "fix.hL", [loc[t] EXCEPT !.cond = ReadCondition(n)])

FixHeightRight(t) ==
  LET n == loc[t].damaged
      c == loc[t].cond
      hR == Height(c.right)
  IN  /\ GoTo(t, "fix.hR", "fix.parent")
      /\ ~NothingRequired(c, hR) /\ ~Unbalanced(Balance(c, hR))
      /\ mem' = [mem EXCEPT ![n].height = NewHeight(c, hR)]
      /\ UNCHANGED <<loc, owner, used, retired, linked, pinned, seen>> /\ Inside

FixNothing(t) ==
  LET c == loc[t].cond
      hR == Height(c.right)
  IN  /\ pc[t] = "fix.hR"
      /\ NothingRequired(c, hR) \/ Unbalanced(Balance(c, hR))
      /\ Repair(t, IF NothingRequired(c, hR) THEN NULL ELSE loc[t].damaged)
      /\ Release(t)
      /\ UNCHANGED <<tree, seen>> /\ Inside

(* The parent is damaged now. *)
FixParent(t) ==
  /\ pc[t] = "fix.parent"
  /\ Repair(t, mem[loc[t].damaged].parent)
  /\ Release(t)
  /\ UNCHANGED <<tree, seen>> /\ Inside

-----------------------------------------------------------------------------
(* fixHeightAndRebalance, when it takes more than a height. *)
ReadParent(t) ==
  Local(t, "nParent", "lock nParent", [loc[t] EXCEPT !.nParent = mem[loc[t].damaged].parent])

LockNParent(t) ==
  LET n == loc[t].damaged
      p == loc[t].nParent
  IN  /\ pc[t] = "lock nParent"
      /\ Free(p)
      /\ IF IsUnlinked(mem[p].ovl) \/ mem[n].parent # p
         THEN Local(t, "lock nParent", "look", loc[t])
         ELSE /\ GoTo(t, "lock nParent", "lock node")
              /\ Take(t, p)
              /\ UNCHANGED <<loc, tree, seen>> /\ Inside

(* rebalance_nl *)
Rebalance(t) ==
  LET n == loc[t].damaged
      p == loc[t].nParent
      Next1(l, to) == /\ loc' = [loc EXCEPT ![t] = l]
                      /\ pc' = [pc EXCEPT ![t] = to]
                      /\ Take(t, n)
  IN  /\ pc[t] = "lock node"
      /\ Free(n)
      /\ \/ ~UnlinkRequired(n) /\ Next1([loc[t] EXCEPT !.cond = ReadCondition(n)], "rebalance.hL")
         \/ /\ UnlinkRequired(n) /\ CanUnlink(p, n)
            /\ Next1([loc[t] EXCEPT !.todo = AttemptUnlink(p, n) \o <<FixHeight(p)>>], "write")
         \/ UnlinkRequired(n) /\ ~CanUnlink(p, n) /\ Repair(t, n) /\ Release(t)
      /\ UNCHANGED <<tree, seen>> /\ Inside

(* The arguments of rebalanceToRight_nl, if s is left, or rebalanceToLeft_nl: *)
(* the child c of n on side s is too high for its sibling's height h0.     *)
RebalanceTo(s, p, n, c, h0) == [s |-> s, p |-> p, n |-> n, c |-> c, h0 |-> h0]

RebalanceRight(t) ==
  LET l == loc[t]
      n == l.damaged
      p == l.nParent
      c == l.cond
      hR == Height(c.right)
      Next1(m, to) == Local(t, "rebalance.hR", to, m)
  IN  /\ pc[t] = "rebalance.hR"
      /\ \/ /\ Balance(c, hR) > 1
            /\ Next1([l EXCEPT !.reb = <<RebalanceTo("left", p, n, c.left, hR)>>], "lock child")
         \/ /\ Balance(c, hR) < -1
            /\ Next1([l EXCEPT !.reb = <<RebalanceTo("right", p, n, c.right, c.hL)>>], "lock child")
         \/ /\ ~Unbalanced(Balance(c, hR)) /\ c.height # NewHeight(c, hR)
            /\ Next1([l EXCEPT !.todo = <<Store(n, "height", NewHeight(c, hR)), FixHeight(p)>>], "write")
         \/ /\ NothingRequired(c, hR)
            /\ Repair(t, NULL) /\ Release(t)
            /\ UNCHANGED <<tree, seen>> /\ Inside

Reb(t) == Head(loc[t].reb)
Inner(t) == mem[Reb(t).c][Other(Reb(t).s)]

(* rebalanceToRight_nl and rebalanceToLeft_nl look first whether the child *)
(* is still too high, or n is to be looked at again.                       *)
Begin(t, r) ==
  IF mem[r.c].height - r.h0 <= 1
  THEN Repair(t, r.n) /\ Release(t)
  ELSE /\ loc' = [loc EXCEPT ![t].reb = <<r>>, ![t].cond = ReadCondition(r.c)]
       /\ pc' = [pc EXCEPT ![t] = "to.hL"]
       /\ owner' = [owner EXCEPT ![r.c] = {t}]

LockChild(t) ==
  /\ pc[t] = "lock child"
  /\ Free(Reb(t).c)
  /\ Begin(t, Reb(t))
  /\ UNCHANGED <<tree, seen>> /\ Inside

(* The left height is read first, on either side. *)
RebalanceToHeights(t) ==
  LET hR == Height(loc[t].cond.right)
      hOut == IF Reb(t).s = "left" THEN loc[t].cond.hL ELSE hR
      hIn == IF Reb(t).s = "left" THEN hR ELSE loc[t].cond.hL
  IN  Local(t, "to.hR", IF hOut >= hIn THEN "rotate" ELSE "lock inner",
            [loc[t] EXCEPT !.hOut = hOut, !.hIn = hIn])

-----------------------------------------------------------------------------
(* The rotations: the writes, and what is damaged in the end. *)
Up(p, n, c) == Store(p, ChildSide(p, n), c)
ParentOf(n, p) == IF n = NULL THEN <<>> ELSE <<Store(n, "parent", p)>>

(* Mutant: the links change before the versions. *)
RotateSearchable(r, g, hOut, hIn) ==
  LET n == r.n
      c == r.c
      o == Other(r.s)
      hN == 1 + Larger(hIn, r.h0)
  IN  <<Store(n, r.s, g), Store(c, o, n), Up(r.p, n, c), Store(c, "parent", r.p), Store(n, "parent", c)>>
      \o ParentOf(g, n)
      \o <<Store(n, "height", hN), Store(c, "height", 1 + Larger(hOut, hN)),
           Store(c, "ovl", EndGrow(mem[c].ovl)), Store(n, "ovl", EndShrink(mem[n].ovl))>>

RotateWrites(r, g, hOut, hIn) ==
  LET n == r.n
      c == r.c
      o == Other(r.s)
      hN == 1 + Larger(hIn, r.h0)
  IN  <<Store(n, "ovl", BeginShrink(mem[n].ovl)), Store(c, "ovl", BeginGrow(mem[c].ovl)),
        Store(n, r.s, g), Store(c, o, n), Up(r.p, n, c), Store(c, "parent", r.p), Store(n, "parent", c)>>
      \o ParentOf(g, n)
      \o <<Store(n, "height", hN), Store(c, "height", 1 + Larger(hOut, hN)),
           Store(c, "ovl", EndGrow(mem[c].ovl)), Store(n, "ovl", EndShrink(mem[n].ovl))>>

(* n is the deepest of the damaged nodes, then the new top, then nParent. *)
AfterRotation(r, top, hN, hOtherN, hOutTop) ==
  IF Unbalanced(hOtherN - r.h0) THEN Damaged(r.n)
  ELSE IF Unbalanced(hOutTop - hN) THEN Damaged(top)
  ELSE FixHeight(r.p)

(* rotateRight_nl, or rotateLeft_nl *)
Rotate(r, g, hOut, hIn) ==
  RotateWrites(r, g, hOut, hIn)
  \o <<AfterRotation(r, r.c, 1 + Larger(hIn, r.h0), hIn, hOut)>>

(* rotateRightOverLeft_nl, or rotateLeftOverRight_nl: g moves to the top;  *)
(* its subtrees x and y, of heights hx and hy, go to c and to n.           *)
DoubleRotate(r, g, hOut, hx, hy) ==
  LET n == r.n
      c == r.c
      o == Other(r.s)
      x == mem[g][r.s]
      y == mem[g][o]
      hN == 1 + Larger(hy, r.h0)
      hC == 1 + Larger(hOut, hx)
  IN  <<Store(n, "ovl", BeginShrink(mem[n].ovl)), Store(c, "ovl", BeginShrink(mem[c].ovl)),
        Store(g, "ovl", BeginGrow(mem[g].ovl)),
        Store(n, r.s, y), Store(c, o, x), Store(g, r.s, c), Store(g, o, n), Up(r.p, n, g),
        Store(g, "parent", r.p), Store(c, "parent", g), Store(n, "parent", g)>>
      \o ParentOf(y, n) \o ParentOf(x, c)
      \o <<Store(n, "height", hN), Store(c, "height", hC), Store(g, "height", 1 + Larger(hC, hN)),
           Store(g, "ovl", EndGrow(mem[g].ovl)), Store(c, "ovl", EndShrink(mem[c].ovl)),
           Store(n, "ovl", EndShrink(mem[n].ovl)),
           AfterRotation(r, g, hN, hy, hC)>>

Write(t, from, todo) ==
  /\ GoTo(t, from, "write")
  /\ loc' = [loc EXCEPT ![t] = [NoLocals EXCEPT !.effect = loc[t].effect, !.todo = todo]]
  /\ UNCHANGED <<tree, seen>> /\ Inside

(* The inner grandchild is not the higher one: a single rotation. *)
RotateOnce(t) ==
  LET g == Inner(t)
  IN  /\ pc[t] = "rotate"
      /\ \A m \in {g} \ {NULL} : Free(m)
      /\ Write(t, "rotate", Rotate(Reb(t), g, loc[t].hOut, loc[t].hIn))
      /\ owner' = IF g = NULL THEN owner ELSE [owner EXCEPT ![g] = {t}]

(* It was, but its height is read again under its lock. *)
LockInner(t) ==
  LET g == Inner(t)
  IN  /\ pc[t] = "lock inner"
      /\ Free(g) /\ Take(t, g)
      /\ IF loc[t].hOut >= mem[g].height
         THEN Write(t, "lock inner", Rotate(Reb(t), g, loc[t].hOut, mem[g].height))
         ELSE GoTo(t, "lock inner", "inner") /\ UNCHANGED <<loc, tree, seen>> /\ Inside

(* A double rotation if it leaves the child balanced; otherwise the child  *)
(* is rotated first, the other way.                                        *)
LookInner(t) ==
  LET r == Reb(t)
      g == Inner(t)
      hx == Height(mem[g][r.s])
  IN  /\ pc[t] = "inner"
      /\ \/ /\ ~Unbalanced(loc[t].hOut - hx)
            /\ Local(t, "inner", "double", [loc[t] EXCEPT !.hIn = hx])
         \/ /\ Unbalanced(loc[t].hOut - hx)
            /\ Begin(t, RebalanceTo(Other(r.s), r.n, r.c, g, loc[t].hOut))
            /\ UNCHANGED <<tree, seen>> /\ Inside

RotateTwice(t) ==
  LET r == Reb(t)
      g == Inner(t)
  IN  /\ Write(t, "double", DoubleRotate(r, g, loc[t].hOut, loc[t].hIn, Height(mem[g][Other(r.s)])))
      /\ UNCHANGED owner

-----------------------------------------------------------------------------
Stopped(t) == script[t].stops /\ script[t].calls = <<>> /\ pc[t] = "look"

Progress(t) ==
  \/ ReadChild(t) \/ FindAbsent(t) \/ FindValue(t) \/ ValidateChild(t)
  \/ ReadVersion(t) \/ WaitUntilChangeCompleted(t) \/ Recheck(t) \/ RereadChild(t) \/ Enter(t)
  \/ InsertIntoEmpty(t) \/ InsertLeaf(t) \/ UpdateInPlace(t)
  \/ ReadRemoved(t) \/ ReadLeft(t) \/ ReadRight(t) \/ LockParent(t) \/ UnlinkNode(t)
  \/ WriteWord(t) \/ WriteSplice(t) \/ RetireNode(t) \/ LockSplice(t) \/ DoneWriting(t)
  \/ LookLeft(t) \/ LookRight(t) \/ LookValue(t) \/ LookHeight(t)
  \/ LookHeightLeft(t) \/ LookHeightRight(t) \/ CheckUnlinked(t)
  \/ LockDamaged(t) \/ FixLook(t) \/ FixHeightRight(t) \/ FixNothing(t) \/ FixParent(t)
  \/ ReadParent(t) \/ LockNParent(t) \/ Rebalance(t) \/ RebalanceRight(t)
  \/ LockChild(t) \/ RebalanceToHeights(t) \/ RotateOnce(t) \/ LockInner(t) \/ LookInner(t) \/ RotateTwice(t)
  \/ Return(t)

Step(t) == ~Stopped(t) /\ Progress(t)

(* Every thread has made its calls. *)
Stop ==
  /\ \A t \in Thread : (pc[t] = "idle" /\ script[t].calls = <<>>) \/ Stopped(t)
  /\ UNCHANGED vars

Next ==
  \/ \E t \in Thread : Step(t) \/ \E c \in Call : Invoke(t, c)
  \/ Stop

Spec == Init /\ [][Next]_vars

(* Every thread inside a call is scheduled. *)
FairSpec == Spec /\ \A t \in Thread : WF_vars(Step(t))

-----------------------------------------------------------------------------
Idle == \A t \in Thread : pc[t] = "idle"

InnerNodes == linked \ {Root}

(* Type correctness. *)
TypeOK ==
  /\ \A n \in Node :
       /\ mem[n].key \in Key \cup {0} /\ mem[n].value \in Value \cup {NoValue}
       /\ {mem[n].left, mem[n].right, mem[n].parent} \subseteq 0 .. used
       /\ mem[n].height \in 1 .. NumNodes + 1
       /\ mem[n].ovl.grows \in 0 .. GrowCounts - 1 /\ mem[n].ovl.shrinks \in Nat
       /\ \E t \in Thread : owner[n] \subseteq {t}
  /\ used \in Node
  /\ retired \subseteq 1 .. used /\ linked \subseteq 1 .. used
  /\ pinned \in [Thread -> SUBSET retired]
  /\ call \in [Thread -> Call \cup {NoCall}]
  /\ \A t \in Thread : Cardinality(loc[t].effect) <= 1
  /\ answer \in [Thread -> Value \cup {NoValue}]

Subtree ==
  LET below[d \in 0 .. NumNodes] ==
        [n \in Node |-> IF d = 0 THEN {n}
           ELSE {n} \cup UNION {below[d - 1][c] : c \in {mem[n].left, mem[n].right} \ {NULL}}]
  IN  below[NumNodes]

(* When no operation runs the tree is a search tree of exactly the linked  *)
(* nodes, its parent pointers are right, and no node without a value has   *)
(* fewer than two children: each routing node that has lost a child has    *)
(* been unlinked by somebody.                                              *)
QuiescentTree ==
  Idle =>
    LET sub == Subtree
    IN  /\ sub[Root] = linked
        /\ \A n \in InnerNodes :
             /\ \A s \in Sides : mem[n][s] # NULL =>
                  /\ mem[mem[n][s]].parent = n
                  /\ \A m \in sub[mem[n][s]] : SideOf(mem[m].key, n) = s /\ mem[m].key # mem[n].key
             /\ ~UnlinkRequired(n)

(* The assertions of beginGrow and beginShrink (only nodes at rest are     *)
(* rotated), of attemptUnlink_nl (the node and its parent are in the tree, *)
(* and the parent pointer is right) and of attemptUpdate.                  *)
AssertionsHold ==
  \A t \in Thread :
    /\ loc[t].todo # <<>> =>
         LET w == Head(loc[t].todo)
         IN  /\ (w.do = "store" /\ w.field = "ovl" /\ IsChanging(w.val)) =>
                  ~IsChanging(mem[w.node].ovl) /\ ~mem[w.node].ovl.unlinked
             /\ w.do = "splice" =>
                  /\ ~mem[w.parent].ovl.unlinked /\ ~mem[w.node].ovl.unlinked
                  /\ mem[w.node].parent = w.parent /\ w.child # w.node
    /\ \A i \in DOMAIN loc[t].path : ~loc[t].path[i].ovl.unlinked

(* A node that is marked as unlinked stays so and never gets a value or a  *)
(* child again: what was written to it would be lost.                      *)
UnlinkedIsFinal ==
  [][\A n \in Node : mem[n].ovl.unlinked =>
       /\ mem'[n].ovl = mem[n].ovl
       /\ mem'[n].left = mem[n].left /\ mem'[n].right = mem[n].right
       /\ mem'[n].value = NoValue \/ mem'[n].value = mem[n].value]_mem

(* Each node that a search goes through has been retired, if at all, after *)
(* the guard of the search was opened.  (The same does not hold of the     *)
(* nodes that an operation repairs: attemptUnlink_nl retires a node before *)
(* it redirects the parent pointer of the child that takes its place.)     *)
SearchedNodesPinned ==
  \A t \in Thread :
    (({loc[t].path[i].node : i \in DOMAIN loc[t].path} \cup {loc[t].child}) \cap retired) \subseteq pinned[t]

(* Every call returns, beside threads that have stopped before they have   *)
(* repaired the tree: nobody waits for another in a circle, or for a       *)
(* rotation that is over, and no two repairs undo each other for ever.     *)
EveryCallReturns == []<>(\A t \in Thread : pc[t] = "idle" \/ Stopped(t))

Abstract == INSTANCE Dictionary WITH
  dict <- Contents, effect <- [t \in Thread |-> loc[t].effect]

(* The tree implements the dictionary, at every moment of every rotation.  *)
DictionarySpec == Abstract!Spec
=============================================================================
