------------------------------ MODULE EbrTreeQ ------------------------------
(***************************************************************************)
(* The reclaimer reclaimer_ebr_tree_q: the tree of reclaimer_ebr_tree, in  *)
(* which a thread is quiescent between its operations, and a node when all *)
(* threads below it are.  startOp makes the nodes above a leaf active,     *)
(* endOp those quiescent below which no thread is left, and both move the  *)
(* epoch up.  One action per access to a node.                             *)
(*                                                                         *)
(* A node is a word: its epoch, and low, whose last bit says quiescent.    *)
(* The bits before it count the changes, so that no CAS is misled.         *)
(***************************************************************************)
EXTENDS Integers, FiniteSets

CONSTANTS
  NUM_PROCESSES,
  Obj,
  BLOCK_SIZE,
  Ops,             (* bound: the operations of each thread                 *)
  Writer           (* bound: the threads that link, unlink and retire      *)

VARIABLES
  linked, pending, available, window, inOp,
  nodes,           (* nodes[ix]: [epoch |-> n, low |-> n]                  *)
  bags, index,     (* bags[t][i]: the epoch bags of t; the current one     *)
  local,           (* local[t]: what startOp and tryAdvance have read      *)
  left,            (* left[t]: the operations t has not started            *)
  pc

client == <<linked, pending, available, window, inOp>>
limbo == <<bags, index>>
vars == <<client, nodes, limbo, local, left, pc>>

Thread == 0 .. NUM_PROCESSES - 1
EpochBag == 0 .. 2

Promise == INSTANCE Reclamation

-----------------------------------------------------------------------------
(* The tree: 1 is the root, 2 * ix and 2 * ix + 1 are the children of ix.  *)

RoundUpPow2(n) == CHOOSE p \in 1 .. 2 * n : p >= n /\ p < 2 * n /\ \E i \in 0 .. n : p = 2 ^ i
Leaf(t) == RoundUpPow2(NUM_PROCESSES) + t
Root == 1
Parent(ix) == ix \div 2
Sibling(ix) == IF ix % 2 = 0 THEN ix + 1 ELSE ix - 1
Node == 1 .. 2 * RoundUpPow2(NUM_PROCESSES) - 1

Word(epoch, low) == [epoch |-> epoch, low |-> low]
Quiescent(v) == v.low % 2 = 1

Init ==
  /\ Promise!Init
  /\ nodes = [ix \in Node |-> IF ix = Root THEN Word(1, 0) ELSE Word(0, 1)]
  /\ bags = [t \in Thread |-> [i \in EpochBag |-> {}]]
  /\ index = [t \in Thread |-> 0]
  /\ local = [t \in Thread |->
       [starting |-> FALSE, epoch |-> 0, ix |-> 0, pval |-> Word(0, 0), sval |-> Word(0, 0), cval |-> Word(0, 0)]]
  /\ left = Ops
  /\ pc = [t \in Thread |-> "idle"]

Epoch == nodes[Root].epoch

Move(t, from, to) == pc[t] = from /\ pc' = [pc EXCEPT ![t] = to]
Step(t, from, to) == Move(t, from, to) /\ UNCHANGED client

-----------------------------------------------------------------------------
(* startOp *)

ReadEpoch(t) ==
  /\ left[t] > 0
  /\ left' = [left EXCEPT ![t] = @ - 1]
  /\ Step(t, "idle", IF Epoch = nodes[Leaf(t)].epoch THEN "announce" ELSE "rotate")
  /\ local' = [local EXCEPT ![t].epoch = Epoch, ![t].ix = Leaf(t), ![t].starting = TRUE]
  /\ UNCHANGED <<nodes, limbo>>

(* rotateEpochBags: the full blocks of the oldest bag are freed.           *)
RotateEpochBags(t) ==
  LET next == (index[t] + 1) % 3
  IN  /\ Move(t, "rotate", "announce")
      /\ index' = [index EXCEPT ![t] = next]
      /\ \E rest \in SUBSET bags[t][next] :
           /\ Cardinality(rest) = Cardinality(bags[t][next]) % BLOCK_SIZE
           /\ available' = available \cup (bags[t][next] \ rest)
           /\ bags' = [bags EXCEPT ![t][next] = rest]
      /\ UNCHANGED <<linked, pending, window, inOp, nodes, local, left>>

Announce(t) ==
  /\ Step(t, "announce", "parent")
  /\ nodes' = [nodes EXCEPT ![Leaf(t)] = Word(local[t].epoch, 0)]
  /\ UNCHANGED <<limbo, local, left>>

-----------------------------------------------------------------------------
(* tryAdvance, from the leaf of t to the root, with what t has announced   *)

(* The end of startOp, or of endOp. *)
Leave(t, from) ==
  IF local[t].starting
  THEN Move(t, from, "in") /\ Promise!BeginOp(t)
  ELSE Step(t, from, "idle")

ReadParent(t) ==
  /\ Step(t, "parent", "sibling")
  /\ local' = [local EXCEPT ![t].pval = nodes[Parent(local[t].ix)]]
  /\ UNCHANGED <<nodes, limbo, left>>

ReadSibling(t) ==
  /\ Step(t, "sibling", IF local[t].starting THEN "activate" ELSE "current")
  /\ local' = [local EXCEPT ![t].sval = nodes[Sibling(local[t].ix)]]
  /\ UNCHANGED <<nodes, limbo, left>>

ReadCurrent(t) ==
  /\ Step(t, "current", "quiesce")
  /\ local' = [local EXCEPT ![t].cval = nodes[local[t].ix]]
  /\ UNCHANGED <<nodes, limbo, left>>

(* On to the parent. *)
Up(t, from) ==
  LET pix == Parent(local[t].ix)
  IN  /\ local' = [local EXCEPT ![t].ix = pix]
      /\ IF pix = Root THEN Leave(t, from) ELSE Step(t, from, "parent")

(* The CAS of the parent: on to the next node, or once more.               *)
CasParent(t, from, new) ==
  LET pix == Parent(local[t].ix)
  IN  /\ UNCHANGED <<limbo, left>>
      /\ IF nodes[pix] = local[t].pval
         THEN nodes' = [nodes EXCEPT ![pix] = new] /\ Up(t, from)
         ELSE /\ local' = [local EXCEPT ![t].pval = nodes[pix]]
              /\ UNCHANGED nodes
              /\ Step(t, from, "sibling")

AtRoot(t) == IF Parent(local[t].ix) = Root THEN 1 ELSE 0

(* Mutant: only the own epoch counts. *)
JointAlone(t) == local[t].epoch + AtRoot(t)

(* The epoch that a thread may take up: not beyond that of its sibling.    *)
Joint(t) ==
  LET own == local[t].epoch
      sval == local[t].sval
  IN  (IF Quiescent(sval) \/ own <= sval.epoch THEN own ELSE sval.epoch) + AtRoot(t)

Changed(v) == [v EXCEPT !.low = @ + 1]

(* startOp: the parent becomes active, or gets a later epoch, or needs     *)
(* neither; then the thread leaves the nodes above it as they are.         *)
Activate(t) ==
  LET pval == local[t].pval
  IN  /\ pc[t] = "activate"
      /\ \/ /\ pval.epoch < Joint(t)
            /\ CasParent(t, "activate", Word(Joint(t), 0))
         \/ /\ pval.epoch >= Joint(t) /\ Quiescent(pval)
            /\ CasParent(t, "activate", Changed(pval))
         \/ /\ pval.epoch >= Joint(t) /\ ~Quiescent(pval)
            /\ Leave(t, "activate")
            /\ UNCHANGED <<nodes, limbo, local, left>>

(* endOp: the parent becomes quiescent when both of its children are.      *)
Quiesce(t) ==
  LET pval == local[t].pval
      both == Quiescent(local[t].cval) /\ Quiescent(local[t].sval)
      epoch == local[t].epoch + AtRoot(t)
  IN  /\ pc[t] = "quiesce"
      /\ \/ Quiescent(pval) /\ Up(t, "quiesce") /\ UNCHANGED <<nodes, limbo, left>>
         \/ /\ ~Quiescent(pval) /\ both
            /\ CasParent(t, "quiesce", IF pval.epoch < epoch THEN Word(epoch, 1) ELSE Changed(pval))
         \/ /\ ~Quiescent(pval) /\ ~both
            /\ Leave(t, "quiesce")
            /\ UNCHANGED <<nodes, limbo, local, left>>

-----------------------------------------------------------------------------
(* Within an operation. *)

tree == <<nodes, local, left>>

Link(t, o) == Promise!Link(t, o) /\ UNCHANGED <<tree, limbo, pc>>

Unlink(t, o) == Promise!Unlink(t, o) /\ UNCHANGED <<tree, limbo, pc>>

Retire(t, o) ==
  /\ Promise!Retire(t, o)
  /\ bags' = [bags EXCEPT ![t][index[t]] = @ \cup {o}]
  /\ UNCHANGED <<tree, index, pc>>

(* endOp announces that its thread is quiescent, and goes up the tree.     *)
EndOp(t) ==
  /\ Move(t, "in", "parent")
  /\ Promise!EndOp(t)
  /\ nodes' = [nodes EXCEPT ![Leaf(t)] = Changed(@)]
  /\ local' = [local EXCEPT ![t].ix = Leaf(t), ![t].starting = FALSE]
  /\ UNCHANGED <<limbo, left>>

-----------------------------------------------------------------------------
TryAdvance(t) ==
  ReadParent(t) \/ ReadSibling(t) \/ ReadCurrent(t) \/ Activate(t) \/ Quiesce(t)

Next ==
  \E t \in Thread :
    \/ ReadEpoch(t) \/ RotateEpochBags(t) \/ Announce(t) \/ TryAdvance(t) \/ EndOp(t)
    \/ t \in Writer /\ \E o \in Obj : Link(t, o) \/ Unlink(t, o) \/ Retire(t, o)

Spec == Init /\ [][Next]_vars

-----------------------------------------------------------------------------
(* No object is freed while a thread is in an operation that has seen it   *)
(* linked.                                                                 *)
PromiseKept == Promise!Spec

(* The nodes above a thread in an operation are active: nobody takes the   *)
(* threads below them for quiescent.                                       *)
ActiveToRoot ==
  \A t \in inOp, up \in {1, 2, 4, 8} :
    LET ix == Leaf(t) \div up IN ix >= Root => ~Quiescent(nodes[ix])
=============================================================================
