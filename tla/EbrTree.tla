------------------------------- MODULE EbrTree -------------------------------
(***************************************************************************)
(* The reclaimer reclaimer_ebr_tree: a thread announces the epoch in its   *)
(* leaf of a binary tree.  What both children of a node have announced is  *)
(* moved up to the node, and advances the epoch at the root.  One action   *)
(* per access to a node.                                                   *)
(*                                                                         *)
(* linked, pending, available, window and inOp say what the threads do     *)
(* with their objects, as in Reclamation.  Only what the reclaimer frees   *)
(* is its own decision.                                                    *)
(***************************************************************************)
EXTENDS Integers, FiniteSets

CONSTANTS
  NUM_PROCESSES,
  Obj,
  BLOCK_SIZE,                       (* objects of a block of a bag         *)
  MIN_TIME_BEFORE_TRY_ADVANCE,
  MaxEpoch,                         (* bound: no operation starts in it    *)
  Writer                            (* bound: the threads that link,       *)
                                    (* unlink and retire objects           *)

VARIABLES
  linked, pending, available, window, inOp,
  nodes,           (* nodes[ix]: [epoch |-> n, quiescent |-> b]            *)
  bags, index,     (* bags[t][i]: the epoch bags of t; the current one     *)
  timer,           (* timer[t]: timeSinceTryAdvance                        *)
  local,           (* local[t]: [epoch, ix, parent]: what startOp has read *)
  pc

client == <<linked, pending, available, window, inOp>>
limbo == <<bags, index>>
vars == <<client, nodes, limbo, timer, local, pc>>

Thread == 0 .. NUM_PROCESSES - 1
EpochBag == 0 .. 2

Promise == INSTANCE Reclamation

-----------------------------------------------------------------------------
(* The tree: 1 is the root, 2 * ix and 2 * ix + 1 are the children of ix.  *)

RoundUpPow2(n) == CHOOSE p \in 1 .. 2 * n : p >= n /\ p < 2 * n /\ \E i \in 0 .. n : p = 2 ^ i
Leaf(t) == RoundUpPow2(NUM_PROCESSES) + t
Root == 1
Parent(ix) == ix \div 2
Sibling(ix) == IF ix % 2 = 0 THEN ix + 1 ELSE ix - 1
Node == 1 .. 2 * RoundUpPow2(NUM_PROCESSES) - 1

(* Leaves without a thread are quiescent, and so is a node with two        *)
(* quiescent children.                                                     *)
Unused(ix) == \A t \in Thread : \A up \in {1, 2, 4, 8} : Leaf(t) \div up # ix

Init ==
  /\ Promise!Init
  /\ nodes = [ix \in Node |-> [epoch |-> IF ix = Root THEN 1 ELSE 0, quiescent |-> Unused(ix)]]
  /\ bags = [t \in Thread |-> [i \in EpochBag |-> {}]]
  /\ index = [t \in Thread |-> 0]
  /\ timer = [t \in Thread |-> 0]
  /\ local = [t \in Thread |-> [epoch |-> 0, ix |-> 0, parent |-> 0]]
  /\ pc = [t \in Thread |-> "idle"]

Epoch == nodes[Root].epoch
Announced(t) == nodes[Leaf(t)].epoch

Move(t, from, to) == pc[t] = from /\ pc' = [pc EXCEPT ![t] = to]
Step(t, from, to) == Move(t, from, to) /\ UNCHANGED client

(* The end of startOp. *)
Enter(t, from) == Move(t, from, "in") /\ Promise!BeginOp(t)

-----------------------------------------------------------------------------
(* startOp *)

(* Every so many operations, startOp ends with tryAdvance.                 *)
NextTime(t) == (timer[t] + 1) % MIN_TIME_BEFORE_TRY_ADVANCE

ReadEpoch(t) ==
  /\ Epoch < MaxEpoch
  /\ local' = [local EXCEPT ![t] = [epoch |-> Epoch, ix |-> Leaf(t), parent |-> 0]]
  /\ UNCHANGED <<nodes, limbo>>
  /\ \/ Epoch # Announced(t) /\ Step(t, "idle", "announce") /\ UNCHANGED timer
     \/ /\ Epoch = Announced(t)
        /\ timer' = [timer EXCEPT ![t] = NextTime(t)]
        /\ IF NextTime(t) = 0 THEN Step(t, "idle", "sibling") ELSE Enter(t, "idle")

Announce(t) ==
  /\ Step(t, "announce", "rotate")
  /\ nodes' = [nodes EXCEPT ![Leaf(t)].epoch = local[t].epoch]
  /\ UNCHANGED <<limbo, timer, local>>

(* Mutant: the bag of one epoch earlier is freed as well. *)
RotateTooEarly(t) ==
  LET next == (index[t] + 1) % 3
      last == (index[t] + 2) % 3
  IN  /\ Move(t, "rotate", "timer")
      /\ index' = [index EXCEPT ![t] = next]
      /\ available' = available \cup bags[t][last] \cup bags[t][next]
      /\ bags' = [bags EXCEPT ![t][last] = {}, ![t][next] = {}]
      /\ UNCHANGED <<linked, pending, window, inOp, nodes, timer, local>>

(* rotateEpochBags: the full blocks of the oldest bag are freed.           *)
RotateEpochBags(t) ==
  LET next == (index[t] + 1) % 3
  IN  /\ Move(t, "rotate", "timer")
      /\ index' = [index EXCEPT ![t] = next]
      /\ \E left \in SUBSET bags[t][next] :
           /\ Cardinality(left) = Cardinality(bags[t][next]) % BLOCK_SIZE
           /\ available' = available \cup (bags[t][next] \ left)
           /\ bags' = [bags EXCEPT ![t][next] = left]
      /\ UNCHANGED <<linked, pending, window, inOp, nodes, timer, local>>

Rotated(t) ==
  /\ timer' = [timer EXCEPT ![t] = NextTime(t)]
  /\ IF NextTime(t) = 0 THEN Step(t, "timer", "sibling") ELSE Enter(t, "timer")
  /\ UNCHANGED <<nodes, limbo, local>>

(* Mutant: the sibling is not waited for. *)
ReadSiblingNot(t) ==
  /\ Step(t, "sibling", "parent")
  /\ UNCHANGED <<nodes, limbo, timer, local>>

(* tryAdvance, from the leaf of t to the root: the sibling is to have      *)
(* announced the same epoch...                                             *)
ReadSibling(t) ==
  LET sibling == nodes[Sibling(local[t].ix)]
  IN  /\ pc[t] = "sibling"
      /\ UNCHANGED <<nodes, limbo, timer, local>>
      /\ IF sibling.epoch = Announced(t) \/ sibling.quiescent
         THEN Step(t, "sibling", "parent")
         ELSE Enter(t, "sibling")

(* ...and the parent not to have been reached by it yet.                   *)
ReadParent(t) ==
  LET ix == Parent(local[t].ix)
      epoch == nodes[ix].epoch
      reached == IF ix = Root THEN epoch # Announced(t) ELSE epoch >= Announced(t)
  IN  /\ pc[t] = "parent"
      /\ local' = [local EXCEPT ![t].parent = epoch]
      /\ UNCHANGED <<nodes, limbo, timer>>
      /\ IF reached THEN Enter(t, "parent") ELSE Step(t, "parent", "cas")

(* Mutant: a thread stops after the first node, for the others to go on. *)
PropagateOnce(t) ==
  LET ix == Parent(local[t].ix)
      unchanged == nodes[ix].epoch = local[t].parent
  IN  /\ Enter(t, "cas")
      /\ nodes' = IF unchanged
                  THEN [nodes EXCEPT ![ix].epoch = Announced(t) + IF ix = Root THEN 1 ELSE 0]
                  ELSE nodes
      /\ UNCHANGED <<limbo, timer, local>>

Propagate(t) ==
  LET ix == Parent(local[t].ix)
      unchanged == nodes[ix].epoch = local[t].parent
  IN  /\ pc[t] = "cas"
      /\ local' = [local EXCEPT ![t].ix = ix]
      /\ UNCHANGED <<limbo, timer>>
      /\ nodes' = IF unchanged
                  THEN [nodes EXCEPT ![ix].epoch = Announced(t) + IF ix = Root THEN 1 ELSE 0]
                  ELSE nodes
      /\ IF unchanged /\ ix # Root THEN Step(t, "cas", "sibling") ELSE Enter(t, "cas")

-----------------------------------------------------------------------------
(* Within an operation.  endOp does nothing. *)

tree == <<nodes, timer, local>>

Link(t, o) == Promise!Link(t, o) /\ UNCHANGED <<tree, limbo, pc>>

Unlink(t, o) == Promise!Unlink(t, o) /\ UNCHANGED <<tree, limbo, pc>>

Retire(t, o) ==
  /\ Promise!Retire(t, o)
  /\ bags' = [bags EXCEPT ![t][index[t]] = @ \cup {o}]
  /\ UNCHANGED <<tree, index, pc>>

EndOp(t) ==
  /\ Move(t, "in", "idle")
  /\ Promise!EndOp(t)
  /\ UNCHANGED <<tree, limbo>>

-----------------------------------------------------------------------------
Starting(t) ==
  \/ ReadEpoch(t) \/ Announce(t) \/ RotateEpochBags(t) \/ Rotated(t)
  \/ ReadSibling(t) \/ ReadParent(t) \/ Propagate(t)

Next ==
  \E t \in Thread :
    \/ Starting(t) \/ EndOp(t)
    \/ t \in Writer /\ \E o \in Obj : Link(t, o) \/ Unlink(t, o) \/ Retire(t, o)

Spec == Init /\ [][Next]_vars

-----------------------------------------------------------------------------
(* No object is freed while a thread is in an operation that has seen it   *)
(* linked; nothing else goes on than what Reclamation describes.           *)
PromiseKept == Promise!Spec

(* What a node holds has been announced by all threads below it, so that   *)
(* the epoch is at most one ahead of every thread.                         *)
NodesLag ==
  /\ \A t \in Thread, up \in {1, 2, 4, 8} :
       LET ix == Leaf(t) \div up IN ix > Root => nodes[ix].epoch <= Announced(t)
  /\ \A t \in Thread : Epoch <= Announced(t) + 1
=============================================================================
