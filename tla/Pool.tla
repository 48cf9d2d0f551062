-------------------------------- MODULE Pool --------------------------------
(***************************************************************************)
(* The pool pool_perthread_and_shared: a bag of free objects per thread    *)
(* (blockbag), empty blocks per thread (blockpool), and a shared stack of  *)
(* full blocks (lockfreeblockbag).  Beside its free bag each thread has a  *)
(* limbo bag, in which its reclaimer collects what is to be freed.         *)
(*                                                                         *)
(* What a thread does with its own bags is a function of the memory of the *)
(* blocks; each access to the head of the shared stack is an action.  The  *)
(* objects of a block are only counted: one is given out twice only if its *)
(* block is in two places.                                                 *)
(***************************************************************************)
EXTENDS Integers, FiniteSets, FiniteSetsExt, Sequences, SequencesExt

CONSTANTS
  Thread, None,
  BLOCK_SIZE,
  MAX_BLOCK_POOL_SIZE,
  POOL_THRESHOLD_IN_BLOCKS,
  NumBlocks,       (* bound: addresses that a block may have               *)
  Scripts          (* bound: the i-th call of t is in s[t][i], for an s in *)
                   (* Scripts                                              *)

VARIABLES
  mem,             (* the memory of the blocks and bags                    *)
  head,            (* of the shared stack: [ptr, tag]                      *)
  allocated,       (* history: objects that the allocator has handed out   *)
  out,             (* out[t]: objects that t has got from the pool         *)
  loc,             (* loc[t]: [exp, next, block, back]: local variables    *)
  script,          (* the calls that t has still to make                   *)
  pc

vars == <<mem, head, allocated, out, loc, script, pc>>

Block == 1 .. NumBlocks
Bags == {"free", "limbo"} \X Thread

(* mem: next and size of a block, which of them are allocated; head, tail  *)
(* and sizeInBlocks of a bag; the blockpool of a thread.                   *)
NumBags == 2 * Cardinality(Thread)
BagsInOrder == SetToSeq(Bags)

Init ==
  /\ mem = [next |-> [b \in Block |-> None],
            size |-> [b \in Block |-> 0],
            heap |-> {b \in Block : b > NumBags},
            bag |-> [k \in Bags |-> LET b == CHOOSE i \in 1 .. NumBags : BagsInOrder[i] = k IN [head |-> b, tail |-> b, blocks |-> 1]],
            pool |-> [t \in Thread |-> <<>>]]
  /\ head = [ptr |-> None, tag |-> 0]
  /\ allocated = 0
  /\ out = [t \in Thread |-> 0]
  /\ loc = [t \in Thread |-> [exp |-> head, next |-> None, block |-> None, back |-> "idle"]]
  /\ script \in Scripts
  /\ pc = [t \in Thread |-> "idle"]

-----------------------------------------------------------------------------
(* blockpool.  What is deleted may be allocated again at the same address. *)

AllocateBlock(m, t) == IF m.pool[t] = <<>> THEN Min(m.heap) ELSE Last(m.pool[t])

WithAllocated(m, t, next) ==
  LET b == AllocateBlock(m, t)
      fresh == m.pool[t] = <<>>
  IN  [m EXCEPT !.heap = IF fresh THEN @ \ {b} ELSE @,
                !.pool[t] = IF fresh THEN @ ELSE Front(@),
                !.next[b] = next,
                !.size[b] = 0]

DeallocateBlock(m, t, b) ==
  IF Len(m.pool[t]) = MAX_BLOCK_POOL_SIZE
  THEN [m EXCEPT !.heap = @ \cup {b}]
  ELSE [m EXCEPT !.pool[t] = Append(@, b)]

-----------------------------------------------------------------------------
(* blockbag: a list of blocks, all of them full but the first. *)

HeadIsFull(m, k) == m.size[m.bag[k].head] = BLOCK_SIZE

BagAdd(m, k) ==
  LET pushed == [m EXCEPT !.size[m.bag[k].head] = @ + 1]
      t == k[2]
  IN  IF ~HeadIsFull(pushed, k) THEN pushed
      ELSE [WithAllocated(pushed, t, m.bag[k].head) EXCEPT
              !.bag[k].head = AllocateBlock(pushed, t), !.bag[k].blocks = @ + 1]

BagIsEmpty(m, k) == m.size[m.bag[k].head] = 0 /\ m.next[m.bag[k].head] = None

BagRemove(m, k) ==
  LET h == m.bag[k].head
      n == m.next[h]
  IN  IF m.size[h] > 0 THEN [m EXCEPT !.size[h] = @ - 1]
      ELSE DeallocateBlock([m EXCEPT !.size[n] = @ - 1, !.bag[k].head = n, !.bag[k].blocks = @ - 1], k[2], h)

(* The block that removeFullBlock returns, or None. *)
FullBlock(m, k) ==
  LET second == m.next[m.bag[k].head]
  IN  IF second = None \/ m.next[second] = None THEN None ELSE second

RemoveFullBlock(m, k) ==
  LET b == FullBlock(m, k)
  IN  [m EXCEPT !.next = [@ EXCEPT ![m.bag[k].head] = m.next[b], ![b] = None], !.bag[k].blocks = @ - 1]

AddFullBlock(m, k, b) ==
  [m EXCEPT !.next = [@ EXCEPT ![b] = None, ![m.bag[k].tail] = b], !.bag[k].tail = b, !.bag[k].blocks = @ + 1]

(* The blocks from b on. *)
RECURSIVE Chain(_, _, _)
Chain(next, b, before) == IF b \in before \cup {None} THEN before ELSE Chain(next, next[b], before \cup {b})
Follow(m, b) == Chain(m.next, b, {})

BlocksOf(m, k) == Follow(m, m.bag[k].head)

(* Mutant: the emptied bag keeps its tail. *)
AppendMoveKeepsTail(m, k, other) ==
  LET h == m.bag[other].head
      moved == [m EXCEPT !.next = [@ EXCEPT ![m.bag[k].tail] = m.next[h], ![h] = None],
                         !.bag[k].tail = m.bag[other].tail]
  IN  IF m.next[h] = None THEN m
      ELSE [moved EXCEPT !.bag[k].blocks = Cardinality(BlocksOf(moved, k)), !.bag[other].blocks = 1]

AppendMoveFullBlocks(m, k, other) ==
  LET h == m.bag[other].head
      moved == [m EXCEPT !.next = [@ EXCEPT ![m.bag[k].tail] = m.next[h], ![h] = None],
                         !.bag[k].tail = m.bag[other].tail,
                         !.bag[other].tail = h]
  IN  IF m.next[h] = None THEN m
      ELSE [moved EXCEPT !.bag[k].blocks = Cardinality(BlocksOf(moved, k)), !.bag[other].blocks = 1]

(* After the full blocks, the objects of the head are moved one by one.    *)
AppendMoveAll(m, k, other) ==
  LET m0 == AppendMoveFullBlocks(m, k, other)
      left[i \in 0 .. BLOCK_SIZE] ==
        IF i = 0 THEN m0
        ELSE IF BagIsEmpty(left[i - 1], other) THEN left[i - 1]
        ELSE BagAdd(BagRemove(left[i - 1], other), k)
      m1 == left[BLOCK_SIZE]
  IN  [m1 EXCEPT !.bag[k].blocks = Cardinality(BlocksOf(m1, k))]

-----------------------------------------------------------------------------
Free(t) == <<"free", t>>
Limbo(t) == <<"limbo", t>>

Move(t, from, to) == pc[t] = from /\ pc' = [pc EXCEPT ![t] = to]
Calls(t, call) ==
  /\ pc[t] = "idle"
  /\ script[t] # <<>> /\ call \in Head(script[t])
  /\ script' = [script EXCEPT ![t] = Tail(@)]

(* get *)

TakeOut(t) == out' = [out EXCEPT ![t] = @ + 1]

Get(t) ==
  /\ Calls(t, "get")
  /\ UNCHANGED <<head, allocated, loc>>
  /\ IF BagIsEmpty(mem, Free(t))
     THEN Move(t, "idle", "pop") /\ UNCHANGED <<mem, out>>
     ELSE mem' = BagRemove(mem, Free(t)) /\ TakeOut(t) /\ UNCHANGED pc

(* lockfreeblockbag::getBlock *)
PopLoad(t) ==
  /\ Move(t, "pop", IF head.ptr = None THEN "allocate" ELSE "next")
  /\ loc' = [loc EXCEPT ![t].exp = head]
  /\ UNCHANGED <<mem, head, allocated, out, script>>

(* The block may have been deleted by now: anything may be read there.     *)
PopNext(t) ==
  LET b == loc[t].exp.ptr
  IN  /\ Move(t, "next", "pop.cas")
      /\ \E n \in IF b \in mem.heap THEN Block \cup {None} ELSE {mem.next[b]} :
           loc' = [loc EXCEPT ![t].next = n]
      /\ UNCHANGED <<mem, head, allocated, out, script>>

(* Mutant: the head is compared without its tag, as in lockfreeblockstack. *)
PopCasUntagged(t) ==
  LET l == loc[t]
  IN  /\ pc[t] = "pop.cas"
      /\ UNCHANGED <<mem, allocated, out, script>>
      /\ IF head.ptr = l.exp.ptr
         THEN /\ Move(t, "pop.cas", "take")
              /\ head' = [ptr |-> l.next, tag |-> l.exp.tag + 1]
              /\ loc' = [loc EXCEPT ![t] = [exp |-> [ptr |-> None, tag |-> 0], next |-> None,
                                            block |-> l.exp.ptr, back |-> "idle"]]
         ELSE Move(t, "pop.cas", "pop") /\ UNCHANGED <<head, loc>>

PopCas(t) ==
  LET l == loc[t]
  IN  /\ pc[t] = "pop.cas"
      /\ UNCHANGED <<mem, allocated, out, script>>
      /\ IF head = l.exp
         THEN /\ Move(t, "pop.cas", "take")
              /\ head' = [ptr |-> l.next, tag |-> l.exp.tag + 1]
              /\ loc' = [loc EXCEPT ![t] = [exp |-> [ptr |-> None, tag |-> 0], next |-> None,
                                            block |-> l.exp.ptr, back |-> "idle"]]
         ELSE Move(t, "pop.cas", "pop") /\ UNCHANGED <<head, loc>>

Take(t) ==
  /\ Move(t, "take", "idle")
  /\ mem' = BagRemove(AddFullBlock(mem, Free(t), loc[t].block), Free(t))
  /\ loc' = [loc EXCEPT ![t].block = None]
  /\ TakeOut(t)
  /\ UNCHANGED <<head, allocated, script>>

(* The shared bag is empty: a block of new objects. *)
Allocate(t) ==
  LET added[i \in 0 .. BLOCK_SIZE] == IF i = 0 THEN mem ELSE BagAdd(added[i - 1], Free(t))
  IN  /\ Move(t, "allocate", "idle")
      /\ allocated' = allocated + BLOCK_SIZE
      /\ mem' = BagRemove(added[BLOCK_SIZE], Free(t))
      /\ loc' = [loc EXCEPT ![t].exp = [ptr |-> None, tag |-> 0]]
      /\ TakeOut(t)
      /\ UNCHANGED <<head, script>>

-----------------------------------------------------------------------------
(* add, addMoveFullBlocks and addMoveAll *)

(* A full block goes from the free bag to the shared one. *)
GiveBlock(t, m, back) ==
  /\ Move(t, pc[t], "push")
  /\ mem' = RemoveFullBlock(m, Free(t))
  /\ loc' = [loc EXCEPT ![t].block = FullBlock(m, Free(t)), ![t].back = back]

Add(t) ==
  LET m == BagAdd(mem, Free(t))
      filled == m.bag[Free(t)].head # mem.bag[Free(t)].head
  IN  /\ Calls(t, "add")
      /\ out[t] > 0
      /\ out' = [out EXCEPT ![t] = @ - 1]
      /\ UNCHANGED <<head, allocated>>
      /\ IF filled /\ m.bag[Free(t)].blocks > POOL_THRESHOLD_IN_BLOCKS
         THEN GiveBlock(t, m, "idle")
         ELSE mem' = m /\ UNCHANGED <<pc, loc>>

(* The reclaimer puts an object into the limbo bag, and moves the full     *)
(* blocks or all of the bag.                                               *)
Retire(t) ==
  /\ Calls(t, "retire")
  /\ out[t] > 0
  /\ out' = [out EXCEPT ![t] = @ - 1]
  /\ mem' = BagAdd(mem, Limbo(t))
  /\ UNCHANGED <<head, allocated, loc, pc>>

AddMoveFullBlocks(t) ==
  /\ Calls(t, "addMoveFullBlocks")
  /\ Move(t, "idle", "give")
  /\ mem' = AppendMoveFullBlocks(mem, Free(t), Limbo(t))
  /\ UNCHANGED <<head, allocated, out, loc>>

AddMoveAll(t) ==
  /\ Calls(t, "addMoveAll")
  /\ Move(t, "idle", "give")
  /\ mem' = AppendMoveAll(mem, Free(t), Limbo(t))
  /\ UNCHANGED <<head, allocated, out, loc>>

TryGiveFreeObjects(t) ==
  /\ pc[t] = "give"
  /\ UNCHANGED <<head, allocated, out, script>>
  /\ IF mem.bag[Free(t)].blocks >= POOL_THRESHOLD_IN_BLOCKS
     THEN GiveBlock(t, mem, "give")
     ELSE Move(t, "give", "idle") /\ UNCHANGED <<mem, loc>>

(* lockfreeblockbag::addBlock *)
PushLoad(t) ==
  /\ Move(t, "push", "push.cas")
  /\ loc' = [loc EXCEPT ![t].exp = head]
  /\ mem' = [mem EXCEPT !.next[loc[t].block] = head.ptr]
  /\ UNCHANGED <<head, allocated, out, script>>

PushCas(t) ==
  LET l == loc[t]
  IN  /\ pc[t] = "push.cas"
      /\ UNCHANGED <<mem, allocated, out, script>>
      /\ IF head = l.exp
         THEN /\ Move(t, "push.cas", l.back)
              /\ head' = [ptr |-> l.block, tag |-> l.exp.tag + 1]
              /\ loc' = [loc EXCEPT ![t] = [exp |-> [ptr |-> None, tag |-> 0], next |-> None,
                                            block |-> None, back |-> "idle"]]
         ELSE Move(t, "push.cas", "push") /\ UNCHANGED <<head, loc>>

-----------------------------------------------------------------------------
Next ==
  \E t \in Thread :
    \/ Get(t) \/ PopLoad(t) \/ PopNext(t) \/ PopCas(t) \/ Take(t) \/ Allocate(t)
    \/ Add(t) \/ Retire(t) \/ AddMoveFullBlocks(t) \/ AddMoveAll(t) \/ TryGiveFreeObjects(t)
    \/ PushLoad(t) \/ PushCas(t)

Spec == Init /\ [][Next]_vars

-----------------------------------------------------------------------------
Shared == Follow(mem, head.ptr)
InHand(t) == {loc[t].block} \ {None}
Spare(t) == ToSet(mem.pool[t])
(* The places where blocks are. *)
Places ==
  <<mem.heap, Shared>>
  \o [i \in 1 .. NumBags |-> BlocksOf(mem, BagsInOrder[i])]
  \o [i \in 1 .. Cardinality(Thread) |-> Spare(SetToSeq(Thread)[i])]
  \o [i \in 1 .. Cardinality(Thread) |-> InHand(SetToSeq(Thread)[i])]

(* Whoever takes blocks from the shared stack or gives some, each block is *)
(* in one place, so that no object is given out twice, and none is lost.   *)
BlocksOwnedOnce ==
  LET places == Places
  IN  /\ UNION ToSet(places) = Block
      /\ FoldLeft(LAMBDA n, p : n + Cardinality(p), 0, places) = NumBlocks

(* All blocks of a bag but its head are full, as those that the threads    *)
(* hand to each other are, and the bag knows its last block and how many   *)
(* it has; every object is in a bag, or with the client.                   *)
BagsInShape ==
  /\ \A k \in Bags :
       LET bag == mem.bag[k]
       IN  /\ mem.size[bag.head] < BLOCK_SIZE
           /\ \A b \in BlocksOf(mem, k) \ {bag.head} : mem.size[b] = BLOCK_SIZE
           /\ bag.tail \in BlocksOf(mem, k) /\ mem.next[bag.tail] = None
           /\ bag.blocks = Cardinality(BlocksOf(mem, k))
  /\ \A b \in Shared \cup UNION {InHand(t) : t \in Thread} : mem.size[b] = BLOCK_SIZE
  /\ allocated = MapThenSumSet(LAMBDA t : out[t], Thread)
                 + MapThenSumSet(LAMBDA b : mem.size[b], Block \ mem.heap)
=============================================================================
