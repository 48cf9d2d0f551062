----------------------------- MODULE MCLibraries -----------------------------
(***************************************************************************)
(* The reclaimers, their pool and the libraries beside the trees, one at a *)
(* time: in each behaviour it is one of them that takes steps.  They share *)
(* the variables x...; a library leaves those that it does not have None.  *)
(***************************************************************************)
EXTENDS Debra, Sequences, TLC

CONSTANT None

VARIABLES
  library,  (* the one that takes steps *)
  x1, x2, x3, x4, x5, x6, x7, x8, x9, x10, x11, x12, x13, x14, x15, x16, x17

shared == <<x1, x2, x3, x4, x5, x6, x7, x8, x9, x10, x11, x12, x13, x14, x15, x16, x17>>

Three == 1 .. 3

-----------------------------------------------------------------------------
(* KCAS of two words.  The last entry decides whether a helper finds the   *)
(* old value, a tag, or the value of an operation that has succeeded.      *)

Entry(a, old, new) == [addr |-> a, old |-> old, new |-> new]
Kcas(entries) == [op |-> "kcas", entries |-> entries]
Read(a) == [op |-> "read", addr |-> a]

KcasScripts ==
  {<<<<{Kcas(<<Entry(1, 0, 1), Entry(2, 0, 1)>>), Kcas(<<Entry(2, 1, 0), Entry(1, 0, 1)>>)},
       {Kcas(<<Entry(1, 1, 0), Entry(2, 1, 0)>>)}>>,
     <<{Kcas(<<Entry(2, 0, 1)>>)},
       {Kcas(<<Entry(2, 1, 0)>>), Kcas(<<Entry(2, 1, 0), Entry(1, 0, 2)>>)},
       {Read(1), Read(2)}>>,
     <<>>>>,
   <<<<{Kcas(<<Entry(2, 0, 1), Entry(1, 0, 1)>>)}>>, <<{Read(1)}>>, <<{Kcas(<<Entry(2, 1, 0)>>)}>>>>}

K == INSTANCE Kcas WITH
  Thread <- Three, NumWords <- 2, Value <- 0 .. 2, First <- 0, Scripts <- KcasScripts, MaxRdcss <- 8,
  word <- x1, kcasDesc <- x2, rdcssDesc <- x3, pc <- x4, op <- x5,
  frames <- x6, met <- x7, rdcss <- x8, script <- x9, answer <- x10,
  value <- x11, missed <- x12

(* Sorting the entries of an operation permutes them, as KcasProofs takes  *)
(* for granted: no entry is lost or doubled.  On all plans of up to three  *)
(* entries with different addresses.                                       *)
Plans == {s \in UNION {[1 .. n -> {Entry(a, old, 1) : a \in 1 .. 4, old \in {0, 1}}] : n \in 0 .. 3} :
            \A i, j \in DOMAIN s : s[i].addr = s[j].addr => i = j}
ASSUME SortingPermutes ==
  \A s \in Plans :
    LET sorted == K!InOrder(s) IN
    /\ Len(sorted) = Len(s)
    /\ {sorted[i] : i \in DOMAIN sorted} = {s[i] : i \in DOMAIN s}

-----------------------------------------------------------------------------
(* DCSS: t1's second operation reuses the descriptor while t2 and t3 look  *)
(* at the first, and t2 changes addr1 in between.                          *)

Dcss(a1, v1, a2, v2, new2) ==
  [op |-> "dcss", addr1 |-> a1, old1 |-> v1, addr2 |-> a2, old2 |-> v2, new2 |-> new2, payload |-> <<{}, {}>>]
Write(a, v) == [op |-> "write", addr |-> a, new |-> v]

DcssScripts ==
  {<<<<{Dcss(1, 0, 2, 0, 1)}, {Dcss(1, 1, 2, 0, 2), Dcss(1, 1, 3, 0, 2)}>>,
     <<{Write(1, 1)}, {Read(2)}, {Read(3)}, {Write(1, 0)}>>,
     <<{Read(2)}, {Read(3)}>>>>}

D == INSTANCE DcssAtomic WITH
  Thread <- Three, Addr <- 1 .. 3, Value <- 0 .. 2, First <- 0, Scripts <- DcssScripts,
  word <- x1, desc <- x2, dpc <- x3, op <- x4, help <- x5, answer <- x6,
  script <- x7, matched <- x8, missed <- x9

-----------------------------------------------------------------------------
(* LLX and SCX on one node with two fields, whose copies can be torn, by   *)
(* two threads of which one reuses its descriptor.                         *)

X == INSTANCE Scx WITH
  Thread <- {1, 2}, NumNodes <- 1, Field <- {1, 2}, MaxScx <- <<2, 1>>,
  marked <- x1, scxPtr <- x2, field <- x3, held <- x4, mutables <- x5, desc <- x6,
  pc <- x7, srcNode <- x8, seenMarked <- x9, dest <- x10, tagptr <- x11, snap <- x12,
  i <- x13, result <- x14, link <- x15, answer <- x16, applied <- x17

-----------------------------------------------------------------------------
(* Range queries over two keys, of which the first has a node: the queries *)
(* of the provider with DCSSP...                                           *)

Insert(k) == [op |-> "insert", key |-> k]
Delete(k) == [op |-> "delete", key |-> k]
Put(k) == [op |-> "put", key |-> k]
Range == [op |-> "range"]

DcsspScripts ==
  {<<<<Delete(1)>>, <<Insert(1)>>, <<Range>>>>,
   <<<<Put(1), Insert(2)>>, <<Range>>, <<>>>>,
   <<<<Insert(2), Delete(1)>>, <<Range>>, <<>>>>}

Q == INSTANCE RqDcssp WITH
  Thread <- Three, Addr <- 0 .. 2, NumKeys <- 2, Present <- {1}, Scripts <- DcsspScripts,
  word <- x1, desc <- x2, dpc <- x3, op <- x4, help <- x5, answer <- x6,
  itime <- x7, dtime <- x8, announced <- x9, bag <- x10, rpc <- x11,
  update <- x12, rq <- x13, script <- x14, asOf <- x15

(* ...and those of the one with the lock, also two at a time.              *)

RwlockScripts ==
  {<<<<Delete(1)>>, <<Delete(1), Insert(1)>>, <<Range>>>>,
   <<<<Put(1), Insert(2)>>, <<Range>>, <<>>>>,
   <<<<Insert(2), Delete(1), Delete(2)>>, <<Range>>, <<>>>>,
   <<<<Delete(1)>>, <<Range>>, <<Range>>>>}

U == INSTANCE RqRwlock WITH
  Locker <- Three, Favored <- "readers", NumKeys <- 2, Present <- {1}, Scripts <- RwlockScripts,
  lock <- x1, seen <- x2, lpc <- x3,
  word <- x4, timestamp <- x5, itime <- x6, dtime <- x7, announced <- x8,
  bag <- x9, pc <- x10, update <- x11, rq <- x12, script <- x13, asOf <- x14

(* ...and those with the snap collector: one or two queries, one after the *)
(* other or sharing a collector.                                           *)

Search(k) == [op |-> "search", key |-> k]
Query == [op |-> "query"]

SnapScripts ==
  {<<<<Delete(1)>>, <<Insert(1)>>, <<Query>>>>,
   <<<<Delete(1)>>, <<Search(1)>>, <<Query>>>>,
   <<<<Insert(2)>>, <<Search(2)>>, <<Query>>>>,
   <<<<Insert(2)>>, <<Query>>, <<Query>>>>,
   <<<<Insert(2), Delete(1)>>, <<Query, Query>>, <<>>>>}

S == INSTANCE SnapCollector WITH
  Thread <- Three, KeyOf <- <<1, 2, 1>>, Present <- {1}, Scripts <- SnapScripts,
  linked <- x1, marked <- x2, unused <- x3, seenIn <- x4, seenOut <- x5,
  snapPointer <- x6, collectors <- x7, pc <- x8, job <- x9, script <- x10

-----------------------------------------------------------------------------
(* Hazard pointers: a reader with room for two, and a writer.  While the   *)
(* writer scans for three objects, the reader may enter the fourth.        *)

H == INSTANCE HazardPtr WITH
  NumThreads <- 2, Reader <- {1}, Writer <- {2}, Obj <- 1 .. 4,
  MAX_HAZARDPTRS_PER_THREAD <- 3, ScanThreshold <- 3,
  linked <- x1, pending <- x2, available <- x3, size <- x4, data <- x5,
  held <- x6, retired <- x7, comparing <- x8, arg <- x9, scan <- x10, pc <- x11,
  moved <- x12, lost <- x13

-----------------------------------------------------------------------------
(* The pool: blocks of one object.  A block that a thread takes from the   *)
(* shared stack may be given back, or be deleted and allocated again,      *)
(* while another thread is about to take it.                               *)

Get == {"get"}
Add == {"add"}
Give == {"retire"}
AddOrGive == {"add", "retire"}
Flush == {"addMoveFullBlocks", "addMoveAll"}

PoolScripts ==
  {<<<<Get>>, <<Get, Get, Get, Give, Give, Give, Flush,
                Get, Get, Get, AddOrGive, AddOrGive, AddOrGive, Flush>>>>,
   <<<<Get, Get, Get, AddOrGive, AddOrGive, AddOrGive, Flush>>, <<Get, Get, Get, Give, Give, Give, Flush>>>>,
   <<<<Get, Get, Get, Get, Add, Add, Add, Add>>, <<Get, Get>>>>}

P == INSTANCE Pool WITH
  Thread <- {1, 2}, BLOCK_SIZE <- 1, MAX_BLOCK_POOL_SIZE <- 2, POOL_THRESHOLD_IN_BLOCKS <- 3, NumBlocks <- 16,
  Scripts <- PoolScripts,
  mem <- x1, head <- x2, allocated <- x3, out <- x4, loc <- x5, script <- x6,
  pc <- x7

-----------------------------------------------------------------------------
(* Userspace RCU: two readers that come back, and an updater.              *)

C == INSTANCE Urcu WITH
  NumThreads <- 3, MaxTime <- 5, Updater <- {3},
  time <- x1, times <- x2, next <- x3, pc <- x4, before <- x5

-----------------------------------------------------------------------------
(* The other epoch reclaimers.                                             *)
Token == INSTANCE EbrToken WITH
  NUM_PROCESSES <- 3, Obj <- {1}, BLOCK_SIZE <- 1,
  linked <- x1, pending <- x2, available <- x3, window <- x4, inOp <- x5,
  pc <- x6, token <- x7, curr <- x8, last <- x9

Tree == INSTANCE EbrTree WITH
  NUM_PROCESSES <- 3, Obj <- {1}, BLOCK_SIZE <- 1, MIN_TIME_BEFORE_TRY_ADVANCE <- 1, MaxEpoch <- 4, Writer <- {0},
  linked <- x1, pending <- x2, available <- x3, window <- x4, inOp <- x5,
  pc <- x6, nodes <- x7, bags <- x8, index <- x9, timer <- x10, local <- x11

TreeQ == INSTANCE EbrTreeQ WITH
  NUM_PROCESSES <- 2, Obj <- {1}, BLOCK_SIZE <- 1, Ops <- (0 :> 4 @@ 1 :> 1), Writer <- {0},
  linked <- x1, pending <- x2, available <- x3, window <- x4, inOp <- x5,
  pc <- x6, nodes <- x7, bags <- x8, index <- x9, local <- x10, left <- x11

Cap == INSTANCE DebraCap WITH
  NUM_PROCESSES <- 2, Obj <- {1}, BLOCK_SIZE <- 1, MIN_OPS_BEFORE_READ <- 2, MIN_RETIRES_BEFORE_SCAN <- 1,
  MaxEpoch <- 4,
  linked <- x1, pending <- x2, available <- x3, window <- x4, inOp <- x5,
  pc <- x6, epoch <- x7, announced <- x8, local <- x9, bags <- x10, index <- x11,
  checked <- x12, opsSinceRead <- x13, timesBagTooLarge <- x14

Plus == INSTANCE DebraPlus WITH
  NUM_PROCESSES <- 2, Obj <- {1, 2}, BLOCK_SIZE <- 1, NEUTRALIZE_THRESHOLD_IN_BLOCKS <- 1, ScanThreshold <- 2,
  MINIMUM_OPERATIONS_BEFORE_NEW_EPOCH_CR <- 1, MAX_PROTECT_EVEN_IF_QUIESCENT <- 1, MaxEpoch <- 4,
  Reader <- {1}, Writer <- {0},
  linked <- x1, pending <- x2, available <- x3, window <- x4, pc <- x5,
  epoch <- x6, announced <- x7, signalled <- x8, protected <- x9,
  bags <- x10, index <- x11, checked <- x12, local <- x13

-----------------------------------------------------------------------------
(* How many of the variables each library has; the others stay None.       *)
Uses ==
  "debra" :> 0 @@ "kcas" :> 12 @@ "dcss" :> 9 @@ "rq_dcssp" :> 15 @@
  "rq_rwlock" :> 14 @@ "snapcollector" :> 10 @@ "scx" :> 17 @@
  "hazardptr" :> 13 @@ "pool" :> 7 @@
  "urcu" :> 5 @@ "ebr_token" :> 9 @@ "ebr_tree" :> 11 @@
  "ebr_tree_q" :> 11 @@ "debracap" :> 14 @@ "debraplus" :> 13

RestNone ==
  /\ Uses[library] < 1 => x1 = None
  /\ Uses[library] < 2 => x2 = None
  /\ Uses[library] < 3 => x3 = None
  /\ Uses[library] < 4 => x4 = None
  /\ Uses[library] < 5 => x5 = None
  /\ Uses[library] < 6 => x6 = None
  /\ Uses[library] < 7 => x7 = None
  /\ Uses[library] < 8 => x8 = None
  /\ Uses[library] < 9 => x9 = None
  /\ Uses[library] < 10 => x10 = None
  /\ Uses[library] < 11 => x11 = None
  /\ Uses[library] < 12 => x12 = None
  /\ Uses[library] < 13 => x13 = None
  /\ Uses[library] < 14 => x14 = None
  /\ Uses[library] < 15 => x15 = None
  /\ Uses[library] < 16 => x16 = None
  /\ Uses[library] < 17 => x17 = None

RestUnchanged ==
  /\ Uses[library] < 1 => UNCHANGED x1
  /\ Uses[library] < 2 => UNCHANGED x2
  /\ Uses[library] < 3 => UNCHANGED x3
  /\ Uses[library] < 4 => UNCHANGED x4
  /\ Uses[library] < 5 => UNCHANGED x5
  /\ Uses[library] < 6 => UNCHANGED x6
  /\ Uses[library] < 7 => UNCHANGED x7
  /\ Uses[library] < 8 => UNCHANGED x8
  /\ Uses[library] < 9 => UNCHANGED x9
  /\ Uses[library] < 10 => UNCHANGED x10
  /\ Uses[library] < 11 => UNCHANGED x11
  /\ Uses[library] < 12 => UNCHANGED x12
  /\ Uses[library] < 13 => UNCHANGED x13
  /\ Uses[library] < 14 => UNCHANGED x14
  /\ Uses[library] < 15 => UNCHANGED x15
  /\ Uses[library] < 16 => UNCHANGED x16
  /\ Uses[library] < 17 => UNCHANGED x17

LibrariesInit ==
  /\ library \in DOMAIN Uses
  /\ Init
  /\ library = "kcas" => K!Init
  /\ library = "dcss" => D!Init
  /\ library = "rq_dcssp" => Q!Init
  /\ library = "rq_rwlock" => U!Init
  /\ library = "snapcollector" => S!Init
  /\ library = "scx" => X!Init
  /\ library = "hazardptr" => H!Init
  /\ library = "pool" => P!Init
  /\ library = "urcu" => C!Init
  /\ library = "ebr_token" => Token!Init
  /\ library = "ebr_tree" => Tree!Init
  /\ library = "ebr_tree_q" => TreeQ!Init
  /\ library = "debracap" => Cap!Init
  /\ library = "debraplus" => Plus!Init
  /\ RestNone

LibrariesNext ==
  /\ UNCHANGED library
  /\ \/ library = "debra" /\ Next
     \/ library = "kcas" /\ K!Next
     \/ library = "dcss" /\ D!Next
     \/ library = "rq_dcssp" /\ Q!Next
     \/ library = "rq_rwlock" /\ U!Next
     \/ library = "snapcollector" /\ S!Next
     \/ library = "scx" /\ X!Next
     \/ library = "hazardptr" /\ H!Next
     \/ library = "pool" /\ P!Next
     \/ library = "urcu" /\ C!Next
     \/ library = "ebr_token" /\ Token!Next
     \/ library = "ebr_tree" /\ Tree!Next
     \/ library = "ebr_tree_q" /\ TreeQ!Next
     \/ library = "debracap" /\ Cap!Next
     \/ library = "debraplus" /\ Plus!Next
  /\ library # "debra" => UNCHANGED vars
  /\ RestUnchanged

LibrariesSpec == LibrariesInit /\ [][LibrariesNext]_<<library, vars, shared>>

-----------------------------------------------------------------------------
(* What each library promises its callers, as its module states it.        *)
RangeQueryAtomic ==
  /\ library = "rq_dcssp" => Q!RangeQueryAtomic
  /\ library = "rq_rwlock" => U!RangeQueryAtomic
  /\ library = "snapcollector" => S!RangeQueryAtomic

(* Nothing is freed that a thread has protected and holds; with hazard     *)
(* pointers, but for the announcements that erase moves away from a scan.  *)
HeldNotFreed ==
  /\ library = "hazardptr" => H!HeldNotFreed
  /\ library = "debraplus" => Plus!HeldNotFreed

(* Each block of the pool is in one place.                                 *)
BlocksOwnedOnce == library = "pool" => P!BlocksOwnedOnce

(* The bags are what their owners take them for: full blocks behind the    *)
(* head, in the pool; and with hazard pointers a bag with room for another *)
(* object, however many are protected.                                     *)
BagsInShape ==
  /\ library = "pool" => P!BagsInShape
  /\ library = "hazardptr" => H!BagHasRoom

(* synchronize waits for every section that was open.                      *)
GracePeriod == library = "urcu" => C!GracePeriod

(* Each step of KCAS, and of DCSS, is one of AtomicWords, whose value is   *)
(* what the words of KCAS hold for their readers; and each one of LLX and  *)
(* SCX is one of AtomicScx.                                                *)
WordsAtomic ==
  /\ library = "kcas" => K!Abstract!Init
  /\ library = "dcss" => D!Abstract!Init
  /\ library = "scx" => X!Promise!Init
  /\ [][/\ library = "kcas" => K!Abstract!Next \/ UNCHANGED K!Abstract!vars
        /\ library = "dcss" => D!Abstract!Next \/ UNCHANGED D!Abstract!vars
        /\ library = "scx" => X!Promise!Next \/ UNCHANGED X!Promise!vars]_shared
  /\ [](library = "kcas" => K!WordsHold)

(* What Reclamation promises, by each of the other epoch reclaimers; what  *)
(* makes ebr_tree keep it: no node of its tree is ahead of a thread below; *)
(* and no scan of debracap reads beyond the last thread.                   *)
PromiseKept ==
  /\ [][/\ library = "ebr_token" => Token!Promise!Next
        /\ library = "ebr_tree" => Tree!Promise!Next
        /\ library = "ebr_tree_q" => TreeQ!Promise!Next
        /\ library = "debracap" => Cap!Promise!Next]_<<x1, x2, x3, x4, x5>>
  /\ [](/\ library = "ebr_tree" => Tree!NodesLag
        /\ library = "debracap" => Cap!ScanInRange)
=============================================================================
