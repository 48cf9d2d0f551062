-------------------------------- MODULE Debra --------------------------------
(***************************************************************************)
(* reclaimer_debra: distributed epoch based reclamation, as it is used     *)
(* through record_manager by the three trees (reclaimer_debra, pool_none,  *)
(* allocator_new), with DEAMORTIZE_FREE_CALLS as compiled by default.      *)
(*                                                                         *)
(* One action per access to memory that other threads share: the epoch,    *)
(* the announcements, and the allocator.  The data structure is the client *)
(* of the last section: it links objects, unlinks them and retires what it *)
(* unlinked before its operation ends.  record_manager::startOp ends with  *)
(* a full fence, so an announcement is visible before the first read of    *)
(* the operation and interleaving is sequentially consistent.              *)
(***************************************************************************)
EXTENDS Integers, FiniteSets

CONSTANTS
  NUM_PROCESSES,        (* threads the reclaimer is built for              *)
  Obj,                  (* objects the allocator hands out                 *)
  BLOCK_SIZE,           (* objects in a block of a blockbag                *)
  MIN_OPS_BEFORE_READ,  (* operations between two reads of announcements   *)
  MaxEpoch              (* bound: no operation starts in this epoch        *)

ASSUME DebraAssumption ==
  /\ NUM_PROCESSES \in Nat \ {0}
  /\ BLOCK_SIZE \in Nat \ {0}
  /\ MIN_OPS_BEFORE_READ \in Nat \ {0}
  /\ MaxEpoch \in Nat

NUMBER_OF_EPOCH_BAGS == 3
Thread == 0 .. NUM_PROCESSES - 1
Slot == 0 .. NUMBER_OF_EPOCH_BAGS - 1

VARIABLES
  pc,                      (* where t is in startOp, or in its life        *)
  epoch,                   (* in units of EPOCH_INCREMENT                  *)
  announcedEpoch,          (* what other threads see of t                  *)
  localvar_announcedEpoch, (* t's copy; during startOp it is readEpoch     *)
  epochbags,               (* limbo bags of t                              *)
  index, currentBag,       (* slots of epochbags[t]                        *)
  deamortizedFreeables,    (* retired objects of t that may be freed       *)
  checked, opsSinceRead,   (* progress of t's scan of the announcements    *)
  linked, pending, available, (* the client's memory, as in Reclamation    *)
  window, opEpoch          (* history: objects linked since t announced,   *)
                           (* and the epoch at that moment                 *)

limbo == <<epochbags, index, currentBag, deamortizedFreeables>>
scan == <<checked, opsSinceRead>>
client == <<linked, pending, available>>
history == <<window, opEpoch>>
vars == <<pc, epoch, announcedEpoch, localvar_announcedEpoch, limbo, scan, client, history>>

-----------------------------------------------------------------------------
(* An announced word: the epoch and, in its lowest bit, quiescence. *)
Word == [epoch : Nat, quiescent : BOOLEAN]
Announce(e) == [epoch |-> e, quiescent |-> FALSE]
GetWithQuiescent(w) == [w EXCEPT !.quiescent = TRUE]
Active(t) == ~announcedEpoch[t].quiescent

(* startOp passes "free" to "advance"; between startOp and endOp is "inop". *)
Stage == {"new", "idle", "free", "announce", "scan", "advance", "inop", "done", "off"}

(* A blockbag: the head block, never full, and the full blocks behind it. *)
Bag == [head : SUBSET Obj, full : SUBSET Obj]
EmptyBag == [head |-> {}, full |-> {}]
Items(bag) == bag.head \cup bag.full

BagAdd(bag, o) ==
  LET head == bag.head \cup {o}
  IN  IF Cardinality(head) < BLOCK_SIZE
      THEN [head |-> head, full |-> bag.full]
      ELSE [head |-> {}, full |-> bag.full \cup head]

(* Mutant: the full blocks are copied instead of moved. *)
PartialBlockCopied(bag) == bag

(* What appendMoveFullBlocks leaves of the bag it moves blocks out of. *)
PartialBlock(bag) == [head |-> bag.head, full |-> {}]

(* Mutant: the index is not incremented before the bag is taken. *)
FreeableCurrent(t) == index[t]

Freeable(t) == (index[t] + 1) % NUMBER_OF_EPOCH_BAGS

Limbo(t) == deamortizedFreeables[t] \cup UNION {Items(epochbags[t][i]) : i \in Slot}

GoTo(t, from, to) == pc[t] = from /\ pc' = [pc EXCEPT ![t] = to]

-----------------------------------------------------------------------------
Init ==
  /\ pc = [t \in Thread |-> "new"]
  /\ epoch = 0
  /\ announcedEpoch = [t \in Thread |-> GetWithQuiescent(Announce(0))]
  /\ localvar_announcedEpoch = announcedEpoch
  /\ epochbags = [t \in Thread |-> [i \in Slot |-> EmptyBag]]
  /\ index = [t \in Thread |-> 0]
  /\ currentBag = [t \in Thread |-> 0]
  /\ deamortizedFreeables = [t \in Thread |-> {}]
  /\ checked = [t \in Thread |-> 0]
  /\ opsSinceRead = [t \in Thread |-> 0]
  /\ linked = {}
  /\ pending = [t \in Thread |-> {}]
  /\ available = Obj
  /\ window = [t \in Thread |-> {}]
  /\ opEpoch = [t \in Thread |-> 0]

(* initThread: new bags where there are none; index is not touched. *)
InitThread(t) ==
  /\ GoTo(t, "new", "idle")
  /\ currentBag' = [currentBag EXCEPT ![t] = 0]
  /\ deamortizedFreeables' = [deamortizedFreeables EXCEPT ![t] = {}]
  /\ checked' = [checked EXCEPT ![t] = 0]
  /\ opsSinceRead' = [opsSinceRead EXCEPT ![t] = 0]
  /\ UNCHANGED <<epoch, announcedEpoch, localvar_announcedEpoch, epochbags, index, client, history>>

(* Mutant: only the current bag is emptied into the allocator. *)
DeinitThreadCurrentBag(t) ==
  /\ GoTo(t, "done", "off")
  /\ available' = available \cup deamortizedFreeables[t] \cup Items(epochbags[t][currentBag[t]])
  /\ epochbags' = [epochbags EXCEPT ![t][currentBag[t]] = EmptyBag]
  /\ deamortizedFreeables' = [deamortizedFreeables EXCEPT ![t] = {}]
  /\ UNCHANGED <<epoch, announcedEpoch, localvar_announcedEpoch, index, currentBag, scan,
                 linked, pending, history>>

(* deinitThread: everything in limbo goes to the allocator at once. *)
DeinitThread(t) ==
  /\ GoTo(t, "done", "off")
  /\ available' = available \cup Limbo(t)
  /\ epochbags' = [epochbags EXCEPT ![t] = [i \in Slot |-> EmptyBag]]
  /\ deamortizedFreeables' = [deamortizedFreeables EXCEPT ![t] = {}]
  /\ UNCHANGED <<epoch, announcedEpoch, localvar_announcedEpoch, index, currentBag, scan,
                 linked, pending, history>>

(* The full blocks of the oldest bag become freeable and it becomes the    *)
(* current bag.                                                            *)
RotateEpochBags(t) ==
  LET i == Freeable(t)
  IN  /\ deamortizedFreeables' = [deamortizedFreeables EXCEPT ![t] = @ \cup epochbags[t][i].full]
      /\ epochbags' = [epochbags EXCEPT ![t][i] = PartialBlock(@)]
      /\ index' = [index EXCEPT ![t] = i]
      /\ currentBag' = [currentBag EXCEPT ![t] = i]

(* Mutant: checked is not reset when the epoch has changed. *)
StartOpKeepsChecked(t) ==
  /\ epoch < MaxEpoch
  /\ GoTo(t, "idle", "free")
  /\ localvar_announcedEpoch' = [localvar_announcedEpoch EXCEPT ![t] = Announce(epoch)]
  /\ IF localvar_announcedEpoch[t] # Announce(epoch) THEN RotateEpochBags(t) ELSE UNCHANGED limbo
  /\ UNCHANGED <<epoch, announcedEpoch, scan, client, history>>

(* startOp, up to the rotation.  The bound on the epoch is here: no thread *)
(* starts an operation in epoch MaxEpoch, as if the driver's time was up.  *)
StartOp(t) ==
  /\ epoch < MaxEpoch
  /\ GoTo(t, "idle", "free")
  /\ localvar_announcedEpoch' = [localvar_announcedEpoch EXCEPT ![t] = Announce(epoch)]
  /\ IF localvar_announcedEpoch[t] # Announce(epoch)
     THEN /\ RotateEpochBags(t)
          /\ checked' = [checked EXCEPT ![t] = 0]
     ELSE UNCHANGED <<limbo, checked>>
  /\ UNCHANGED <<epoch, announcedEpoch, opsSinceRead, client, history>>

(* startOp: one deamortized call to free. *)
FreeOne(t) ==
  /\ GoTo(t, "free", "announce")
  /\ IF deamortizedFreeables[t] = {}
     THEN UNCHANGED <<available, deamortizedFreeables>>
     ELSE \E o \in deamortizedFreeables[t] :
            /\ available' = available \cup {o}
            /\ deamortizedFreeables' = [deamortizedFreeables EXCEPT ![t] = @ \ {o}]
  /\ UNCHANGED <<epoch, announcedEpoch, localvar_announcedEpoch, epochbags, index, currentBag,
                 scan, linked, pending, history>>

(* startOp: the announcement becomes visible. *)
AnnounceEpoch(t) ==
  /\ GoTo(t, "announce", "scan")
  /\ announcedEpoch' = [announcedEpoch EXCEPT ![t] = localvar_announcedEpoch[t]]
  /\ window' = [window EXCEPT ![t] = linked]
  /\ opEpoch' = [opEpoch EXCEPT ![t] = epoch]
  /\ UNCHANGED <<epoch, localvar_announcedEpoch, limbo, scan, client>>

(* Mutant: any announcement that is not ahead of t's passes. *)
PassesLate(t, u) ==
  \/ announcedEpoch[u].epoch <= localvar_announcedEpoch[t].epoch
  \/ announcedEpoch[u].quiescent

(* Mutant: a quiescent thread does not pass. *)
PassesActive(t, u) == announcedEpoch[u] = localvar_announcedEpoch[t]

(* What lets the scan of t pass thread u. *)
Passes(t, u) ==
  \/ announcedEpoch[u].epoch = localvar_announcedEpoch[t].epoch
  \/ announcedEpoch[u].quiescent

(* startOp: most operations do not look at the announcements... *)
SkipScan(t) ==
  /\ opsSinceRead[t] + 1 # MIN_OPS_BEFORE_READ
  /\ GoTo(t, "scan", "inop")
  /\ opsSinceRead' = [opsSinceRead EXCEPT ![t] = @ + 1]
  /\ UNCHANGED <<epoch, announcedEpoch, localvar_announcedEpoch, limbo, checked, client, history>>

(* ...and every MIN_OPS_BEFORE_READ-th reads one of them. *)
Scan(t) ==
  /\ pc[t] = "scan"
  /\ opsSinceRead[t] + 1 = MIN_OPS_BEFORE_READ
  /\ opsSinceRead' = [opsSinceRead EXCEPT ![t] = 0]
  /\ \/ /\ Passes(t, checked[t])
        /\ checked' = [checked EXCEPT ![t] = @ + 1]
        /\ GoTo(t, "scan", IF checked[t] + 1 >= NUM_PROCESSES THEN "advance" ELSE "inop")
     \/ /\ ~Passes(t, checked[t])
        /\ GoTo(t, "scan", "inop")
        /\ UNCHANGED checked
  /\ UNCHANGED <<epoch, announcedEpoch, localvar_announcedEpoch, limbo, client, history>>

(* startOp: the CAS on the epoch. *)
AdvanceEpoch(t) ==
  /\ GoTo(t, "advance", "inop")
  /\ epoch' = IF epoch = localvar_announcedEpoch[t].epoch THEN epoch + 1 ELSE epoch
  /\ UNCHANGED <<announcedEpoch, localvar_announcedEpoch, limbo, scan, client, history>>

EndOp(t) ==
  /\ pending[t] = {}
  /\ GoTo(t, "inop", "idle")
  /\ announcedEpoch' = [announcedEpoch EXCEPT ![t] = GetWithQuiescent(localvar_announcedEpoch[t])]
  /\ window' = [window EXCEPT ![t] = {}]
  /\ UNCHANGED <<epoch, localvar_announcedEpoch, limbo, scan, client, opEpoch>>

-----------------------------------------------------------------------------
(* The client: a tree operation between startOp and endOp. *)

Link(t, o) ==
  /\ pc[t] = "inop"
  /\ o \in available
  /\ available' = available \ {o}
  /\ linked' = linked \cup {o}
  /\ window' = [u \in Thread |-> IF Active(u) THEN window[u] \cup {o} ELSE window[u]]
  /\ UNCHANGED <<pc, epoch, announcedEpoch, localvar_announcedEpoch, limbo, scan, pending, opEpoch>>

Unlink(t, o) ==
  /\ pc[t] = "inop"
  /\ o \in linked
  /\ linked' = linked \ {o}
  /\ pending' = [pending EXCEPT ![t] = @ \cup {o}]
  /\ UNCHANGED <<pc, epoch, announcedEpoch, localvar_announcedEpoch, limbo, scan, available, history>>

(* Mutant: the object goes to the bag that is rotated next. *)
RetireIntoOldest(t, o) ==
  /\ o \in pending[t]
  /\ pending' = [pending EXCEPT ![t] = @ \ {o}]
  /\ epochbags' = [epochbags EXCEPT ![t][Freeable(t)] = BagAdd(@, o)]
  /\ UNCHANGED <<pc, epoch, announcedEpoch, localvar_announcedEpoch, index, currentBag,
                 deamortizedFreeables, scan, linked, available, history>>

Retire(t, o) ==
  /\ o \in pending[t]
  /\ pending' = [pending EXCEPT ![t] = @ \ {o}]
  /\ epochbags' = [epochbags EXCEPT ![t][currentBag[t]] = BagAdd(@, o)]
  /\ UNCHANGED <<pc, epoch, announcedEpoch, localvar_announcedEpoch, index, currentBag,
                 deamortizedFreeables, scan, linked, available, history>>

(* The thread has run its share of the operations and will start no more. *)
Finish(t) ==
  /\ GoTo(t, "idle", "done")
  /\ UNCHANGED <<epoch, announcedEpoch, localvar_announcedEpoch, limbo, scan, client, history>>

(* pthread_join has returned for every thread and the next phase of the    *)
(* driver creates threads with the same thread ids.                        *)
NewPhase ==
  /\ \A t \in Thread : pc[t] = "off"
  /\ pc' = [t \in Thread |-> "new"]
  /\ UNCHANGED <<epoch, announcedEpoch, localvar_announcedEpoch, limbo, scan, client, history>>

-----------------------------------------------------------------------------
Operation(t) ==
  \/ StartOp(t) \/ FreeOne(t) \/ AnnounceEpoch(t) \/ SkipScan(t) \/ Scan(t)
  \/ AdvanceEpoch(t) \/ EndOp(t)
  \/ \E o \in Obj : Link(t, o) \/ Unlink(t, o) \/ Retire(t, o)

(* The condition that the warning in deinitThread states. *)
AllDone == \A t \in Thread : pc[t] \in {"done", "off"}

Next ==
  \/ \E t \in Thread : InitThread(t) \/ Operation(t) \/ Finish(t)
  \/ AllDone /\ \E t \in Thread : DeinitThread(t)

Spec == Init /\ [][Next]_vars

(* The same threads come back for another phase. *)
PhasedSpec == Init /\ [][Next \/ NewPhase]_vars

(* What the threads of minimal_example.cpp do: each deinitialises itself   *)
(* as soon as its own share is done.                                       *)
DriverSpec == Init /\ [][Next \/ \E t \in Thread : DeinitThread(t)]_vars

-----------------------------------------------------------------------------
TypeOK ==
  /\ pc \in [Thread -> Stage]
  /\ epoch \in Nat
  /\ announcedEpoch \in [Thread -> Word]
  /\ localvar_announcedEpoch \in [Thread -> Word]
  /\ epochbags \in [Thread -> [Slot -> Bag]]
  /\ index \in [Thread -> Slot]
  /\ currentBag \in [Thread -> Slot]
  /\ deamortizedFreeables \in [Thread -> SUBSET Obj]
  /\ checked \in [Thread -> Nat]
  /\ opsSinceRead \in [Thread -> 0 .. MIN_OPS_BEFORE_READ - 1]
  /\ linked \in SUBSET Obj
  /\ pending \in [Thread -> SUBSET Obj]
  /\ available \in SUBSET Obj
  /\ window \in [Thread -> SUBSET Obj]
  /\ opEpoch \in [Thread -> Nat]

(* No object that a running operation may have reached is in the hands of  *)
(* the allocator, nor queued for it by some thread: what startOp's         *)
(* rotation and announcement are for.                                      *)
SafeReclaim ==
  \A t, u \in Thread : window[t] \cap (available \cup deamortizedFreeables[u]) = {}

(* The epoch advances at most once while an operation runs, because the    *)
(* scan of startOp does not pass a thread announced at an older epoch.     *)
EpochLag == \A t \in Thread : Active(t) => epoch <= opEpoch[t] + 1

(* startOp never reads an announcement beyond the last thread: checked is  *)
(* reset by the first operation that follows a full scan.                  *)
CheckedInRange ==
  \A t \in Thread : pc[t] = "scan" => checked[t] \in Thread

(* An object has one owner: nothing is retired, queued or freed twice, by  *)
(* retire, rotateEpochBags, the deamortized frees and deinitThread.        *)
OwnedOnce ==
  /\ linked \cap available = {}
  /\ \A t \in Thread : pending[t] \cap (linked \cup available) = {}
  /\ \A t, u \in Thread : Limbo(t) \cap (linked \cup available \cup pending[u]) = {}
  /\ \A t, u \in Thread : t # u => /\ pending[t] \cap pending[u] = {}
                                  /\ Limbo(t) \cap Limbo(u) = {}
  /\ \A t \in Thread, i \in Slot :
       /\ epochbags[t][i].head \cap epochbags[t][i].full = {}
       /\ Items(epochbags[t][i]) \cap deamortizedFreeables[t] = {}
       /\ \A j \in Slot : i # j => Items(epochbags[t][i]) \cap Items(epochbags[t][j]) = {}

-----------------------------------------------------------------------------
(* The inductive invariant behind the four invariants above.               *)

Age(t, i) == (index[t] - i + NUMBER_OF_EPOCH_BAGS) % NUMBER_OF_EPOCH_BAGS

(* Program counter, announcement and window move together. *)
Phases ==
  \A t \in Thread :
    /\ pc[t] \in {"scan", "advance", "inop"} <=> Active(t)
    /\ ~Active(t) => window[t] = {} /\ pending[t] = {}
    /\ pc[t] \in {"free", "announce"} => ~localvar_announcedEpoch[t].quiescent
    /\ pc[t] = "new" => index[t] = 0 /\ localvar_announcedEpoch[t].quiescent
    /\ pc[t] # "off" => currentBag[t] = index[t]

(* Every copy of the epoch is at most as recent as the one it was made of. *)
Copies ==
  \A t \in Thread :
    /\ localvar_announcedEpoch[t].epoch <= epoch
    /\ opEpoch[t] <= epoch
    /\ Active(t) => /\ announcedEpoch[t] = localvar_announcedEpoch[t]
                    /\ localvar_announcedEpoch[t].epoch <= opEpoch[t]

(* A thread that has announced no epoch yet has retired nothing. *)
Fresh ==
  \A t \in Thread :
    localvar_announcedEpoch[t].quiescent => /\ epochbags[t] = [i \in Slot |-> EmptyBag]
                                            /\ deamortizedFreeables[t] = {}
                                            /\ checked[t] = 0

(* A full scan is used once: in the CAS that follows it. *)
FullScan ==
  \A t \in Thread :
    /\ checked[t] <= NUM_PROCESSES
    /\ pc[t] = "advance" => checked[t] = NUM_PROCESSES
    /\ checked[t] = NUM_PROCESSES =>
         /\ pc[t] \notin {"free", "announce", "scan"}
         /\ pc[t] # "advance" => epoch > localvar_announcedEpoch[t].epoch

(* No thread in an epoch that began during the operation of t has got past *)
(* t in its scan.                                                          *)
NotPassed ==
  \A t, u \in Thread :
    Active(t) /\ localvar_announcedEpoch[u].epoch > opEpoch[t] => checked[u] <= t

(* Objects a running operation may hold age only with the epoch. *)
Aged ==
  \A t, u \in Thread, i \in Slot :
    Age(u, i) > 0 /\ window[t] \cap Items(epochbags[u][i]) # {} =>
      localvar_announcedEpoch[u].epoch >= opEpoch[t] + Age(u, i) - 1

IInv ==
  /\ TypeOK
  /\ Phases
  /\ Copies
  /\ Fresh
  /\ FullScan
  /\ NotPassed
  /\ Aged
  /\ EpochLag
  /\ OwnedOnce
  /\ SafeReclaim

-----------------------------------------------------------------------------
(* The reclaimer keeps the promise of Reclamation. *)
Promise == INSTANCE Reclamation WITH inOp <- {t \in Thread : Active(t)}
ReclamationSpec == Promise!Spec
=============================================================================
