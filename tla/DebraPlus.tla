------------------------------ MODULE DebraPlus ------------------------------
(***************************************************************************)
(* The reclaimer reclaimer_debraplus, with the signal handler of           *)
(* recovery_manager: a thread whose current bag is too large neutralises   *)
(* those that keep the epoch from advancing.  One action per access to the *)
(* epoch, to an announcement, or to a list of protected objects.           *)
(*                                                                         *)
(* linked, pending, available and window say what the threads do with      *)
(* their objects, as in Reclamation.  A neutralised thread loses what it   *)
(* has seen in its operation but for the objects that it has protected by  *)
(* qProtect; it recovers, retires what it has unlinked and unprotects      *)
(* everything, as it does after an operation that has not been disturbed.  *)
(* A signal is handled before the next step of the thread that it is sent  *)
(* to, unless it is blocked.                                               *)
(***************************************************************************)
EXTENDS Integers, FiniteSets

CONSTANTS
  NUM_PROCESSES,
  Obj,
  BLOCK_SIZE,                       (* objects of a block of a bag         *)
  NEUTRALIZE_THRESHOLD_IN_BLOCKS,
  ScanThreshold,                    (* in blocks                           *)
  MINIMUM_OPERATIONS_BEFORE_NEW_EPOCH_CR,
  MAX_PROTECT_EVEN_IF_QUIESCENT,
  MaxEpoch,                         (* bound: no operation starts in it    *)
  Reader, Writer                    (* bound: the threads that protect,    *)
                                    (* and that link and unlink objects    *)

VARIABLES
  linked, pending, available, window,
  epoch,
  announced,       (* announced[t]: [epoch |-> n, quiescent |-> b]         *)
  signalled,       (* the threads with a signal that is not handled yet    *)
  protected,       (* protected[t]: announce[t], the qProtected objects    *)
  bags, index,     (* bags[t][i]: the epoch bags of t; the current one     *)
  checked,
  local,           (* local[t]: [epoch, comparing, list, next]: readEpoch, *)
                   (* and what t's scan of the protected objects has seen  *)
  pc

client == <<linked, pending, available, window>>
limbo == <<bags, index>>
vars == <<client, epoch, announced, signalled, protected, limbo, checked, local, pc>>

Thread == 0 .. NUM_PROCESSES - 1
EpochBag == 0 .. 2

NoScan == [comparing |-> {}, list |-> 0, next |-> 0, size |-> 0]

Init ==
  /\ linked = {}
  /\ pending = [t \in Thread |-> {}]
  /\ available = Obj
  /\ window = [t \in Thread |-> {}]
  /\ epoch = 0
  /\ announced = [t \in Thread |-> [epoch |-> 0, quiescent |-> TRUE]]
  /\ signalled = {}
  /\ protected = [t \in Thread |-> [size |-> 0, data |-> [i \in 1 .. MAX_PROTECT_EVEN_IF_QUIESCENT |-> 0]]]
  /\ bags = [t \in Thread |-> [i \in EpochBag |-> {}]]
  /\ index = [t \in Thread |-> 0]
  /\ checked = [t \in Thread |-> 0]
  /\ local = [t \in Thread |-> [epoch |-> 0, scan |-> NoScan]]
  /\ pc = [t \in Thread |-> "idle"]

(* Between the handler and the end of the recovery, signals are blocked.   *)
Undisturbed(t) == t \notin signalled \/ pc[t] = "recover"

Step(t, from, to) == pc[t] = from /\ Undisturbed(t) /\ pc' = [pc EXCEPT ![t] = to]

Blocks(bag) == 1 + Cardinality(bag) \div BLOCK_SIZE
CurrentBag(t) == bags[t][index[t]]

-----------------------------------------------------------------------------
(* startOp runs while the thread is quiescent. *)

ReadEpoch(t) ==
  LET changed == epoch # announced[t].epoch
      next == (index[t] + 1) % 3
  IN  /\ epoch < MaxEpoch
      /\ local' = [local EXCEPT ![t].epoch = epoch]
      /\ UNCHANGED <<client, epoch, announced, signalled, protected, bags>>
      /\ IF ~changed THEN Step(t, "idle", "scan") /\ UNCHANGED <<index, checked>>
         ELSE /\ Step(t, "idle", IF Blocks(bags[t][next]) >= ScanThreshold THEN "protected" ELSE "scan")
              /\ index' = [index EXCEPT ![t] = next]
              /\ checked' = [checked EXCEPT ![t] = 0]

(* rotateEpochBags: all that the threads protect... *)
ReadSize(t) ==
  LET s == local[t].scan
      size == protected[s.list].size
  IN  /\ pc[t] = "protected"
      /\ UNCHANGED <<client, epoch, announced, signalled, protected, limbo, checked>>
      /\ IF s.list = NUM_PROCESSES
         THEN Step(t, "protected", "free") /\ UNCHANGED local
         ELSE /\ Step(t, "protected", IF size = 0 THEN "protected" ELSE "entry")
              /\ local' = [local EXCEPT ![t].scan =
                   IF size = 0 THEN [s EXCEPT !.list = @ + 1] ELSE [s EXCEPT !.next = 1, !.size = size]]

ReadEntry(t) ==
  LET s == local[t].scan
      last == s.next = s.size
      seen == [s EXCEPT !.comparing = @ \cup {protected[s.list].data[s.next]}]
  IN  /\ pc[t] = "entry"
      /\ Step(t, "entry", IF last THEN "protected" ELSE "entry")
      /\ local' = [local EXCEPT ![t].scan =
           IF last THEN [seen EXCEPT !.list = @ + 1, !.next = 0, !.size = 0] ELSE [seen EXCEPT !.next = @ + 1]]
      /\ UNCHANGED <<client, epoch, announced, signalled, protected, limbo, checked>>

(* How many objects stay in a bag of n, of which k are protected: these    *)
(* come first, and the block in which the next one is stays as well.       *)
Kept(n, k) ==
  LET head == n % BLOCK_SIZE
  IN  IF k = n THEN n
      ELSE IF k < head THEN head
      ELSE head + BLOCK_SIZE * ((k - head) \div BLOCK_SIZE + 1)

(* Mutant: the protected objects are not kept apart. *)
FreeAny(t) ==
  LET bag == CurrentBag(t)
  IN  /\ Step(t, "free", "scan")
      /\ \E left \in SUBSET bag :
           /\ Cardinality(left) = Kept(Cardinality(bag), 0)
           /\ bags' = [bags EXCEPT ![t][index[t]] = left]
           /\ available' = available \cup (bag \ left)
      /\ local' = [local EXCEPT ![t].scan = NoScan]
      /\ UNCHANGED <<linked, pending, window, epoch, announced, signalled, protected, index, checked>>

(* ...and the full blocks of the bag without them are freed. *)
FreeUnprotected(t) ==
  LET bag == CurrentBag(t)
      keep == bag \cap local[t].scan.comparing
  IN  /\ Step(t, "free", "scan")
      /\ \E left \in SUBSET bag :
           /\ keep \subseteq left
           /\ Cardinality(left) = Kept(Cardinality(bag), Cardinality(keep))
           /\ bags' = [bags EXCEPT ![t][index[t]] = left]
           /\ available' = available \cup (bag \ left)
      /\ local' = [local EXCEPT ![t].scan = NoScan]
      /\ UNCHANGED <<linked, pending, window, epoch, announced, signalled, protected, index, checked>>

TooLarge(t) == Blocks(CurrentBag(t)) >= NEUTRALIZE_THRESHOLD_IN_BLOCKS

(* Mutant: no thread is neutralised. *)
NeutralizeNone(t) == FALSE

(* neutralizeOther: a signal is sent, and the other thread counts as       *)
(* quiescent from now on.                                                  *)
Neutralize(t) == TooLarge(t)

Passes(t, u) == announced[u].epoch = local[t].epoch \/ announced[u].quiescent

Scan(t) ==
  LET u == checked[t]
      all == u >= NUM_PROCESSES
      passed == IF all THEN TRUE ELSE Passes(t, u) \/ Neutralize(t)
      last == passed /\ u + 1 >= NUM_PROCESSES /\ u + 1 > MINIMUM_OPERATIONS_BEFORE_NEW_EPOCH_CR
  IN  /\ pc[t] = "scan"
      /\ Step(t, "scan", IF last THEN "advance" ELSE "announce")
      /\ checked' = IF passed THEN [checked EXCEPT ![t] = @ + 1] ELSE checked
      /\ signalled' = IF ~all /\ passed /\ ~Passes(t, u) THEN signalled \cup {u} ELSE signalled
      /\ UNCHANGED <<client, epoch, announced, protected, limbo, local>>

Advance(t) ==
  /\ Step(t, "advance", "announce")
  /\ epoch' = IF epoch = local[t].epoch THEN epoch + 1 ELSE epoch
  /\ UNCHANGED <<client, announced, signalled, protected, limbo, checked, local>>

Announce(t) ==
  /\ Step(t, "announce", "in")
  /\ announced' = [announced EXCEPT ![t] = [epoch |-> local[t].epoch, quiescent |-> FALSE]]
  /\ window' = [window EXCEPT ![t] = linked]
  /\ UNCHANGED <<linked, pending, available, epoch, signalled, protected, limbo, checked, local>>

-----------------------------------------------------------------------------
(* Within an operation *)

reclaimer == <<epoch, announced, signalled, protected, limbo, checked, local>>

Active(t) == ~announced[t].quiescent

Link(t, o) ==
  /\ o \in available
  /\ Step(t, "in", "in")
  /\ available' = available \ {o}
  /\ linked' = linked \cup {o}
  /\ window' = [u \in Thread |-> IF Active(u) THEN window[u] \cup {o} ELSE window[u]]
  /\ UNCHANGED <<pending, reclaimer>>

Unlink(t, o) ==
  /\ o \in linked
  /\ Step(t, "in", "in")
  /\ linked' = linked \ {o}
  /\ pending' = [pending EXCEPT ![t] = @ \cup {o}]
  /\ UNCHANGED <<available, window, reclaimer>>

Protected(t) == {protected[t].data[i] : i \in 1 .. protected[t].size}

(* qProtect, for an object that is known not to be retired: the entry is   *)
(* stored before the size.                                                 *)
QProtect(t, o) ==
  /\ o \in window[t] \ Protected(t)
  /\ protected[t].size < MAX_PROTECT_EVEN_IF_QUIESCENT
  /\ Step(t, "in", "protect")
  /\ protected' = [protected EXCEPT ![t].data[protected[t].size + 1] = o]
  /\ UNCHANGED <<client, epoch, announced, signalled, limbo, checked, local>>

QProtected(t) ==
  /\ Step(t, "protect", "in")
  /\ protected' = [protected EXCEPT ![t].size = @ + 1]
  /\ UNCHANGED <<client, epoch, announced, signalled, limbo, checked, local>>

SetQuiescent(t) ==
  /\ announced' = [announced EXCEPT ![t].quiescent = TRUE]
  /\ window' = [window EXCEPT ![t] = {}]

EndOp(t) ==
  /\ Step(t, "in", "after")
  /\ SetQuiescent(t)
  /\ UNCHANGED <<linked, pending, available, epoch, signalled, protected, limbo, checked, local>>

(* The signal handler: a thread that is not quiescent becomes so and jumps *)
(* to its recovery.                                                        *)
Handle(t) ==
  /\ t \in signalled
  /\ pc[t] # "recover"
  /\ signalled' = signalled \ {t}
  /\ UNCHANGED <<linked, pending, available, epoch, protected, limbo, checked, local>>
  /\ IF Active(t)
     THEN SetQuiescent(t) /\ pc' = [pc EXCEPT ![t] = "recover"]
     ELSE UNCHANGED <<announced, window, pc>>

-----------------------------------------------------------------------------
(* After an operation: unblockCrashRecoverySignal at the end of the        *)
(* recovery, retire and qUnprotectAll.                                     *)

Recovered(t) ==
  /\ Step(t, "recover", "after")
  /\ UNCHANGED <<client, reclaimer>>

Retire(t, o) ==
  /\ o \in pending[t]
  /\ Step(t, "after", "after")
  /\ pending' = [pending EXCEPT ![t] = @ \ {o}]
  /\ bags' = [bags EXCEPT ![t][index[t]] = @ \cup {o}]
  /\ UNCHANGED <<linked, available, window, epoch, announced, signalled, protected, index, checked, local>>

QUnprotectAll(t) ==
  /\ pending[t] = {}
  /\ Step(t, "after", "idle")
  /\ protected' = [protected EXCEPT ![t].size = 0]
  /\ UNCHANGED <<client, epoch, announced, signalled, limbo, checked, local>>

-----------------------------------------------------------------------------
Running(t) ==
  \/ ReadEpoch(t) \/ ReadSize(t) \/ ReadEntry(t) \/ FreeUnprotected(t) \/ Scan(t) \/ Advance(t) \/ Announce(t)
  \/ QProtected(t) \/ Handle(t) \/ Recovered(t) \/ QUnprotectAll(t)

Next ==
  \E t \in Thread :
    \/ Running(t) \/ EndOp(t)
    \/ t \in Reader /\ \E o \in Obj : QProtect(t, o)
    \/ t \in Writer /\ \E o \in Obj : Link(t, o) \/ Unlink(t, o) \/ Retire(t, o)

Spec == Init /\ [][Next]_vars

-----------------------------------------------------------------------------
(* No object is freed that an operation in progress has seen linked, but   *)
(* for an operation that is about to be thrown away, and none that a       *)
(* thread has protected, in an operation or after it.                      *)
HeldNotFreed ==
  \A t \in Thread :
    /\ t \notin signalled => window[t] \cap available = {}
    /\ Protected(t) \cap available = {}
=============================================================================
