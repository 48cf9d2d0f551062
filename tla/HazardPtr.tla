------------------------------ MODULE HazardPtr ------------------------------
(***************************************************************************)
(* The hazard pointer reclaimer (reclaimer_hazardptr), with the array list *)
(* in which each thread announces the objects that it holds.  One action   *)
(* per access to shared memory.                                            *)
(*                                                                         *)
(* The data structure is the set of the objects that it links.  A thread   *)
(* reads a pointer, announces the object, and holds it once it has seen    *)
(* that it is still linked (the callback of protect).                      *)
(***************************************************************************)
EXTENDS Integers, FiniteSets

CONSTANTS
  NumThreads, Obj, None,
  MAX_HAZARDPTRS_PER_THREAD,
  ScanThreshold,   (* 5 * threads * MAX_HAZARDPTRS_PER_THREAD in the code  *)
  Reader, Writer   (* bound: the threads that protect, and that link,      *)
                   (* unlink and retire                                    *)

VARIABLES
  linked,      (* the objects of the data structure                        *)
  pending,     (* pending[t]: what t has unlinked and not yet retired      *)
  available,   (* the objects in the pool                                  *)
  size, data,  (* announce[t]: its length, and its array, from 1           *)
  held,        (* held[t]: what t may access                               *)
  retired,     (* retired[t]: the bag of t                                 *)
  comparing,   (* comparing[t]: the announcements that t's scan has seen   *)
  arg,         (* arg[t]: the argument of protect or unprotect             *)
  scan,        (* scan[t]: the list that t reads next, or is reading, its  *)
               (* length, and the entry                                    *)
  pc,
  moved, lost  (* history, of what t holds: moved[t] is what erase has     *)
               (* moved in the list of t while a scan read it, and lost[t] *)
               (* that of which the copy left behind was overwritten then  *)

vars == <<linked, pending, available, size, data, held, retired, comparing, arg, scan, pc, moved, lost>>
objects == <<linked, pending, available>>
lists == <<size, data>>
bags == <<retired, comparing, scan>>
history == <<moved, lost>>

Thread == 1 .. NumThreads
Slot == 1 .. MAX_HAZARDPTRS_PER_THREAD

Init ==
  /\ linked = {}
  /\ pending = [t \in Thread |-> {}]
  /\ available = Obj
  /\ size = [t \in Thread |-> 0]
  /\ data = [t \in Thread |-> [i \in Slot |-> None]]
  /\ held = [t \in Thread |-> {}]
  /\ retired = [t \in Thread |-> {}]
  /\ comparing = [t \in Thread |-> {}]
  /\ arg = [t \in Thread |-> None]
  /\ scan = [t \in Thread |-> [list |-> 0, next |-> 0, size |-> 0]]
  /\ pc = [t \in Thread |-> "idle"]
  /\ moved = [t \in Thread |-> {}]
  /\ lost = [t \in Thread |-> {}]

Move(t, from, to) == pc[t] = from /\ pc' = [pc EXCEPT ![t] = to]

-----------------------------------------------------------------------------
(* A scan is reading the list of t. *)
Read(t) == \E w \in Thread : pc[w] = "entry" /\ scan[w].list = t

(* protect: AtomicArrayList::add, and then the callback.  The scan asserts *)
(* that a list is never full.                                              *)
Protect(t, o) ==
  /\ Move(t, "idle", "add")
  /\ o \in linked \ held[t]
  /\ size[t] + 1 < MAX_HAZARDPTRS_PER_THREAD
  /\ arg' = [arg EXCEPT ![t] = o]
  /\ UNCHANGED <<objects, lists, held, bags, history>>

StoreEntry(t) ==
  /\ Move(t, "add", "grow")
  /\ data' = [data EXCEPT ![t][size[t] + 1] = arg[t]]
  /\ lost' = [lost EXCEPT ![t] = IF Read(t) THEN @ \cup (moved[t] \cap {data[t][size[t] + 1]}) ELSE @]
  /\ UNCHANGED <<objects, size, held, bags, arg, moved>>

Grow(t) ==
  /\ Move(t, "grow", "callback")
  /\ size' = [size EXCEPT ![t] = @ + 1]
  /\ UNCHANGED <<objects, data, held, bags, arg, history>>

(* Mutant: no callback. *)
HoldAnyway(t) ==
  /\ Move(t, "callback", "idle")
  /\ held' = [held EXCEPT ![t] = @ \cup {arg[t]}]
  /\ UNCHANGED <<objects, lists, bags, arg, history>>

NotRetiredCallback(t) ==
  /\ UNCHANGED <<objects, lists, bags, arg, history>>
  /\ IF arg[t] \in linked
     THEN Move(t, "callback", "idle") /\ held' = [held EXCEPT ![t] = @ \cup {arg[t]}]
     ELSE Move(t, "callback", "erase") /\ UNCHANGED held

-----------------------------------------------------------------------------
(* unprotect, of any object: AtomicArrayList::erase moves the last entry   *)
(* into the gap, and its last slot keeps a copy until the next add.        *)
Unprotect(t, o) ==
  /\ o \in held[t]
  /\ Move(t, "idle", "erase")
  /\ held' = [held EXCEPT ![t] = @ \ {o}]
  /\ moved' = [moved EXCEPT ![t] = @ \ {o}]
  /\ lost' = [lost EXCEPT ![t] = @ \ {o}]
  /\ arg' = [arg EXCEPT ![t] = o]
  /\ UNCHANGED <<objects, lists, bags>>

GetIndex(t, o) ==
  CHOOSE i \in 1 .. size[t] : data[t][i] = o /\ \A j \in 1 .. i - 1 : data[t][j] # o

Erase(t) ==
  LET last == data[t][size[t]]
  IN  /\ Move(t, "erase", "shrink")
      /\ data' = [data EXCEPT ![t][GetIndex(t, arg[t])] = last]
      /\ moved' = [moved EXCEPT ![t] = IF Read(t) THEN @ \cup (held[t] \cap {last}) ELSE @]
      /\ UNCHANGED <<objects, size, held, bags, arg, lost>>

Shrink(t) ==
  /\ Move(t, "shrink", "idle")
  /\ size' = [size EXCEPT ![t] = @ - 1]
  /\ UNCHANGED <<objects, data, held, bags, arg, history>>

(* endOp: clear. *)
EndOp(t) ==
  /\ pc[t] = "idle"
  /\ size[t] > 0
  /\ size' = [size EXCEPT ![t] = 0]
  /\ held' = [held EXCEPT ![t] = {}]
  /\ moved' = [moved EXCEPT ![t] = {}]
  /\ lost' = [lost EXCEPT ![t] = {}]
  /\ UNCHANGED <<objects, data, bags, arg, pc>>

-----------------------------------------------------------------------------
(* The data structure *)

Link(t, o) ==
  /\ pc[t] = "idle"
  /\ o \in available
  /\ available' = available \ {o}
  /\ linked' = linked \cup {o}
  /\ UNCHANGED <<pending, lists, held, bags, arg, pc, history>>

Unlink(t, o) ==
  /\ pc[t] = "idle"
  /\ o \in linked
  /\ linked' = linked \ {o}
  /\ pending' = [pending EXCEPT ![t] = @ \cup {o}]
  /\ UNCHANGED <<available, lists, held, bags, arg, pc, history>>

-----------------------------------------------------------------------------
(* retire: when the bag is full, what the lists hold is copied, list by    *)
(* list and entry by entry, and the objects that are not there are freed.  *)

(* Mutant: what an earlier scan has seen stays there. *)
RetireKeepsSeen(t, o) ==
  /\ o \in pending[t]
  /\ pending' = [pending EXCEPT ![t] = @ \ {o}]
  /\ retired' = [retired EXCEPT ![t] = @ \cup {o}]
  /\ UNCHANGED <<linked, available, lists, held, arg, comparing, history>>
  /\ IF Cardinality(retired'[t]) = ScanThreshold
     THEN Move(t, "idle", "size") /\ scan' = [scan EXCEPT ![t] = [list |-> 1, next |-> 0, size |-> 0]]
     ELSE Move(t, "idle", "idle") /\ UNCHANGED scan

Retire(t, o) ==
  /\ o \in pending[t]
  /\ pending' = [pending EXCEPT ![t] = @ \ {o}]
  /\ retired' = [retired EXCEPT ![t] = @ \cup {o}]
  /\ UNCHANGED <<linked, available, lists, held, arg, history>>
  /\ IF Cardinality(retired'[t]) = ScanThreshold
     THEN /\ Move(t, "idle", "size")
          /\ comparing' = [comparing EXCEPT ![t] = {}]
          /\ scan' = [scan EXCEPT ![t] = [list |-> 1, next |-> 0, size |-> 0]]
     ELSE Move(t, "idle", "idle") /\ UNCHANGED <<comparing, scan>>

ScanSize(t) ==
  LET s == scan[t]
  IN  /\ pc[t] = "size"
      /\ UNCHANGED <<objects, lists, held, retired, comparing, arg, history>>
      /\ IF s.list > NumThreads
         THEN Move(t, "size", "free") /\ UNCHANGED scan
         ELSE /\ Move(t, "size", "entry")
              /\ scan' = [scan EXCEPT ![t].next = 1, ![t].size = size[s.list]]

(* Mutant: the length of the list is read again before each entry. *)
PastLength(t) == scan[t].next > size[scan[t].list]

PastLast(t) == scan[t].next > scan[t].size

ScanEntry(t) ==
  LET s == scan[t]
  IN  /\ pc[t] = "entry"
      /\ UNCHANGED <<objects, lists, held, retired, arg, history>>
      /\ IF PastLast(t)
         THEN /\ Move(t, "entry", "size")
              /\ scan' = [scan EXCEPT ![t].list = @ + 1]
              /\ UNCHANGED comparing
         ELSE /\ scan' = [scan EXCEPT ![t].next = @ + 1]
              /\ comparing' = [comparing EXCEPT ![t] = @ \cup {data[s.list][s.next]}]
              /\ UNCHANGED pc

FreeUnprotected(t) ==
  /\ Move(t, "free", "idle")
  /\ available' = available \cup (retired[t] \ comparing[t])
  /\ retired' = [retired EXCEPT ![t] = @ \cap comparing[t]]
  /\ UNCHANGED <<linked, pending, lists, held, comparing, scan, arg, history>>

-----------------------------------------------------------------------------
Next ==
  \/ \E t \in Reader :
       \/ \E o \in Obj : Protect(t, o) \/ Unprotect(t, o)
       \/ StoreEntry(t) \/ Grow(t) \/ NotRetiredCallback(t) \/ Erase(t) \/ Shrink(t) \/ EndOp(t)
  \/ \E t \in Writer :
       \/ \E o \in Obj : Link(t, o) \/ Unlink(t, o) \/ Retire(t, o)
       \/ ScanSize(t) \/ ScanEntry(t) \/ FreeUnprotected(t)

Spec == Init /\ [][Next]_vars

-----------------------------------------------------------------------------
(* No object goes back to the pool while a thread holds it, in whatever    *)
(* order the thread unprotects what it holds, but one: while a scan was    *)
(* reading the list of the thread, erase has moved the announcement of the *)
(* object to a slot that the scan may have passed, and protect has         *)
(* overwritten the slot that it left.  To have moved alone is harmless:    *)
(* the scan still goes to the end that it has read before.                 *)
HeldNotFreed == \A t \in Thread : (held[t] \ lost[t]) \cap available = {}

(* A scan makes room: whatever the threads announce, the bag is not full   *)
(* when retire returns, so that the next retire can add its object.        *)
BagHasRoom ==
  \A t \in Thread : pc[t] = "idle" => Cardinality(retired[t]) < ScanThreshold
=============================================================================
