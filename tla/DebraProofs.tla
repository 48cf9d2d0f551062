----------------------------- MODULE DebraProofs -----------------------------
(***************************************************************************)
(* The reclaimer is type correct and keeps its promise for any number of   *)
(* threads and objects, any block size and any scan interval.              *)
(***************************************************************************)
EXTENDS Debra, TLAPS

USE DebraAssumption

-----------------------------------------------------------------------------
(* retire leaves a bag a bag. *)
LEMMA BagAddType ==
  ASSUME NEW bag \in Bag, NEW o \in Obj
  PROVE  BagAdd(bag, o) \in Bag
BY DEF Bag, BagAdd

(* retire adds the object and nothing else, whether it fills a block or not. *)
LEMMA BagAddItems ==
  ASSUME NEW bag \in Bag, NEW o \in Obj
  PROVE  Items(BagAdd(bag, o)) = Items(bag) \cup {o}
BY DEF Bag, BagAdd, Items

(* The counter of operations since the last read stays below its limit.    *)
LEMMA ScanIntervalStep ==
  ASSUME NEW n \in 0 .. MIN_OPS_BEFORE_READ - 1, n + 1 # MIN_OPS_BEFORE_READ
  PROVE  n + 1 \in 0 .. MIN_OPS_BEFORE_READ - 1
OBVIOUS

-----------------------------------------------------------------------------
(* Every action of every thread, the contract's deinitialisation included. *)
LEMMA TypeStep == TypeOK /\ [Next]_vars => TypeOK'
<1> SUFFICES ASSUME TypeOK, [Next]_vars PROVE TypeOK'
  OBVIOUS
<1> USE DEF TypeOK, GoTo, Stage
<1>0. 0 \in Slot /\ 0 \in 0 .. MIN_OPS_BEFORE_READ - 1
  BY DEF Slot, NUMBER_OF_EPOCH_BAGS
<1>1. ASSUME NEW t \in Thread, InitThread(t) PROVE TypeOK'
  BY <1>0, <1>1 DEF InitThread, client, history
<1>2. ASSUME NEW t \in Thread, StartOp(t) PROVE TypeOK'
  <2>1. Announce(epoch) \in Word
    BY DEF Announce, Word
  <2>2. CASE RotateEpochBags(t) /\ checked' = [checked EXCEPT ![t] = 0]
    <3>1. Freeable(t) \in Slot
      BY DEF Freeable, Slot, NUMBER_OF_EPOCH_BAGS
    <3>2. \A bag \in Bag : PartialBlock(bag) \in Bag /\ bag.full \in SUBSET Obj
      BY DEF Bag, PartialBlock
    <3>3. epochbags' \in [Thread -> [Slot -> Bag]]
      BY <2>2, <3>1, <3>2 DEF RotateEpochBags
    <3>4. deamortizedFreeables' \in [Thread -> SUBSET Obj]
      BY <2>2, <3>1, <3>2 DEF RotateEpochBags
    <3> QED
      BY <1>2, <2>1, <2>2, <3>1, <3>3, <3>4 DEF StartOp, RotateEpochBags, client, history
  <2>3. CASE UNCHANGED <<limbo, checked>>
    BY <1>2, <2>1, <2>3 DEF StartOp, limbo, client, history
  <2> QED
    BY <1>2, <2>2, <2>3 DEF StartOp
<1>3. ASSUME NEW t \in Thread, FreeOne(t) PROVE TypeOK'
  <2>1. CASE UNCHANGED <<available, deamortizedFreeables>>
    BY <1>3, <2>1 DEF FreeOne, scan, history
  <2>2. ASSUME NEW o \in deamortizedFreeables[t],
               available' = available \cup {o},
               deamortizedFreeables' = [deamortizedFreeables EXCEPT ![t] = @ \ {o}]
        PROVE  TypeOK'
    BY <1>3, <2>2 DEF FreeOne, scan, history
  <2> QED
    BY <1>3, <2>1, <2>2 DEF FreeOne
<1>4. ASSUME NEW t \in Thread, AnnounceEpoch(t) PROVE TypeOK'
  BY <1>4 DEF AnnounceEpoch, limbo, scan, client
<1>5. ASSUME NEW t \in Thread, SkipScan(t) \/ Scan(t) PROVE TypeOK'
  <2>1. CASE SkipScan(t)
    <3>1. opsSinceRead[t] + 1 \in 0 .. MIN_OPS_BEFORE_READ - 1
      <4>1. opsSinceRead[t] \in 0 .. MIN_OPS_BEFORE_READ - 1
        OBVIOUS
      <4> QED
        BY <2>1, <4>1, ScanIntervalStep DEF SkipScan
    <3> QED
      BY <2>1, <3>1 DEF SkipScan, limbo, client, history
  <2>2. CASE Scan(t)
    <3>1. opsSinceRead' \in [Thread -> 0 .. MIN_OPS_BEFORE_READ - 1]
      BY <1>0, <2>2 DEF Scan
    <3>2. checked' \in [Thread -> Nat]
      <4>1. checked[t] + 1 \in Nat
        OBVIOUS
      <4>2. \/ checked' = [checked EXCEPT ![t] = checked[t] + 1]
            \/ checked' = checked
        BY <2>2 DEF Scan
      <4> QED
        BY <4>1, <4>2
    <3>3. pc' \in [Thread -> Stage]
      <4>1. \/ pc' = [pc EXCEPT ![t] = "advance"]
            \/ pc' = [pc EXCEPT ![t] = "inop"]
        BY <2>2 DEF Scan
      <4> QED
        BY <4>1
    <3> QED
      BY <2>2, <3>1, <3>2, <3>3 DEF Scan, limbo, client, history
  <2> QED
    BY <1>5, <2>1, <2>2
<1>6. ASSUME NEW t \in Thread, AdvanceEpoch(t) PROVE TypeOK'
  BY <1>6 DEF AdvanceEpoch, limbo, scan, client, history
<1>7. ASSUME NEW t \in Thread, EndOp(t) PROVE TypeOK'
  BY <1>7 DEF EndOp, GetWithQuiescent, Word, limbo, scan, client
<1>8. ASSUME NEW t \in Thread, NEW o \in Obj, Link(t, o) PROVE TypeOK'
  BY <1>8 DEF Link, limbo, scan
<1>9. ASSUME NEW t \in Thread, NEW o \in Obj, Unlink(t, o) PROVE TypeOK'
  BY <1>9 DEF Unlink, limbo, scan, history
<1>10. ASSUME NEW t \in Thread, NEW o \in Obj, Retire(t, o) PROVE TypeOK'
  BY <1>10, BagAddType DEF Retire, scan, history
<1>11. ASSUME NEW t \in Thread, Finish(t) PROVE TypeOK'
  BY <1>11 DEF Finish, limbo, scan, client, history
<1>12. ASSUME NEW t \in Thread, DeinitThread(t) PROVE TypeOK'
  <2>1. Limbo(t) \subseteq Obj
    BY DEF Limbo, Items, Bag
  <2>2. EmptyBag \in Bag
    BY DEF EmptyBag, Bag
  <2> QED
    BY <1>12, <2>1, <2>2 DEF DeinitThread, scan, history
<1>13. CASE UNCHANGED vars
  BY <1>13 DEF vars, limbo, scan, client, history
<1> QED
  BY <1>1, <1>2, <1>3, <1>4, <1>5, <1>6, <1>7, <1>8, <1>9, <1>10, <1>11, <1>12, <1>13
  DEF Next, Operation

(* The initial states are well typed. *)
LEMMA TypeInit == Init => TypeOK
<1> SUFFICES ASSUME Init PROVE TypeOK
  OBVIOUS
<1>1. GetWithQuiescent(Announce(0)) \in Word
  BY DEF GetWithQuiescent, Announce, Word
<1>2. EmptyBag \in Bag
  BY DEF EmptyBag, Bag
<1>3. 0 \in Slot /\ 0 \in 0 .. MIN_OPS_BEFORE_READ - 1
  BY DEF Slot, NUMBER_OF_EPOCH_BAGS
<1> QED
  BY <1>1, <1>2, <1>3 DEF Init, TypeOK, Stage

(* Every reachable state of the reclaimer is well typed. *)
THEOREM TypeCorrect == Spec => []TypeOK
BY TypeInit, TypeStep, PTL DEF Spec

-----------------------------------------------------------------------------
(* Each part of the inductive invariant is preserved by every step.        *)

(* The numbers that the parts compare. *)
LEMMA Numbers ==
  ASSUME TypeOK
  PROVE  /\ epoch \in Nat
         /\ \A t \in Thread : /\ t \in Nat
                             /\ t < NUM_PROCESSES
                             /\ checked[t] \in Nat
                             /\ opEpoch[t] \in Nat
                             /\ announcedEpoch[t].epoch \in Nat
                             /\ localvar_announcedEpoch[t].epoch \in Nat
<1>1. \A t \in Thread : t \in Nat /\ t < NUM_PROCESSES
  BY DEF Thread
<1> QED
  BY <1>1 DEF TypeOK, Word

(* Announcements, windows and bags follow the program counter. *)
LEMMA PhasesStep == IInv /\ [Next]_vars => Phases'
<1> SUFFICES ASSUME IInv, [Next]_vars PROVE Phases'
  OBVIOUS
<1> USE DEF IInv, TypeOK, Phases, GoTo, Active
<1>1. ASSUME NEW t \in Thread, InitThread(t) PROVE Phases'
  BY <1>1 DEF InitThread, client, history
<1>2. ASSUME NEW t \in Thread, StartOp(t) PROVE Phases'
  BY <1>2 DEF StartOp, RotateEpochBags, Announce, limbo, client, history
<1>3. ASSUME NEW t \in Thread, FreeOne(t) PROVE Phases'
  BY <1>3 DEF FreeOne, scan, history
<1>4. ASSUME NEW t \in Thread, AnnounceEpoch(t) PROVE Phases'
  BY <1>4 DEF AnnounceEpoch, limbo, scan, client
<1>5. ASSUME NEW t \in Thread, SkipScan(t) \/ Scan(t) \/ AdvanceEpoch(t) PROVE Phases'
  BY <1>5 DEF SkipScan, Scan, AdvanceEpoch, limbo, scan, client, history
<1>7. ASSUME NEW t \in Thread, EndOp(t) PROVE Phases'
  BY <1>7 DEF EndOp, GetWithQuiescent, Word, limbo, scan, client
<1>8. ASSUME NEW t \in Thread, NEW o \in Obj, Link(t, o) PROVE Phases'
  <2>1. \A u \in Thread : ~Active(u) => window'[u] = window[u]
    BY <1>8 DEF Link
  <2>2. UNCHANGED <<pc, announcedEpoch, localvar_announcedEpoch, index, currentBag, pending>>
    BY <1>8 DEF Link, limbo
  <2> QED
    BY <2>1, <2>2
<1>9. ASSUME NEW t \in Thread, NEW o \in Obj, Unlink(t, o) PROVE Phases'
  BY <1>9 DEF Unlink, limbo, scan, history
<1>10. ASSUME NEW t \in Thread, NEW o \in Obj, Retire(t, o) PROVE Phases'
  BY <1>10 DEF Retire, scan, history
<1>11. ASSUME NEW t \in Thread, Finish(t) \/ DeinitThread(t) PROVE Phases'
  BY <1>11 DEF Finish, DeinitThread, limbo, scan, client, history
<1>13. CASE UNCHANGED vars
  BY <1>13 DEF vars, limbo, scan, client, history
<1> QED
  BY <1>1, <1>2, <1>3, <1>4, <1>5, <1>7, <1>8, <1>9, <1>10, <1>11, <1>13
  DEF Next, Operation

(* No step lets a copy of the epoch overtake the epoch. *)
LEMMA CopiesStep == IInv /\ [Next]_vars => Copies'
<1> SUFFICES ASSUME IInv, [Next]_vars PROVE Copies'
  OBVIOUS
<1> USE DEF IInv, TypeOK, Copies, Phases, GoTo, Active
<1>1. ASSUME NEW t \in Thread, InitThread(t) PROVE Copies'
  BY <1>1 DEF InitThread, client, history
<1>2. ASSUME NEW t \in Thread, StartOp(t) PROVE Copies'
  <2>1. localvar_announcedEpoch'[t].epoch = epoch
    BY <1>2 DEF StartOp, Announce
  <2>2. \A u \in Thread : u # t => localvar_announcedEpoch'[u] = localvar_announcedEpoch[u]
    BY <1>2 DEF StartOp
  <2>3. UNCHANGED <<epoch, announcedEpoch, opEpoch>> /\ ~Active(t) /\ epoch <= epoch
    BY <1>2 DEF StartOp, history
  <2> QED
    BY <2>1, <2>2, <2>3
<1>3. ASSUME NEW t \in Thread, FreeOne(t) PROVE Copies'
  BY <1>3 DEF FreeOne, scan, history
<1>4. ASSUME NEW t \in Thread, AnnounceEpoch(t) PROVE Copies'
  BY <1>4 DEF AnnounceEpoch, limbo, scan, client
<1>5. ASSUME NEW t \in Thread, SkipScan(t) \/ Scan(t) PROVE Copies'
  BY <1>5 DEF SkipScan, Scan, limbo, client, history
<1>6. ASSUME NEW t \in Thread, AdvanceEpoch(t) PROVE Copies'
  <2>1. epoch' \in Nat /\ epoch <= epoch'
    BY <1>6 DEF AdvanceEpoch
  <2>2. UNCHANGED <<announcedEpoch, localvar_announcedEpoch, opEpoch>>
    BY <1>6 DEF AdvanceEpoch, history
  <2>3. \A u \in Thread : localvar_announcedEpoch[u].epoch \in Nat
    BY DEF Word
  <2> QED
    BY <2>1, <2>2, <2>3
<1>7. ASSUME NEW t \in Thread, EndOp(t) PROVE Copies'
  BY <1>7 DEF EndOp, GetWithQuiescent, Word, limbo, scan, client
<1>8. ASSUME NEW t \in Thread, NEW o \in Obj, Link(t, o) \/ Unlink(t, o) \/ Retire(t, o)
      PROVE Copies'
  BY <1>8 DEF Link, Unlink, Retire, limbo, scan, history
<1>9. ASSUME NEW t \in Thread, Finish(t) \/ DeinitThread(t) PROVE Copies'
  BY <1>9 DEF Finish, DeinitThread, limbo, scan, client, history
<1>10. CASE UNCHANGED vars
  BY <1>10 DEF vars, limbo, scan, client, history
<1> QED
  BY <1>1, <1>2, <1>3, <1>4, <1>5, <1>6, <1>7, <1>8, <1>9, <1>10 DEF Next, Operation

(* A thread retires nothing before it has announced an epoch. *)
LEMMA FreshStep == IInv /\ [Next]_vars => Fresh'
<1> SUFFICES ASSUME IInv, [Next]_vars PROVE Fresh'
  OBVIOUS
<1> USE DEF IInv, TypeOK, Fresh, Phases, GoTo, Active
<1>1. ASSUME NEW t \in Thread, InitThread(t) PROVE Fresh'
  BY <1>1 DEF InitThread, client, history
<1>2. ASSUME NEW t \in Thread, StartOp(t) PROVE Fresh'
  <2>1. ~localvar_announcedEpoch'[t].quiescent
    BY <1>2 DEF StartOp, Announce
  <2>2. \A u \in Thread : u # t =>
          /\ localvar_announcedEpoch'[u] = localvar_announcedEpoch[u]
          /\ checked'[u] = checked[u]
          /\ epochbags'[u] = epochbags[u]
          /\ deamortizedFreeables'[u] = deamortizedFreeables[u]
    BY <1>2 DEF StartOp, RotateEpochBags, limbo
  <2> QED
    BY <2>1, <2>2
<1>3. ASSUME NEW t \in Thread, FreeOne(t) PROVE Fresh'
  <2>1. ~localvar_announcedEpoch'[t].quiescent
    BY <1>3 DEF FreeOne
  <2>2. \A u \in Thread : u # t =>
          /\ localvar_announcedEpoch'[u] = localvar_announcedEpoch[u]
          /\ checked'[u] = checked[u]
          /\ epochbags'[u] = epochbags[u]
          /\ deamortizedFreeables'[u] = deamortizedFreeables[u]
    BY <1>3 DEF FreeOne, scan
  <2> QED
    BY <2>1, <2>2, <1>3 DEF FreeOne
<1>4. ASSUME NEW t \in Thread, AnnounceEpoch(t) PROVE Fresh'
  BY <1>4 DEF AnnounceEpoch, limbo, scan, client
<1>5. ASSUME NEW t \in Thread, SkipScan(t) \/ Scan(t) \/ AdvanceEpoch(t) PROVE Fresh'
  <2>1. ~localvar_announcedEpoch[t].quiescent
    BY <1>5 DEF SkipScan, Scan, AdvanceEpoch, Copies
  <2>2. UNCHANGED <<localvar_announcedEpoch, limbo>>
    BY <1>5 DEF SkipScan, Scan, AdvanceEpoch
  <2>3. \A u \in Thread : u # t => checked'[u] = checked[u]
    BY <1>5 DEF SkipScan, Scan, AdvanceEpoch, scan
  <2> QED
    BY <2>1, <2>2, <2>3 DEF limbo
<1>7. ASSUME NEW t \in Thread, EndOp(t) PROVE Fresh'
  BY <1>7 DEF EndOp, limbo, scan, client
<1>8. ASSUME NEW t \in Thread, NEW o \in Obj, Link(t, o) \/ Unlink(t, o) PROVE Fresh'
  BY <1>8 DEF Link, Unlink, limbo, scan, history
<1>9. ASSUME NEW t \in Thread, NEW o \in Obj, Retire(t, o) PROVE Fresh'
  <2>1. ~localvar_announcedEpoch[t].quiescent
    BY <1>9 DEF Retire, Copies
  <2>2. UNCHANGED <<localvar_announcedEpoch, checked, deamortizedFreeables>>
    BY <1>9 DEF Retire, scan
  <2>3. \A u \in Thread : u # t => epochbags'[u] = epochbags[u]
    BY <1>9 DEF Retire
  <2> QED
    BY <2>1, <2>2, <2>3
<1>10. ASSUME NEW t \in Thread, Finish(t) PROVE Fresh'
  BY <1>10 DEF Finish, limbo, scan, client, history
<1>11. ASSUME NEW t \in Thread, DeinitThread(t) PROVE Fresh'
  BY <1>11 DEF DeinitThread, scan
<1>13. CASE UNCHANGED vars
  BY <1>13 DEF vars, limbo, scan, client, history
<1> QED
  BY <1>1, <1>2, <1>3, <1>4, <1>5, <1>7, <1>8, <1>9, <1>10, <1>11, <1>13
  DEF Next, Operation

(* Once a scan has passed every thread, checked is reset before the next   *)
(* read of an announcement: the CAS has moved the epoch on, by whoever did. *)
LEMMA FullScanStep == IInv /\ [Next]_vars => FullScan'
<1> SUFFICES ASSUME IInv, [Next]_vars PROVE FullScan'
  OBVIOUS
<1>0. /\ TypeOK
      /\ FullScan
      /\ Copies
  BY DEF IInv
<1>1. /\ pc \in [Thread -> Stage]
      /\ checked \in [Thread -> Nat]
      /\ localvar_announcedEpoch \in [Thread -> Word]
      /\ \A t \in Thread : localvar_announcedEpoch[t].epoch <= epoch
  BY <1>0 DEF TypeOK, Copies
<1>2. /\ epoch \in Nat
      /\ \A t \in Thread : checked[t] \in Nat /\ localvar_announcedEpoch[t].epoch \in Nat
  BY <1>0, Numbers
<1> USE <1>1 DEF FullScan, GoTo
<1>3. ASSUME NEW t \in Thread, InitThread(t) PROVE FullScan'
  BY <1>0, <1>3 DEF InitThread
<1>4. ASSUME NEW t \in Thread, StartOp(t) PROVE FullScan'
  <2>1. checked'[t] < NUM_PROCESSES
    <3>1. CASE localvar_announcedEpoch[t] = Announce(epoch)
      <4>1. ~(epoch > localvar_announcedEpoch[t].epoch)
        BY <1>2, <3>1 DEF Announce
      <4>2. checked[t] # NUM_PROCESSES /\ checked[t] <= NUM_PROCESSES
        BY <1>0, <1>4, <4>1 DEF StartOp
      <4>3. checked' = checked
        BY <1>4, <3>1 DEF StartOp
      <4> QED
        BY <1>2, <4>2, <4>3
    <3>2. CASE localvar_announcedEpoch[t] # Announce(epoch)
      BY <1>4, <3>2 DEF StartOp
    <3> QED
      BY <3>1, <3>2
  <2>2. \A u \in Thread : u # t => /\ localvar_announcedEpoch'[u] = localvar_announcedEpoch[u]
                                   /\ checked'[u] = checked[u]
    BY <1>4 DEF StartOp
  <2>3. checked'[t] <= NUM_PROCESSES /\ checked'[t] # NUM_PROCESSES
    <3>1. checked'[t] \in Nat
      BY <1>2, <1>4 DEF StartOp
    <3> QED
      BY <2>1, <3>1
  <2> QED
    BY <1>0, <1>4, <2>2, <2>3 DEF StartOp
<1>5. ASSUME NEW t \in Thread, FreeOne(t) \/ AnnounceEpoch(t) \/ SkipScan(t) PROVE FullScan'
  BY <1>0, <1>5 DEF FreeOne, AnnounceEpoch, SkipScan, scan
<1>6. ASSUME NEW t \in Thread, Scan(t) PROVE FullScan'
  <2>1. pc[t] = "scan"
    BY <1>6 DEF Scan
  <2>2. checked[t] < NUM_PROCESSES
    <3>1. checked[t] # NUM_PROCESSES /\ checked[t] <= NUM_PROCESSES
      BY <1>0, <2>1
    <3> QED
      BY <1>2, <3>1
  <2>3. UNCHANGED <<epoch, localvar_announcedEpoch>>
    BY <1>6 DEF Scan
  <2>4. CASE checked' = checked /\ pc' = [pc EXCEPT ![t] = "inop"]
    <3>1. checked[t] # NUM_PROCESSES
      BY <1>2, <2>2
    <3> QED
      BY <1>0, <2>3, <2>4, <3>1
  <2>5. CASE /\ checked' = [checked EXCEPT ![t] = checked[t] + 1]
             /\ checked[t] + 1 >= NUM_PROCESSES
             /\ pc' = [pc EXCEPT ![t] = "advance"]
    <3>1. checked[t] + 1 = NUM_PROCESSES
      BY <1>2, <2>2, <2>5
    <3>2. checked[t] + 1 <= NUM_PROCESSES
      BY <3>1
    <3> QED
      BY <1>0, <2>3, <2>5, <3>1, <3>2
  <2>6. CASE /\ checked' = [checked EXCEPT ![t] = checked[t] + 1]
             /\ ~(checked[t] + 1 >= NUM_PROCESSES)
             /\ pc' = [pc EXCEPT ![t] = "inop"]
    <3>1. checked[t] + 1 <= NUM_PROCESSES /\ checked[t] + 1 # NUM_PROCESSES
      BY <1>2, <2>6
    <3> QED
      BY <1>0, <2>3, <2>6, <3>1
  <2> QED
    BY <1>6, <2>4, <2>5, <2>6 DEF Scan
<1>7. ASSUME NEW t \in Thread, AdvanceEpoch(t) PROVE FullScan'
  <2>1. /\ epoch' = epoch \/ epoch' = epoch + 1
        /\ epoch = localvar_announcedEpoch[t].epoch => epoch' = epoch + 1
    BY <1>7 DEF AdvanceEpoch
  <2>2. epoch' > localvar_announcedEpoch[t].epoch
    BY <1>2, <2>1
  <2>3. \A u \in Thread : epoch > localvar_announcedEpoch[u].epoch =>
                           epoch' > localvar_announcedEpoch[u].epoch
    BY <1>2, <2>1
  <2>4. UNCHANGED <<localvar_announcedEpoch, checked>>
    BY <1>7 DEF AdvanceEpoch, scan
  <2> QED
    BY <1>0, <1>7, <2>2, <2>3, <2>4 DEF AdvanceEpoch
<1>8. ASSUME NEW t \in Thread, EndOp(t) \/ Finish(t) \/ DeinitThread(t) PROVE FullScan'
  BY <1>0, <1>8 DEF EndOp, Finish, DeinitThread, scan
<1>9. ASSUME NEW t \in Thread, NEW o \in Obj, Link(t, o) \/ Unlink(t, o) \/ Retire(t, o)
      PROVE FullScan'
  BY <1>0, <1>9 DEF Link, Unlink, Retire, scan
<1>10. CASE UNCHANGED vars
  BY <1>0, <1>10 DEF vars, scan
<1> QED
  BY <1>3, <1>4, <1>5, <1>6, <1>7, <1>8, <1>9, <1>10 DEF Next, Operation

(* A scan stops at a thread that announced an older epoch. *)
LEMMA NotPassedStep == IInv /\ [Next]_vars => NotPassed'
<1> SUFFICES ASSUME IInv, [Next]_vars PROVE NotPassed'
  OBVIOUS
<1> USE DEF IInv, TypeOK, NotPassed, Active, GoTo
<1>0. Thread \subseteq Nat
  BY DEF Thread
<1>1. ASSUME NEW t \in Thread, InitThread(t) PROVE NotPassed'
  BY <1>0, <1>1 DEF InitThread, history
<1>2. ASSUME NEW t \in Thread, StartOp(t) PROVE NotPassed'
  <2>1. \A u \in Thread : \/ checked'[u] = 0
                          \/ /\ localvar_announcedEpoch'[u] = localvar_announcedEpoch[u]
                             /\ checked'[u] = checked[u]
    BY <1>2 DEF StartOp
  <2> QED
    BY <1>0, <1>2, <2>1 DEF StartOp, history
<1>3. ASSUME NEW t \in Thread, FreeOne(t) PROVE NotPassed'
  BY <1>3 DEF FreeOne, scan, history
<1>4. ASSUME NEW t \in Thread, AnnounceEpoch(t) PROVE NotPassed'
  <2>1. \A u \in Thread : ~(localvar_announcedEpoch[u].epoch > epoch)
    BY DEF Copies, Word
  <2> QED
    BY <1>4, <2>1 DEF AnnounceEpoch, scan
<1>5. ASSUME NEW t \in Thread, SkipScan(t) PROVE NotPassed'
  BY <1>5 DEF SkipScan, history
<1>6. ASSUME NEW u \in Thread, Scan(u) PROVE NotPassed'
  <2>1. UNCHANGED <<announcedEpoch, localvar_announcedEpoch, opEpoch>>
    BY <1>6 DEF Scan, history
  <2>2. CASE checked' = checked
    BY <2>1, <2>2
  <2>3. CASE Passes(u, checked[u]) /\ checked' = [checked EXCEPT ![u] = checked[u] + 1]
    <3>1. ASSUME NEW t \in Thread, Active(t), localvar_announcedEpoch[u].epoch > opEpoch[t]
          PROVE  checked'[u] <= t
      <4>1. checked[u] <= t
        BY <3>1
      <4>2. checked[u] # t
        <5>1. announcedEpoch[t].epoch <= opEpoch[t]
          BY <3>1 DEF Copies
        <5>2. /\ announcedEpoch[t].epoch \in Nat
              /\ localvar_announcedEpoch[u].epoch \in Nat
              /\ opEpoch[t] \in Nat
          BY DEF Word
        <5> QED
          BY <2>3, <3>1, <5>1, <5>2 DEF Passes
      <4> QED
        BY <1>0, <2>3, <4>1, <4>2
    <3> QED
      BY <2>1, <2>3, <3>1
  <2> QED
    BY <1>6, <2>2, <2>3 DEF Scan
<1>7. ASSUME NEW t \in Thread, AdvanceEpoch(t) PROVE NotPassed'
  BY <1>7 DEF AdvanceEpoch, scan, history
<1>8. ASSUME NEW t \in Thread, EndOp(t) PROVE NotPassed'
  BY <1>8 DEF EndOp, GetWithQuiescent, Word, scan
<1>9. ASSUME NEW t \in Thread, NEW o \in Obj, Link(t, o) \/ Unlink(t, o) \/ Retire(t, o)
      PROVE NotPassed'
  BY <1>9 DEF Link, Unlink, Retire, scan, history
<1>10. ASSUME NEW t \in Thread, Finish(t) \/ DeinitThread(t) PROVE NotPassed'
  BY <1>10 DEF Finish, DeinitThread, scan, history
<1>11. CASE UNCHANGED vars
  BY <1>11 DEF vars, scan, history
<1> QED
  BY <1>1, <1>2, <1>3, <1>4, <1>5, <1>6, <1>7, <1>8, <1>9, <1>10, <1>11 DEF Next, Operation

(* So the CAS that ends a scan finds every running operation in its epoch. *)
LEMMA EpochLagStep == IInv /\ [Next]_vars => EpochLag'
<1> SUFFICES ASSUME IInv, [Next]_vars PROVE EpochLag'
  OBVIOUS
<1> USE DEF IInv, TypeOK, EpochLag, Active, GoTo
<1>1. ASSUME NEW t \in Thread, AnnounceEpoch(t) PROVE EpochLag'
  BY <1>1 DEF AnnounceEpoch
<1>2. ASSUME NEW u \in Thread, AdvanceEpoch(u) PROVE EpochLag'
  <2>1. UNCHANGED <<announcedEpoch, opEpoch>>
    BY <1>2 DEF AdvanceEpoch, history
  <2>2. CASE epoch' = epoch
    BY <2>1, <2>2
  <2>3. CASE epoch' = epoch + 1 /\ epoch = localvar_announcedEpoch[u].epoch
    <3>1. ASSUME NEW t \in Thread, Active(t) PROVE epoch <= opEpoch[t]
      <4>1. checked[u] = NUM_PROCESSES
        BY <1>2 DEF AdvanceEpoch, FullScan
      <4>2. ~(checked[u] <= t)
        BY <4>1 DEF Thread
      <4> QED
        BY <2>3, <3>1, <4>2 DEF NotPassed
    <3> QED
      BY <2>1, <2>3, <3>1
  <2> QED
    BY <1>2, <2>2, <2>3 DEF AdvanceEpoch
<1>3. ASSUME NEW t \in Thread, EndOp(t) PROVE EpochLag'
  BY <1>3 DEF EndOp, GetWithQuiescent, Word
<1>4. CASE UNCHANGED <<epoch, announcedEpoch, opEpoch>>
  BY <1>4
<1> QED
  BY <1>1, <1>2, <1>3, <1>4
  DEF Next, Operation, InitThread, StartOp, FreeOne, SkipScan, Scan, Link, Unlink, Retire,
      Finish, DeinitThread, vars, history

(* The slots grow older in turn: rotateEpochBags makes the oldest of them  *)
(* the youngest.                                                           *)
LEMMA Rotation ==
  ASSUME NEW k \in Slot, NEW i \in Slot
  PROVE  LET j == (k + 1) % NUMBER_OF_EPOCH_BAGS
             age(m) == (m - i + NUMBER_OF_EPOCH_BAGS) % NUMBER_OF_EPOCH_BAGS
         IN  /\ j \in Slot
             /\ age(k) \in 0 .. 2
             /\ i = k <=> age(k) = 0
             /\ i = j <=> age(k) = 2
             /\ i = j => age(j) = 0
             /\ i # j => age(j) = age(k) + 1
<1>1. /\ k \in {0, 1, 2}
      /\ i \in {0, 1, 2}
  BY DEF Slot, NUMBER_OF_EPOCH_BAGS
<1> QED
  BY <1>1 DEF Slot, NUMBER_OF_EPOCH_BAGS

(* The bag to rotate to is one of the bags. *)
LEMMA FreeableSlot == ASSUME TypeOK, NEW t \in Thread PROVE Freeable(t) \in Slot
BY DEF TypeOK, Freeable, Slot, NUMBER_OF_EPOCH_BAGS

(* What a rotation does to the slots of a thread. *)
LEMMA RotationOfBags ==
  ASSUME TypeOK, NEW t \in Thread, RotateEpochBags(t), NEW j \in Slot, j = Freeable(t)
  PROVE  /\ Age(t, j) = 2
         /\ Age(t, j)' = 0
         /\ epochbags'[t][j] = PartialBlock(epochbags[t][j])
         /\ deamortizedFreeables'[t] = deamortizedFreeables[t] \cup epochbags[t][j].full
         /\ \A i \in Slot \ {j} : /\ epochbags'[t][i] = epochbags[t][i]
                                  /\ Age(t, i) = 0 \/ Age(t, i) = 1
                                  /\ Age(t, i)' = Age(t, i) + 1
         /\ \A u \in Thread \ {t} : /\ epochbags'[u] = epochbags[u]
                                    /\ deamortizedFreeables'[u] = deamortizedFreeables[u]
                                    /\ \A i \in Slot : Age(u, i)' = Age(u, i)
<1>1. /\ index \in [Thread -> Slot]
      /\ epochbags \in [Thread -> [Slot -> Bag]]
      /\ deamortizedFreeables \in [Thread -> SUBSET Obj]
  BY DEF TypeOK
<1>2. index' = [index EXCEPT ![t] = j]
  BY DEF RotateEpochBags
<1>3. \A i \in Slot : /\ Age(t, i) \in 0 .. 2
                      /\ i = j <=> Age(t, i) = 2
  BY <1>1, Rotation DEF Age, Freeable
<1>4. \A i \in Slot : /\ i = j => Age(t, i)' = 0
                      /\ i # j => Age(t, i)' = Age(t, i) + 1
  <2>1. \A i \in Slot : Age(t, i)' = (j - i + NUMBER_OF_EPOCH_BAGS) % NUMBER_OF_EPOCH_BAGS
    BY <1>1, <1>2 DEF Age
  <2> QED
    BY <1>1, <2>1, Rotation DEF Age, Freeable
<1>5. \A u \in Thread \ {t} : \A i \in Slot : Age(u, i)' = Age(u, i)
  BY <1>1, <1>2 DEF Age
<1>6. /\ epochbags' = [epochbags EXCEPT ![t][j] = PartialBlock(@)]
      /\ deamortizedFreeables' =
           [deamortizedFreeables EXCEPT ![t] = @ \cup epochbags[t][j].full]
  BY DEF RotateEpochBags
<1>7. /\ epochbags'[t][j] = PartialBlock(epochbags[t][j])
      /\ deamortizedFreeables'[t] = deamortizedFreeables[t] \cup epochbags[t][j].full
      /\ \A i \in Slot \ {j} : epochbags'[t][i] = epochbags[t][i]
      /\ \A u \in Thread \ {t} : /\ epochbags'[u] = epochbags[u]
                                 /\ deamortizedFreeables'[u] = deamortizedFreeables[u]
  BY <1>1, <1>6
<1>8. \A i \in Slot \ {j} : Age(t, i) = 0 \/ Age(t, i) = 1
  BY <1>3
<1> QED
  BY <1>3, <1>4, <1>5, <1>7, <1>8

(* A thread rotates bags that hold objects only when the epoch has changed *)
(* since it last rotated.                                                  *)
LEMMA RotationEpoch ==
  ASSUME TypeOK, Fresh, Copies, NEW t \in Thread, NEW i \in Slot,
         localvar_announcedEpoch[t] # Announce(epoch),
         Items(epochbags[t][i]) # {}
  PROVE  localvar_announcedEpoch[t].epoch < epoch
<1>1. ~localvar_announcedEpoch[t].quiescent
  BY DEF Fresh, Items, EmptyBag
<1>2. localvar_announcedEpoch[t] \in Word
  BY DEF TypeOK
<1>3. localvar_announcedEpoch[t].epoch # epoch
  BY <1>1, <1>2 DEF Word, Announce
<1>4. localvar_announcedEpoch[t].epoch <= epoch
  BY DEF Copies
<1> QED
  BY <1>3, <1>4, Numbers

(* A bag grows older only by rotations, and each rotation needs a new epoch. *)
LEMMA AgedStep == IInv /\ [Next]_vars => Aged'
<1> SUFFICES ASSUME IInv, [Next]_vars PROVE Aged'
  OBVIOUS
<1>0. TypeOK /\ Phases /\ Copies /\ Fresh /\ Aged /\ OwnedOnce
  BY DEF IInv
<1>1. /\ epoch \in Nat
      /\ \A v \in Thread : localvar_announcedEpoch[v].epoch \in Nat /\ opEpoch[v] \in Nat
  BY <1>0, Numbers
<1>2. ASSUME NEW t \in Thread, InitThread(t) PROVE Aged'
  BY <1>0, <1>2 DEF InitThread, Aged, Age, history
<1>3. ASSUME NEW t \in Thread, StartOp(t) PROVE Aged'
  <2>1. UNCHANGED <<window, opEpoch>>
    BY <1>3 DEF StartOp, history
  <2>2. \A u \in Thread \ {t} : localvar_announcedEpoch'[u] = localvar_announcedEpoch[u]
    BY <1>3 DEF StartOp
  <2>3. localvar_announcedEpoch'[t].epoch = epoch
    BY <1>0, <1>3 DEF StartOp, Announce, TypeOK
  <2>4. CASE UNCHANGED limbo /\ localvar_announcedEpoch[t] = Announce(epoch)
    <3>1. localvar_announcedEpoch[t].epoch = epoch
      BY <2>4 DEF Announce
    <3>2. \A u \in Thread : localvar_announcedEpoch'[u].epoch = localvar_announcedEpoch[u].epoch
      BY <2>2, <2>3, <3>1
    <3> QED
      BY <1>0, <2>1, <2>4, <3>2 DEF Aged, Age, limbo
  <2>5. CASE RotateEpochBags(t) /\ localvar_announcedEpoch[t] # Announce(epoch)
    <3> DEFINE j == Freeable(t)
    <3>1. j \in Slot
      BY <1>0, FreeableSlot
    <3>2. PICK f \in Slot : f = Freeable(t)
      BY <3>1
    <3> HIDE DEF j
    <3>3. ASSUME NEW v \in Thread, NEW u \in Thread, NEW i \in Slot,
                 Age(u, i)' > 0, window[v] \cap Items(epochbags'[u][i]) # {}
          PROVE  localvar_announcedEpoch'[u].epoch >= opEpoch[v] + Age(u, i)' - 1
      <4>1. CASE u # t
        <5>1. /\ Age(u, i)' = Age(u, i)
              /\ epochbags'[u] = epochbags[u]
              /\ localvar_announcedEpoch'[u] = localvar_announcedEpoch[u]
          BY <1>0, <2>2, <2>5, <3>2, <4>1, RotationOfBags
        <5> QED
          BY <1>0, <3>3, <5>1 DEF Aged
      <4>2. CASE u = t
        <5>1. /\ epochbags'[t][i] = epochbags[t][i]
              /\ Age(t, i)' = Age(t, i) + 1
              /\ Age(t, i) = 0 \/ Age(t, i) = 1
          <6>1. i # f
            BY <1>0, <2>5, <3>2, <3>3, <4>2, RotationOfBags
          <6> QED
            BY <1>0, <2>5, <3>2, <6>1, RotationOfBags
        <5>2. opEpoch[v] <= epoch
          BY <1>0 DEF Copies
        <5>3. localvar_announcedEpoch[t].epoch < epoch
          BY <1>0, <2>5, <3>3, <4>2, <5>1, RotationEpoch
        <5>4. CASE Age(t, i) = 0
          BY <1>1, <2>3, <4>2, <5>1, <5>2, <5>4
        <5>5. CASE Age(t, i) = 1
          <6>1. localvar_announcedEpoch[t].epoch >= opEpoch[v] + Age(t, i) - 1
            BY <1>0, <3>3, <4>2, <5>1, <5>5 DEF Aged
          <6> QED
            BY <1>1, <2>3, <4>2, <5>1, <5>3, <5>5, <6>1
        <5> QED
          BY <5>1, <5>4, <5>5
      <4> QED
        BY <4>1, <4>2
    <3> QED
      BY <2>1, <3>3 DEF Aged
  <2> QED
    BY <1>3, <2>4, <2>5 DEF StartOp
<1>4. ASSUME NEW t \in Thread, FreeOne(t) PROVE Aged'
  BY <1>0, <1>4 DEF FreeOne, Aged, Age, history
<1>5. ASSUME NEW t \in Thread, AnnounceEpoch(t) PROVE Aged'
  <2>1. \A u \in Thread, i \in Slot : linked \cap Items(epochbags[u][i]) = {}
    BY <1>0 DEF OwnedOnce, Limbo
  <2>2. UNCHANGED <<epochbags, index, localvar_announcedEpoch>>
    BY <1>5 DEF AnnounceEpoch, limbo
  <2>3. /\ window'[t] = linked
        /\ \A v \in Thread \ {t} : window'[v] = window[v] /\ opEpoch'[v] = opEpoch[v]
    BY <1>0, <1>5 DEF AnnounceEpoch, TypeOK
  <2> QED
    BY <1>0, <2>1, <2>2, <2>3 DEF Aged, Age
<1>6. ASSUME NEW t \in Thread, SkipScan(t) \/ Scan(t) \/ AdvanceEpoch(t) PROVE Aged'
  BY <1>0, <1>6 DEF SkipScan, Scan, AdvanceEpoch, Aged, Age, limbo, history
<1>7. ASSUME NEW t \in Thread, EndOp(t) PROVE Aged'
  <2>1. UNCHANGED <<epochbags, index, localvar_announcedEpoch, opEpoch>>
    BY <1>7 DEF EndOp, limbo
  <2>2. /\ window'[t] = {}
        /\ \A v \in Thread \ {t} : window'[v] = window[v]
    BY <1>0, <1>7 DEF EndOp, TypeOK
  <2> QED
    BY <1>0, <2>1, <2>2 DEF Aged, Age
<1>8. ASSUME NEW t \in Thread, NEW o \in Obj, Link(t, o) PROVE Aged'
  <2>1. \A u \in Thread, i \in Slot : o \notin Items(epochbags[u][i])
    BY <1>0, <1>8 DEF OwnedOnce, Limbo, Link
  <2>2. UNCHANGED <<epochbags, index, localvar_announcedEpoch, opEpoch>>
    BY <1>8 DEF Link, limbo
  <2>3. \A v \in Thread : window'[v] \subseteq window[v] \cup {o}
    BY <1>8 DEF Link
  <2> QED
    BY <1>0, <2>1, <2>2, <2>3 DEF Aged, Age
<1>9. ASSUME NEW t \in Thread, NEW o \in Obj, Unlink(t, o) PROVE Aged'
  BY <1>0, <1>9 DEF Unlink, Aged, Age, limbo, history
<1>10. ASSUME NEW t \in Thread, NEW o \in Obj, Retire(t, o) PROVE Aged'
  <2>1. currentBag[t] = index[t] /\ index[t] \in Slot
    <3>1. pc[t] # "off"
      BY <1>0, <1>10 DEF Retire, Phases
    <3> QED
      BY <1>0, <3>1 DEF Phases, TypeOK
  <2>2. Age(t, index[t]) = 0
    BY <2>1 DEF Age, Slot, NUMBER_OF_EPOCH_BAGS
  <2>3. UNCHANGED <<index, localvar_announcedEpoch, window, opEpoch>>
    BY <1>10 DEF Retire, history
  <2>4. \A u \in Thread, i \in Slot :
          Age(u, i) > 0 => epochbags'[u][i] = epochbags[u][i]
    BY <1>0, <1>10, <2>1, <2>2 DEF Retire, TypeOK
  <2>5. \A u \in Thread, i \in Slot : Age(u, i)' = Age(u, i)
    BY <2>3 DEF Age
  <2> QED
    BY <1>0, <2>3, <2>4, <2>5 DEF Aged
<1>11. ASSUME NEW t \in Thread, Finish(t) PROVE Aged'
  BY <1>0, <1>11 DEF Finish, Aged, Age, limbo, history
<1>12. ASSUME NEW t \in Thread, DeinitThread(t) PROVE Aged'
  <2>1. UNCHANGED <<index, localvar_announcedEpoch, window, opEpoch>>
    BY <1>12 DEF DeinitThread, history
  <2>2. \A u \in Thread, i \in Slot : Items(epochbags'[u][i]) \subseteq Items(epochbags[u][i])
    BY <1>0, <1>12 DEF DeinitThread, EmptyBag, Items, TypeOK
  <2> QED
    BY <1>0, <2>1, <2>2 DEF Aged, Age
<1>13. CASE UNCHANGED vars
  BY <1>0, <1>13 DEF vars, Aged, Age, limbo, history
<1> QED
  BY <1>2, <1>3, <1>4, <1>5, <1>6, <1>7, <1>8, <1>9, <1>10, <1>11, <1>12, <1>13
  DEF Next, Operation

(* A rotation reaches no object that a running operation may hold: the bag *)
(* would be two epochs old, one more than EpochLag allows.                 *)
LEMMA SafeReclaimStep == IInv /\ [Next]_vars => SafeReclaim'
<1> SUFFICES ASSUME IInv, [Next]_vars PROVE SafeReclaim'
  OBVIOUS
<1>0. TypeOK /\ Phases /\ Copies /\ Fresh /\ Aged /\ EpochLag /\ OwnedOnce /\ SafeReclaim
  BY DEF IInv
<1>1. /\ epoch \in Nat
      /\ \A v \in Thread : localvar_announcedEpoch[v].epoch \in Nat /\ opEpoch[v] \in Nat
  BY <1>0, Numbers
<1>2. ASSUME NEW t \in Thread, InitThread(t) PROVE SafeReclaim'
  BY <1>0, <1>2 DEF InitThread, SafeReclaim, TypeOK, client, history
<1>3. ASSUME NEW t \in Thread, StartOp(t) PROVE SafeReclaim'
  <2>1. UNCHANGED <<window, available>>
    BY <1>3 DEF StartOp, client, history
  <2>2. CASE UNCHANGED limbo
    BY <1>0, <2>1, <2>2 DEF SafeReclaim, limbo
  <2>3. CASE RotateEpochBags(t) /\ localvar_announcedEpoch[t] # Announce(epoch)
    <3>1. PICK j \in Slot : j = Freeable(t)
      BY <1>0, FreeableSlot
    <3>2. /\ Age(t, j) = 2
          /\ deamortizedFreeables'[t] = deamortizedFreeables[t] \cup epochbags[t][j].full
          /\ \A u \in Thread \ {t} : deamortizedFreeables'[u] = deamortizedFreeables[u]
      BY <1>0, <2>3, <3>1, RotationOfBags
    <3>3. ASSUME NEW v \in Thread, window[v] \cap epochbags[t][j].full # {} PROVE FALSE
      <4>1. window[v] \cap Items(epochbags[t][j]) # {}
        BY <3>3 DEF Items
      <4>2. localvar_announcedEpoch[t].epoch >= opEpoch[v] + Age(t, j) - 1
        BY <1>0, <3>2, <4>1 DEF Aged
      <4>3. localvar_announcedEpoch[t].epoch < epoch
        BY <1>0, <2>3, <4>1, RotationEpoch
      <4>4. epoch <= opEpoch[v] + 1
        BY <1>0, <3>3 DEF EpochLag, Phases
      <4> QED
        BY <1>1, <3>2, <4>2, <4>3, <4>4
    <3> QED
      BY <1>0, <2>1, <3>2, <3>3 DEF SafeReclaim
  <2> QED
    BY <1>3, <2>2, <2>3 DEF StartOp
<1>4. ASSUME NEW t \in Thread, FreeOne(t) PROVE SafeReclaim'
  <2>1. window' = window
    BY <1>4 DEF FreeOne, history
  <2>2. CASE UNCHANGED <<available, deamortizedFreeables>>
    BY <1>0, <2>1, <2>2 DEF SafeReclaim
  <2>3. ASSUME NEW o \in deamortizedFreeables[t],
               available' = available \cup {o},
               deamortizedFreeables' = [deamortizedFreeables EXCEPT ![t] = @ \ {o}]
        PROVE  SafeReclaim'
    <3>1. \A u \in Thread : deamortizedFreeables'[u] \subseteq deamortizedFreeables[u]
      BY <1>0, <2>3 DEF TypeOK
    <3> QED
      BY <1>0, <2>1, <2>3, <3>1 DEF SafeReclaim
  <2> QED
    BY <1>4, <2>2, <2>3 DEF FreeOne
<1>5. ASSUME NEW t \in Thread, AnnounceEpoch(t) PROVE SafeReclaim'
  <2>1. \A u \in Thread : linked \cap deamortizedFreeables[u] = {}
    BY <1>0 DEF OwnedOnce, Limbo
  <2>2. linked \cap available = {}
    BY <1>0 DEF OwnedOnce
  <2>3. UNCHANGED <<deamortizedFreeables, available>>
    BY <1>5 DEF AnnounceEpoch, limbo, client
  <2>4. /\ window'[t] = linked
        /\ \A v \in Thread \ {t} : window'[v] = window[v]
    BY <1>0, <1>5 DEF AnnounceEpoch, TypeOK
  <2> QED
    BY <1>0, <2>1, <2>2, <2>3, <2>4 DEF SafeReclaim
<1>6. ASSUME NEW t \in Thread, SkipScan(t) \/ Scan(t) \/ AdvanceEpoch(t) PROVE SafeReclaim'
  BY <1>0, <1>6 DEF SkipScan, Scan, AdvanceEpoch, SafeReclaim, limbo, client, history
<1>7. ASSUME NEW t \in Thread, EndOp(t) PROVE SafeReclaim'
  <2>1. UNCHANGED <<deamortizedFreeables, available>>
    BY <1>7 DEF EndOp, limbo, client
  <2>2. /\ window'[t] = {}
        /\ \A v \in Thread \ {t} : window'[v] = window[v]
    BY <1>0, <1>7 DEF EndOp, TypeOK
  <2> QED
    BY <1>0, <2>1, <2>2 DEF SafeReclaim
<1>8. ASSUME NEW t \in Thread, NEW o \in Obj, Link(t, o) PROVE SafeReclaim'
  <2>1. \A u \in Thread : o \notin deamortizedFreeables[u]
    BY <1>0, <1>8 DEF OwnedOnce, Limbo, Link
  <2>2. available' = available \ {o} /\ deamortizedFreeables' = deamortizedFreeables
    BY <1>8 DEF Link, limbo
  <2>3. \A v \in Thread : window'[v] \subseteq window[v] \cup {o}
    BY <1>8 DEF Link
  <2> QED
    BY <1>0, <2>1, <2>2, <2>3 DEF SafeReclaim
<1>9. ASSUME NEW t \in Thread, NEW o \in Obj, Unlink(t, o) \/ Retire(t, o) PROVE SafeReclaim'
  BY <1>0, <1>9 DEF Unlink, Retire, SafeReclaim, limbo, history
<1>10. ASSUME NEW t \in Thread, Finish(t) PROVE SafeReclaim'
  BY <1>0, <1>10 DEF Finish, SafeReclaim, limbo, client, history
<1>11. ASSUME NEW t \in Thread, AllDone, DeinitThread(t) PROVE SafeReclaim'
  <2>1. \A v \in Thread : window[v] = {}
    BY <1>0, <1>11 DEF AllDone, Phases
  <2>2. window' = window
    BY <1>11 DEF DeinitThread, history
  <2> QED
    BY <2>1, <2>2 DEF SafeReclaim
<1>12. CASE UNCHANGED vars
  BY <1>0, <1>12 DEF vars, SafeReclaim, limbo, client, history
<1> QED
  BY <1>2, <1>3, <1>4, <1>5, <1>6, <1>7, <1>8, <1>9, <1>10, <1>11, <1>12
  DEF Next, Operation

(* Membership in the limbo of a thread, before and after a step. *)
LEMMA LimboMembers ==
  ASSUME NEW t \in Thread
  PROVE  /\ \A o : o \in Limbo(t) <=> \/ o \in deamortizedFreeables[t]
                                      \/ \E i \in Slot : o \in Items(epochbags[t][i])
         /\ \A o : o \in Limbo(t)' <=> \/ o \in deamortizedFreeables'[t]
                                       \/ \E i \in Slot : o \in Items(epochbags'[t][i])
BY DEF Limbo

(* Objects move between owners, never to two of them. *)
LEMMA OwnedOnceStep == IInv /\ [Next]_vars => OwnedOnce'
<1> SUFFICES ASSUME IInv, [Next]_vars PROVE OwnedOnce'
  OBVIOUS
<1>0. TypeOK /\ Phases /\ Fresh /\ OwnedOnce
  BY DEF IInv
<1>1. ASSUME UNCHANGED <<linked, pending, available, epochbags, deamortizedFreeables>>
      PROVE  OwnedOnce'
  BY <1>0, <1>1 DEF OwnedOnce, Limbo
<1>2. ASSUME NEW t \in Thread, InitThread(t) PROVE OwnedOnce'
  <2>1. deamortizedFreeables' = deamortizedFreeables
    <3>1. deamortizedFreeables[t] = {}
      BY <1>0, <1>2 DEF InitThread, GoTo, Phases, Fresh
    <3> QED
      BY <1>0, <1>2, <3>1 DEF InitThread, TypeOK
  <2> QED
    BY <1>1, <1>2, <2>1 DEF InitThread, client
<1>3. ASSUME NEW t \in Thread, StartOp(t) PROVE OwnedOnce'
  <2>1. UNCHANGED <<linked, pending, available>>
    BY <1>3 DEF StartOp, client
  <2>2. CASE UNCHANGED limbo
    BY <1>1, <2>1, <2>2 DEF limbo
  <2>3. CASE RotateEpochBags(t)
    <3>1. PICK j \in Slot : j = Freeable(t)
      BY <1>0, FreeableSlot
    <3>2. /\ epochbags'[t][j] = PartialBlock(epochbags[t][j])
          /\ deamortizedFreeables'[t] = deamortizedFreeables[t] \cup epochbags[t][j].full
          /\ \A i \in Slot \ {j} : epochbags'[t][i] = epochbags[t][i]
          /\ \A u \in Thread \ {t} : /\ epochbags'[u] = epochbags[u]
                                     /\ deamortizedFreeables'[u] = deamortizedFreeables[u]
      BY <1>0, <2>3, <3>1, RotationOfBags
    <3>3. /\ epochbags'[t][j].head = epochbags[t][j].head
          /\ epochbags'[t][j].full = {}
          /\ Items(epochbags'[t][j]) = epochbags[t][j].head
          /\ Items(epochbags[t][j]) = epochbags[t][j].head \cup epochbags[t][j].full
      BY <3>2 DEF PartialBlock, Items
    <3>4. \A u \in Thread : Limbo(u)' = Limbo(u)
      <4>1. Limbo(t)' = Limbo(t)
        <5>1. \A o : o \in Limbo(t)' => o \in Limbo(t)
          <6>1. \A i \in Slot : Items(epochbags'[t][i]) \subseteq Items(epochbags[t][i])
            BY <3>2, <3>3
          <6>2. deamortizedFreeables'[t] \subseteq deamortizedFreeables[t] \cup Items(epochbags[t][j])
            BY <3>2, <3>3
          <6> QED
            BY <6>1, <6>2, LimboMembers
        <5>2. \A o : o \in Limbo(t) => o \in Limbo(t)'
          <6>1. \A i \in Slot :
                  Items(epochbags[t][i]) \subseteq Items(epochbags'[t][i]) \cup deamortizedFreeables'[t]
            BY <3>2, <3>3
          <6>2. deamortizedFreeables[t] \subseteq deamortizedFreeables'[t]
            BY <3>2
          <6> QED
            BY <6>1, <6>2, LimboMembers
        <5> QED
          BY <5>1, <5>2
      <4>2. \A u \in Thread \ {t} : Limbo(u)' = Limbo(u)
        BY <3>2 DEF Limbo
      <4> QED
        BY <4>1, <4>2
    <3>5. \A u \in Thread, i \in Slot :
            /\ epochbags'[u][i].head \cap epochbags'[u][i].full = {}
            /\ Items(epochbags'[u][i]) \cap deamortizedFreeables'[u] = {}
            /\ \A k \in Slot : i # k => Items(epochbags'[u][i]) \cap Items(epochbags'[u][k]) = {}
      <4>1. ASSUME NEW i \in Slot
            PROVE  /\ epochbags'[t][i].head \cap epochbags'[t][i].full = {}
                   /\ Items(epochbags'[t][i]) \cap deamortizedFreeables'[t] = {}
        BY <1>0, <3>2, <3>3 DEF OwnedOnce
      <4>2. ASSUME NEW i \in Slot, NEW k \in Slot, i # k
            PROVE  Items(epochbags'[t][i]) \cap Items(epochbags'[t][k]) = {}
        <5>1. Items(epochbags[t][i]) \cap Items(epochbags[t][k]) = {}
          BY <1>0, <4>2 DEF OwnedOnce
        <5>2. \A m \in Slot : Items(epochbags'[t][m]) \subseteq Items(epochbags[t][m])
          BY <3>2, <3>3
        <5> QED
          BY <5>1, <5>2
      <4>3. \A u \in Thread \ {t} : /\ epochbags'[u] = epochbags[u]
                                    /\ deamortizedFreeables'[u] = deamortizedFreeables[u]
        BY <3>2
      <4> QED
        BY <1>0, <4>1, <4>2, <4>3 DEF OwnedOnce
    <3> QED
      BY <1>0, <2>1, <3>4, <3>5 DEF OwnedOnce
  <2> QED
    BY <1>3, <2>2, <2>3 DEF StartOp
<1>4. ASSUME NEW t \in Thread, FreeOne(t) PROVE OwnedOnce'
  <2>1. UNCHANGED <<linked, pending, epochbags>>
    BY <1>4 DEF FreeOne
  <2>2. CASE UNCHANGED <<available, deamortizedFreeables>>
    BY <1>1, <2>1, <2>2
  <2>3. ASSUME NEW o \in deamortizedFreeables[t],
               available' = available \cup {o},
               deamortizedFreeables' = [deamortizedFreeables EXCEPT ![t] = @ \ {o}]
        PROVE  OwnedOnce'
    <3>1. /\ deamortizedFreeables'[t] = deamortizedFreeables[t] \ {o}
          /\ \A u \in Thread \ {t} : deamortizedFreeables'[u] = deamortizedFreeables[u]
      BY <1>0, <2>3 DEF TypeOK
    <3>2. Limbo(t)' = Limbo(t) \ {o} /\ o \in Limbo(t)
      <4>1. \A i \in Slot : o \notin Items(epochbags[t][i])
        BY <1>0, <2>3 DEF OwnedOnce
      <4> QED
        BY <2>1, <2>3, <3>1, <4>1, LimboMembers
    <3>3. \A u \in Thread \ {t} : Limbo(u)' = Limbo(u)
      BY <2>1, <3>1 DEF Limbo
    <3> QED
      BY <1>0, <2>1, <2>3, <3>1, <3>2, <3>3 DEF OwnedOnce
  <2> QED
    BY <1>4, <2>2, <2>3 DEF FreeOne
<1>5. ASSUME NEW t \in Thread,
             AnnounceEpoch(t) \/ SkipScan(t) \/ Scan(t) \/ AdvanceEpoch(t) \/ EndOp(t) \/ Finish(t)
      PROVE  OwnedOnce'
  BY <1>1, <1>5 DEF AnnounceEpoch, SkipScan, Scan, AdvanceEpoch, EndOp, Finish, limbo, client
<1>6. ASSUME NEW t \in Thread, NEW o \in Obj, Link(t, o) PROVE OwnedOnce'
  <2>1. /\ UNCHANGED <<pending, epochbags, deamortizedFreeables>>
        /\ o \in available
        /\ linked' = linked \cup {o}
        /\ available' = available \ {o}
    BY <1>6 DEF Link, limbo
  <2>2. \A u \in Thread : Limbo(u)' = Limbo(u)
    BY <2>1 DEF Limbo
  <2> QED
    BY <1>0, <2>1, <2>2 DEF OwnedOnce
<1>7. ASSUME NEW t \in Thread, NEW o \in Obj, Unlink(t, o) PROVE OwnedOnce'
  <2>1. /\ UNCHANGED <<available, epochbags, deamortizedFreeables>>
        /\ o \in linked
        /\ linked' = linked \ {o}
        /\ pending'[t] = pending[t] \cup {o}
        /\ \A u \in Thread \ {t} : pending'[u] = pending[u]
    BY <1>0, <1>7 DEF Unlink, limbo, TypeOK
  <2>2. \A u \in Thread : Limbo(u)' = Limbo(u)
    BY <2>1 DEF Limbo
  <2> QED
    BY <1>0, <2>1, <2>2 DEF OwnedOnce
<1>8. ASSUME NEW t \in Thread, NEW o \in Obj, Retire(t, o) PROVE OwnedOnce'
  <2> DEFINE c == currentBag[t]
  <2>1. /\ UNCHANGED <<linked, available, deamortizedFreeables>>
        /\ o \in pending[t]
        /\ pending'[t] = pending[t] \ {o}
        /\ \A u \in Thread \ {t} : pending'[u] = pending[u] /\ epochbags'[u] = epochbags[u]
        /\ c \in Slot
        /\ epochbags[t][c] \in Bag
        /\ epochbags'[t][c] = BagAdd(epochbags[t][c], o)
        /\ \A i \in Slot \ {c} : epochbags'[t][i] = epochbags[t][i]
    BY <1>0, <1>8 DEF Retire, TypeOK
  <2> HIDE DEF c
  <2>2. Items(epochbags'[t][c]) = Items(epochbags[t][c]) \cup {o}
    BY <2>1, BagAddItems
  <2>3. o \notin Limbo(t) /\ \A i \in Slot : o \notin Items(epochbags[t][i])
    BY <1>0, <2>1, LimboMembers DEF OwnedOnce
  <2>4. Limbo(t)' = Limbo(t) \cup {o}
    BY <2>1, <2>2, LimboMembers
  <2>5. \A u \in Thread \ {t} : Limbo(u)' = Limbo(u)
    BY <2>1 DEF Limbo
  <2>6. epochbags'[t][c].head \cap epochbags'[t][c].full = {}
    <3>1. epochbags[t][c].head \cap epochbags[t][c].full = {}
      BY <1>0, <2>1 DEF OwnedOnce
    <3>2. o \notin epochbags[t][c].head /\ o \notin epochbags[t][c].full
      BY <2>1, <2>3 DEF Items
    <3> QED
      BY <2>1, <3>1, <3>2 DEF BagAdd
  <2>7. \A u \in Thread, i \in Slot :
          /\ epochbags'[u][i].head \cap epochbags'[u][i].full = {}
          /\ Items(epochbags'[u][i]) \cap deamortizedFreeables'[u] = {}
          /\ \A k \in Slot : i # k => Items(epochbags'[u][i]) \cap Items(epochbags'[u][k]) = {}
    <3>1. o \notin deamortizedFreeables[t]
      BY <2>3, LimboMembers
    <3>2. ASSUME NEW i \in Slot
          PROVE  /\ epochbags'[t][i].head \cap epochbags'[t][i].full = {}
                 /\ Items(epochbags'[t][i]) \cap deamortizedFreeables'[t] = {}
      BY <1>0, <2>1, <2>2, <2>6, <3>1 DEF OwnedOnce
    <3>3. ASSUME NEW i \in Slot, NEW k \in Slot, i # k
          PROVE  Items(epochbags'[t][i]) \cap Items(epochbags'[t][k]) = {}
      BY <1>0, <2>1, <2>2, <2>3, <3>3 DEF OwnedOnce
    <3> QED
      BY <1>0, <2>1, <3>2, <3>3 DEF OwnedOnce
  <2> QED
    BY <1>0, <2>1, <2>4, <2>5, <2>7 DEF OwnedOnce
<1>9. ASSUME NEW t \in Thread, DeinitThread(t) PROVE OwnedOnce'
  <2>1. /\ UNCHANGED <<linked, pending>>
        /\ available' = available \cup Limbo(t)
        /\ deamortizedFreeables'[t] = {}
        /\ \A i \in Slot : epochbags'[t][i] = EmptyBag
        /\ \A u \in Thread \ {t} : /\ epochbags'[u] = epochbags[u]
                                   /\ deamortizedFreeables'[u] = deamortizedFreeables[u]
    BY <1>0, <1>9 DEF DeinitThread, TypeOK
  <2>2. /\ Items(EmptyBag) = {}
        /\ EmptyBag.head \cap EmptyBag.full = {}
    BY DEF EmptyBag, Items
  <2>3. Limbo(t)' = {}
    BY <2>1, <2>2, LimboMembers
  <2>4. \A u \in Thread \ {t} : Limbo(u)' = Limbo(u)
    BY <2>1 DEF Limbo
  <2> QED
    BY <1>0, <2>1, <2>2, <2>3, <2>4 DEF OwnedOnce
<1>10. CASE UNCHANGED vars
  BY <1>1, <1>10 DEF vars, limbo, client
<1> QED
  BY <1>2, <1>3, <1>4, <1>5, <1>6, <1>7, <1>8, <1>9, <1>10
  DEF Next, Operation

-----------------------------------------------------------------------------
(* The inductive invariant holds initially. *)
LEMMA IInvInit == Init => IInv
<1> SUFFICES ASSUME Init PROVE IInv
  OBVIOUS
<1>1. /\ \A t \in Thread : /\ pc[t] = "new"
                           /\ ~Active(t)
                           /\ localvar_announcedEpoch[t].quiescent
                           /\ localvar_announcedEpoch[t].epoch = 0
                           /\ epochbags[t] = [i \in Slot |-> EmptyBag]
                           /\ index[t] = 0 /\ currentBag[t] = 0
                           /\ deamortizedFreeables[t] = {}
                           /\ checked[t] = 0 /\ opEpoch[t] = 0
                           /\ pending[t] = {} /\ window[t] = {}
      /\ epoch = 0 /\ linked = {} /\ available = Obj
  BY DEF Init, Active, GetWithQuiescent, Announce
<1>2. /\ Items(EmptyBag) = {}
      /\ EmptyBag.head \cap EmptyBag.full = {}
  BY DEF EmptyBag, Items
<1>3. TypeOK
  BY TypeInit
<1>4. Phases
  BY <1>1 DEF Phases
<1>5. Copies /\ Fresh /\ FullScan
  BY <1>1 DEF Copies, Fresh, FullScan
<1>6. NotPassed /\ EpochLag
  BY <1>1 DEF NotPassed, EpochLag
<1>7. Aged /\ SafeReclaim
  BY <1>1 DEF Aged, SafeReclaim
<1>8. OwnedOnce
  <2>1. \A t \in Thread : Limbo(t) = {}
    BY <1>1, <1>2 DEF Limbo
  <2> QED
    BY <1>1, <1>2, <2>1 DEF OwnedOnce
<1> QED
  BY <1>3, <1>4, <1>5, <1>6, <1>7, <1>8 DEF IInv

(* The inductive invariant holds in every reachable state. *)
THEOREM Invariance == Spec => []IInv
<1>1. IInv /\ [Next]_vars => IInv'
  <2>1. IInv => TypeOK
    BY DEF IInv
  <2> QED
    BY <2>1, TypeStep, PhasesStep, CopiesStep, FreshStep, FullScanStep, NotPassedStep, AgedStep,
       EpochLagStep, OwnedOnceStep, SafeReclaimStep DEF IInv
<1> QED
  BY <1>1, IInvInit, PTL DEF Spec

(* No object that a running operation may hold is freed or queued to be    *)
(* freed, whatever the number of threads and the interleaving: DEBRA's     *)
(* correctness under the contract of deinitThread.                         *)
THEOREM SafeReclamation == Spec => []SafeReclaim
<1>1. IInv => SafeReclaim
  BY DEF IInv
<1> QED
  BY <1>1, Invariance, PTL

(* The epoch advances at most once during an operation. *)
THEOREM EpochLagging == Spec => []EpochLag
<1>1. IInv => EpochLag
  BY DEF IInv
<1> QED
  BY <1>1, Invariance, PTL

(* The incremental scan of startOp stays inside threadData. *)
THEOREM ScanInRange == Spec => []CheckedInRange
<1>1. IInv => CheckedInRange
  <2> SUFFICES ASSUME IInv, NEW t \in Thread, pc[t] = "scan" PROVE checked[t] \in Thread
    BY DEF CheckedInRange
  <2>1. TypeOK /\ FullScan
    BY DEF IInv
  <2>2. checked[t] # NUM_PROCESSES /\ checked[t] <= NUM_PROCESSES /\ checked[t] \in Nat
    BY <2>1, Numbers DEF FullScan
  <2> QED
    BY <2>2 DEF Thread
<1> QED
  BY <1>1, Invariance, PTL

(* No object is retired, queued or freed twice. *)
THEOREM SingleOwner == Spec => []OwnedOnce
<1>1. IInv => OwnedOnce
  BY DEF IInv
<1> QED
  BY <1>1, Invariance, PTL

-----------------------------------------------------------------------------
(* Every step of the reclaimer is a step of Reclamation or changes nothing *)
(* that Reclamation sees: announcing begins an operation, endOp ends it,   *)
(* a deamortized free and deinitThread reclaim.                            *)
LEMMA StepImplements == IInv /\ [Next]_vars => [Promise!Next]_(Promise!vars)
<1> SUFFICES ASSUME IInv, [Next]_vars PROVE [Promise!Next]_(Promise!vars)
  OBVIOUS
<1>0. TypeOK /\ Phases /\ OwnedOnce /\ SafeReclaim
  BY DEF IInv
<1> DEFINE Ops == {u \in Thread : Active(u)}
<1>1. ASSUME UNCHANGED <<linked, pending, available, window, announcedEpoch>>
      PROVE  UNCHANGED Promise!vars
  BY <1>1 DEF Promise!vars, Active
<1>2. ASSUME NEW t \in Thread, InitThread(t) \/ StartOp(t) PROVE UNCHANGED Promise!vars
  BY <1>1, <1>2 DEF InitThread, StartOp, client, history
<1>3. ASSUME NEW t \in Thread, FreeOne(t) PROVE [Promise!Next]_(Promise!vars)
  <2>1. UNCHANGED <<linked, pending, window, announcedEpoch>>
    BY <1>3 DEF FreeOne, history
  <2>2. CASE available' = available
    BY <1>1, <2>1, <2>2
  <2>3. ASSUME NEW o \in deamortizedFreeables[t], available' = available \cup {o}
        PROVE  Promise!Next
    <3>1. o \in Limbo(t) /\ o \in Obj
      BY <1>0, LimboMembers DEF TypeOK
    <3>2. {o} \subseteq Promise!Retired
      BY <1>0, <3>1 DEF OwnedOnce, Promise!Retired
    <3>3. \A u \in Thread : window[u] \cap {o} = {}
      BY <1>0 DEF SafeReclaim
    <3>4. Ops' = Ops
      BY <2>1 DEF Active
    <3>5. Promise!Reclaim({o})
      BY <2>1, <2>3, <3>2, <3>3, <3>4 DEF Promise!Reclaim
    <3> QED
      BY <3>1, <3>5 DEF Promise!Next
  <2> QED
    BY <1>3, <2>2, <2>3 DEF FreeOne
<1>4. ASSUME NEW t \in Thread, AnnounceEpoch(t) PROVE Promise!Next
  <2>1. ~Active(t)
    BY <1>0, <1>4 DEF AnnounceEpoch, GoTo, Phases
  <2>2. announcedEpoch'[t] = localvar_announcedEpoch[t] /\ ~localvar_announcedEpoch[t].quiescent
    BY <1>0, <1>4 DEF AnnounceEpoch, GoTo, Phases, TypeOK
  <2>3. \A u \in Thread \ {t} : announcedEpoch'[u] = announcedEpoch[u]
    BY <1>0, <1>4 DEF AnnounceEpoch, TypeOK
  <2>4. Ops' = Ops \cup {t}
    BY <2>2, <2>3 DEF Active
  <2>5. window' = [window EXCEPT ![t] = linked] /\ UNCHANGED <<linked, pending, available>>
    BY <1>4 DEF AnnounceEpoch, client
  <2>6. Promise!BeginOp(t)
    BY <2>1, <2>4, <2>5 DEF Promise!BeginOp
  <2> QED
    BY <2>6 DEF Promise!Next
<1>5. ASSUME NEW t \in Thread, SkipScan(t) \/ Scan(t) \/ AdvanceEpoch(t) \/ Finish(t)
      PROVE  UNCHANGED Promise!vars
  BY <1>1, <1>5 DEF SkipScan, Scan, AdvanceEpoch, Finish, client, history
<1>6. ASSUME NEW t \in Thread, EndOp(t) PROVE Promise!Next
  <2>1. Active(t)
    BY <1>0, <1>6 DEF EndOp, GoTo, Phases
  <2>2. announcedEpoch'[t].quiescent
    BY <1>0, <1>6 DEF EndOp, TypeOK, GetWithQuiescent, Word
  <2>3. \A u \in Thread \ {t} : announcedEpoch'[u] = announcedEpoch[u]
    BY <1>0, <1>6 DEF EndOp, TypeOK
  <2>4. Ops' = Ops \ {t}
    BY <2>2, <2>3 DEF Active
  <2>5. /\ window' = [window EXCEPT ![t] = {}]
        /\ pending[t] = {}
        /\ UNCHANGED <<linked, pending, available>>
    BY <1>6 DEF EndOp, client
  <2>6. Promise!EndOp(t)
    BY <2>1, <2>4, <2>5 DEF Promise!EndOp
  <2> QED
    BY <2>6 DEF Promise!Next
<1>7. ASSUME NEW t \in Thread, NEW o \in Obj, Link(t, o) PROVE Promise!Next
  <2>1. Active(t)
    BY <1>0, <1>7 DEF Link, Phases
  <2>2. Ops' = Ops
    BY <1>7 DEF Link, Active
  <2>3. window' = [u \in Thread |-> IF u \in Ops THEN window[u] \cup {o} ELSE window[u]]
    BY <1>7 DEF Link
  <2>4. Promise!Link(t, o)
    BY <1>7, <2>1, <2>2, <2>3 DEF Link, Promise!Link
  <2> QED
    BY <2>4 DEF Promise!Next
<1>8. ASSUME NEW t \in Thread, NEW o \in Obj, Unlink(t, o) PROVE Promise!Next
  <2>1. Active(t)
    BY <1>0, <1>8 DEF Unlink, Phases
  <2>2. Ops' = Ops
    BY <1>8 DEF Unlink, Active
  <2>3. Promise!Unlink(t, o)
    BY <1>8, <2>1, <2>2 DEF Unlink, Promise!Unlink, history
  <2> QED
    BY <2>3 DEF Promise!Next
<1>9. ASSUME NEW t \in Thread, NEW o \in Obj, Retire(t, o) PROVE Promise!Next
  <2>1. Ops' = Ops
    BY <1>9 DEF Retire, Active
  <2>2. Promise!Retire(t, o)
    BY <1>9, <2>1 DEF Retire, Promise!Retire, history
  <2> QED
    BY <2>2 DEF Promise!Next
<1>10. ASSUME NEW t \in Thread, AllDone, DeinitThread(t) PROVE Promise!Next
  <2>1. Limbo(t) \subseteq Obj
    BY <1>0 DEF TypeOK, Limbo, Items, Bag
  <2>2. Limbo(t) \subseteq Promise!Retired
    BY <1>0, <2>1 DEF OwnedOnce, Promise!Retired
  <2>3. \A u \in Thread : window[u] \cap Limbo(t) = {}
    BY <1>0, <1>10 DEF AllDone, Phases
  <2>4. Ops' = Ops
    BY <1>10 DEF DeinitThread, Active
  <2>5. Promise!Reclaim(Limbo(t))
    BY <1>10, <2>2, <2>3, <2>4 DEF DeinitThread, Promise!Reclaim, history
  <2> QED
    BY <2>1, <2>5 DEF Promise!Next
<1>11. CASE UNCHANGED vars
  BY <1>1, <1>11 DEF vars, client, history
<1> QED
  BY <1>2, <1>3, <1>4, <1>5, <1>6, <1>7, <1>8, <1>9, <1>10, <1>11 DEF Next, Operation

(* The reclaimer implements the promise that the trees rely on. *)
THEOREM Implementation == Spec => ReclamationSpec
<1>1. Init => Promise!Init
  BY DEF Init, Promise!Init, Active, GetWithQuiescent, Announce
<1> QED
  BY <1>1, StepImplements, Invariance, PTL DEF Spec, ReclamationSpec, Promise!Spec
=============================================================================
