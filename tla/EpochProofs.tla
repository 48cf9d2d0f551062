------------------------------ MODULE EpochProofs ------------------------------
(***************************************************************************)
(* Two of the other epoch reclaimers keep the promise of Reclamation, for  *)
(* any number of threads and objects and any block size: debracap, whose   *)
(* two scans also stay within the threads, and the token.  The second part *)
(* is about the instance Token.                                            *)
(***************************************************************************)
EXTENDS DebraCap, TLAPS

VARIABLES token, curr, last

Token == INSTANCE EbrToken

-----------------------------------------------------------------------------
(* DEBRA with a capped bag.                                                *)

Before == {"idle", "announce", "announce.rotate"}
Starting == {"rotate", "scan", "advance"}
Within == {"in", "retire.epoch", "retire.scan", "retire.advance"}

Announcement == [epoch : Nat, quiescent : BOOLEAN]

(* Nothing is shown of the two counters that only decide when to scan.     *)
TypeOK ==
  /\ linked \in SUBSET Obj
  /\ pending \in [Thread -> SUBSET Obj]
  /\ available \in SUBSET Obj
  /\ window \in [Thread -> SUBSET Obj]
  /\ inOp \in SUBSET Thread
  /\ epoch \in Nat
  /\ announced \in [Thread -> Announcement]
  /\ local \in [Thread -> Announcement]
  /\ bags \in [Thread -> [EpochBag -> SUBSET Obj]]
  /\ index \in [Thread -> EpochBag]
  /\ checked \in [Thread -> Nat]
  /\ pc \in [Thread -> Before \cup Starting \cup Within]

(* An object is linked, available, unlinked by a thread or in one bag.     *)
OnePlace ==
  /\ linked \cap available = {}
  /\ \A t \in Thread :
       /\ pending[t] \cap (linked \cup available) = {}
       /\ \A i \in EpochBag : bags[t][i] \cap (linked \cup available) = {}
       /\ \A u \in Thread, i \in EpochBag : pending[t] \cap bags[u][i] = {}
  /\ \A t, u \in Thread : t # u => pending[t] \cap pending[u] = {}
  /\ \A t, u \in Thread, i, j \in EpochBag :
       <<t, i>> # <<u, j>> => bags[t][i] \cap bags[u][j] = {}

(* A thread holds something only while its announcement is not quiescent.  *)
Phases ==
  \A t \in Thread :
    /\ announced[t].quiescent <=> pc[t] \in Before
    /\ t \in inOp <=> pc[t] \in Within
    /\ t \notin inOp => window[t] = {}

(* No thread is ahead of the epoch, and one that has never started an      *)
(* operation has no objects.                                               *)
Behind ==
  \A t \in Thread :
    /\ announced[t].epoch <= epoch /\ local[t].epoch <= epoch
    /\ local[t].quiescent => pc[t] = "idle" /\ \A i \in EpochBag : bags[t][i] = {}

(* Between reading a new epoch and rotating the bags, the place of the     *)
(* scan is that of an earlier epoch.                                       *)
Rotating(t) == pc[t] \in {"announce.rotate", "rotate"}

(* A scan that has passed all threads has advanced the epoch, or is about  *)
(* to, or sees it changed: its place is reset before the next one.         *)
FullScan ==
  \A t \in Thread :
    /\ checked[t] <= NUM_PROCESSES
    /\ pc[t] \in {"announce", "scan"} => checked[t] < NUM_PROCESSES
    /\ pc[t] \in {"idle", "in", "retire.epoch"} /\ checked[t] = NUM_PROCESSES => local[t].epoch < epoch
    /\ pc[t] \in {"advance", "retire.advance"} => checked[t] = NUM_PROCESSES

(* s has passed t in the scan for its epoch. *)
HasPassed(s, t) == t < checked[s] /\ ~Rotating(s)

(* The last epoch before t announces another one or becomes quiescent.     *)
Reach(t) ==
  IF announced[t].epoch = epoch \/ \E s \in Thread : local[s].epoch = epoch /\ HasPassed(s, t)
  THEN epoch + 1 ELSE epoch

(* The epochs that s has read since it put the last object into its i-th   *)
(* bag.                                                                    *)
Age(s, i) == IF i = index[s] THEN 0 ELSE IF i = (index[s] + 1) % 3 THEN 2 ELSE 1
EpochsRead(s, i) == Age(s, i) + IF Rotating(s) THEN 1 ELSE 0

(* Whatever t can still hold is too young to be freed before t ends.       *)
Aged ==
  \A s, t \in Thread, i \in EpochBag :
    window[t] \cap bags[s][i] # {} /\ EpochsRead(s, i) >= 1 => local[s].epoch + 2 >= Reach(t) + EpochsRead(s, i)

CapInv == TypeOK /\ OnePlace /\ Phases /\ Behind /\ FullScan /\ Aged

-----------------------------------------------------------------------------
(* The bags follow one another in a circle of three. *)
LEMMA NextBag ==
  ASSUME NEW i \in EpochBag
  PROVE  /\ (i + 1) % 3 \in EpochBag /\ (i + 1) % 3 # i
         /\ (((i + 1) % 3) + 1) % 3 # i /\ (((i + 1) % 3) + 1) % 3 # (i + 1) % 3
<1>1. i = 0 \/ i = 1 \/ i = 2
  BY DEF EpochBag
<1> QED
  BY <1>1 DEF EpochBag

LEMMA AgeRange ==
  ASSUME NEW s \in Thread, NEW i \in EpochBag
  PROVE  Age(s, i) \in 0 .. 2 /\ EpochsRead(s, i) \in 0 .. 3
BY DEF Age, EpochsRead

(* What the scans do: they pass a thread, or end. *)
LEMMA ScanEffect ==
  ASSUME TypeOK, NEW t \in Thread, Scan(t)
  PROVE  /\ pc[t] = "scan"
         /\ UNCHANGED <<linked, pending, available, epoch, announced, local, bags, index>>
         /\ \/ /\ Enter(t, "scan")
               /\ \/ UNCHANGED checked
                  \/ /\ Passes(t, checked[t])
                     /\ checked' = [checked EXCEPT ![t] = checked[t] + 1]
                     /\ ~ (checked[t] + 1 >= NUM_PROCESSES)
            \/ /\ Step(t, "scan", "advance")
               /\ Passes(t, checked[t])
               /\ checked' = [checked EXCEPT ![t] = checked[t] + 1]
               /\ checked[t] + 1 >= NUM_PROCESSES
<1>1. CASE ~Passes(t, checked[t])
  BY <1>1 DEF Scan, Enter, Promise!BeginOp, limbo
<1>2. CASE Passes(t, checked[t]) /\ checked[t] + 1 >= NUM_PROCESSES
  BY <1>2 DEF Scan, Step, client, limbo
<1>3. CASE Passes(t, checked[t]) /\ ~ (checked[t] + 1 >= NUM_PROCESSES)
  BY <1>3 DEF Scan, Enter, Promise!BeginOp, limbo
<1> QED
  BY <1>1, <1>2, <1>3

LEMMA RetireScanEffect ==
  ASSUME TypeOK, NEW t \in Thread, RetireScan(t)
  PROVE  /\ pc[t] = "retire.scan"
         /\ UNCHANGED <<client, epoch, announced, local, bags, index>>
         /\ \/ /\ checked[t] >= NUM_PROCESSES
               /\ Move(t, "retire.scan", "retire.advance") /\ UNCHANGED checked
            \/ /\ ~ (checked[t] >= NUM_PROCESSES)
               /\ \/ /\ Passes(t, checked[t]) /\ UNCHANGED pc
                     /\ checked' = [checked EXCEPT ![t] = checked[t] + 1]
                  \/ Move(t, "retire.scan", "in") /\ UNCHANGED checked
<1>1. CASE checked[t] >= NUM_PROCESSES
  BY <1>1 DEF RetireScan, Step, limbo
<1>2. CASE ~ (checked[t] >= NUM_PROCESSES) /\ Passes(t, checked[t])
  BY <1>2 DEF RetireScan, limbo
<1>3. CASE ~ (checked[t] >= NUM_PROCESSES) /\ ~ Passes(t, checked[t])
  BY <1>3 DEF RetireScan, Step, limbo
<1> QED
  BY <1>1, <1>2, <1>3

LEMMA TypeStep == TypeOK /\ [Next]_vars => TypeOK'
<1> SUFFICES ASSUME TypeOK, [Next]_vars PROVE TypeOK'
  OBVIOUS
<1> USE DEF TypeOK, Move, Step, Enter, client, limbo, counters, Announcement, Before, Starting, Within
<1>1. ASSUME NEW t \in Thread, ReadEpoch(t) PROVE TypeOK'
  BY <1>1 DEF ReadEpoch
<1>2. ASSUME NEW t \in Thread, Announce(t) PROVE TypeOK'
  <2>1. /\ announced' = [announced EXCEPT ![t] = local[t]]
        /\ UNCHANGED <<linked, pending, available, window, inOp, epoch, local, bags, index, checked>>
    BY <1>2 DEF Announce
  <2>2. pc' = [pc EXCEPT ![t] = "scan"] \/ pc' = [pc EXCEPT ![t] = "rotate"]
    BY <1>2 DEF Announce
  <2>3. announced' \in [Thread -> Announcement]
    BY <2>1
  <2> QED
    BY <2>1, <2>2, <2>3
<1>3. ASSUME NEW t \in Thread, RotateEpochBags(t) PROVE TypeOK'
  <2>1. (index[t] + 1) % 3 \in EpochBag
    BY NextBag
  <2>2. PICK left \in SUBSET bags[t][(index[t] + 1) % 3] :
          /\ available' = available \cup (bags[t][(index[t] + 1) % 3] \ left)
          /\ bags' = [bags EXCEPT ![t][(index[t] + 1) % 3] = left]
    BY <1>3 DEF RotateEpochBags
  <2>3. bags' \in [Thread -> [EpochBag -> SUBSET Obj]] /\ available' \in SUBSET Obj
    BY <2>1, <2>2
  <2>4. UNCHANGED <<linked, pending, window, inOp, epoch, announced, local>>
    BY <1>3 DEF RotateEpochBags
  <2>5. pc' \in [Thread -> Before \cup Starting \cup Within] /\ checked' \in [Thread -> Nat]
        /\ index' \in [Thread -> EpochBag]
    BY <1>3, <2>1 DEF RotateEpochBags
  <2> QED
    BY <2>3, <2>4, <2>5
<1>4. ASSUME NEW t \in Thread, SkipScan(t) PROVE TypeOK'
  BY <1>4 DEF SkipScan, Promise!BeginOp
<1>5. ASSUME NEW t \in Thread, Scan(t) PROVE TypeOK'
  <2>1. /\ UNCHANGED <<linked, pending, available, epoch, announced, local, bags, index>>
        /\ checked' = checked \/ checked' = [checked EXCEPT ![t] = checked[t] + 1]
        /\ Enter(t, "scan") \/ Step(t, "scan", "advance")
    BY <1>5, ScanEffect
  <2>2. checked' \in [Thread -> Nat]
    BY <2>1
  <2>3. window' \in [Thread -> SUBSET Obj] /\ inOp' \in SUBSET Thread
    BY <2>1 DEF Promise!BeginOp
  <2> QED
    BY <2>1, <2>2, <2>3
<1>6. ASSUME NEW t \in Thread, Advance(t) PROVE TypeOK'
  BY <1>6 DEF Advance, AdvancedEpoch, Promise!BeginOp
<1>7. ASSUME NEW t \in Thread, RetireReadEpoch(t) PROVE TypeOK'
  BY <1>7 DEF RetireReadEpoch
<1>8. ASSUME NEW t \in Thread, RetireScan(t) PROVE TypeOK'
  <2>1. /\ UNCHANGED <<client, epoch, announced, local, bags, index>>
        /\ checked' = checked \/ checked' = [checked EXCEPT ![t] = checked[t] + 1]
        /\ Move(t, "retire.scan", "retire.advance") \/ UNCHANGED pc \/ Move(t, "retire.scan", "in")
    BY <1>8, RetireScanEffect
  <2>2. checked' \in [Thread -> Nat]
    <3>1. [checked EXCEPT ![t] = checked[t] + 1] \in [Thread -> Nat]
      OBVIOUS
    <3> QED
      BY <2>1, <3>1
  <2>3. pc' \in [Thread -> Before \cup Starting \cup Within]
    BY <2>1
  <2> QED
    BY <2>1, <2>2, <2>3
<1>9. ASSUME NEW t \in Thread, RetireAdvance(t) PROVE TypeOK'
  BY <1>9 DEF RetireAdvance, AdvancedEpoch
<1>10. ASSUME NEW t \in Thread, EndOp(t) PROVE TypeOK'
  BY <1>10 DEF EndOp, Quiescent, Promise!EndOp
<1>11. ASSUME NEW t \in Thread, NEW o \in Obj, Link(t, o) PROVE TypeOK'
  BY <1>11 DEF Link, Promise!Link
<1>12. ASSUME NEW t \in Thread, NEW o \in Obj, Unlink(t, o) PROVE TypeOK'
  BY <1>12 DEF Unlink, Promise!Unlink
<1>13. ASSUME NEW t \in Thread, NEW o \in Obj, Retire(t, o) PROVE TypeOK'
  <2>1. bags' = [bags EXCEPT ![t][index[t]] = bags[t][index[t]] \cup {o}]
    BY <1>13 DEF Retire
  <2>2. bags' \in [Thread -> [EpochBag -> SUBSET Obj]]
    BY <2>1
  <2>3. UNCHANGED <<linked, available, window, inOp, epoch, announced, local, index, checked>>
    BY <1>13 DEF Retire, Promise!Retire
  <2>4. pending' \in [Thread -> SUBSET Obj]
    BY <1>13 DEF Retire, Promise!Retire
  <2>5. pc' = [pc EXCEPT ![t] = "in"] \/ pc' = [pc EXCEPT ![t] = "retire.epoch"]
    BY <1>13 DEF Retire
  <2> QED
    BY <2>2, <2>3, <2>4, <2>5
<1>14. CASE UNCHANGED vars
  BY <1>14 DEF vars
<1> QED
  BY <1>1, <1>2, <1>3, <1>4, <1>5, <1>6, <1>7, <1>8, <1>9, <1>10, <1>11, <1>12, <1>13, <1>14 DEF Next

LEMMA PhasesStep == CapInv /\ [Next]_vars => Phases'
<1> SUFFICES ASSUME CapInv, [Next]_vars PROVE Phases'
  OBVIOUS
<1>0. TypeOK /\ Phases /\ Behind
  BY DEF CapInv
<1> USE DEF Phases, TypeOK, Move, Step, Enter, client, limbo, counters, Announcement, Before, Starting, Within
<1>1. ASSUME NEW t \in Thread, ReadEpoch(t) PROVE Phases'
  BY <1>0, <1>1 DEF ReadEpoch
<1>2. ASSUME NEW t \in Thread, Announce(t) PROVE Phases'
  <2>1. window' = window /\ inOp' = inOp /\ \A u \in Thread \ {t} : announced'[u] = announced[u] /\ pc'[u] = pc[u]
    BY <1>0, <1>2 DEF Announce
  <2>2. announced'[t] = local[t] /\ pc[t] \in {"announce", "announce.rotate"} /\ pc'[t] \in {"scan", "rotate"}
    BY <1>0, <1>2 DEF Announce
  <2>3. ~local[t].quiescent
    BY <1>0, <2>2 DEF Behind
  <2> QED
    BY <1>0, <2>1, <2>2, <2>3
<1>3. ASSUME NEW t \in Thread, RotateEpochBags(t) PROVE Phases'
  BY <1>0, <1>3 DEF RotateEpochBags
<1>4. ASSUME NEW t \in Thread, Enter(t, "scan") \/ Enter(t, "advance"), announced' = announced PROVE Phases'
  BY <1>0, <1>4 DEF Promise!BeginOp
<1>5. ASSUME NEW t \in Thread, SkipScan(t) \/ Advance(t) PROVE Phases'
  BY <1>4, <1>5 DEF SkipScan, Advance
<1>6. ASSUME NEW t \in Thread, Scan(t) PROVE Phases'
  <2>1. announced' = announced /\ (Enter(t, "scan") \/ Step(t, "scan", "advance"))
    BY <1>0, <1>6, ScanEffect
  <2>2. CASE Step(t, "scan", "advance")
    BY <1>0, <2>1, <2>2
  <2> QED
    BY <1>4, <2>1, <2>2
<1>7. ASSUME NEW t \in Thread, RetireReadEpoch(t) PROVE Phases'
  BY <1>0, <1>7 DEF RetireReadEpoch
<1>8. ASSUME NEW t \in Thread, RetireScan(t) PROVE Phases'
  BY ZenonT(40), <1>0, <1>8, RetireScanEffect
<1>9. ASSUME NEW t \in Thread, RetireAdvance(t) PROVE Phases'
  BY <1>0, <1>9 DEF RetireAdvance
<1>10. ASSUME NEW t \in Thread, EndOp(t) PROVE Phases'
  <2>1. /\ announced' = [announced EXCEPT ![t] = Quiescent(local[t])]
        /\ window' = [window EXCEPT ![t] = {}] /\ pc' = [pc EXCEPT ![t] = "idle"]
        /\ inOp' = inOp \ {t}
    BY <1>10 DEF EndOp, Promise!EndOp
  <2>2. announced'[t].quiescent
    BY <1>0, <2>1 DEF Quiescent
  <2> QED
    BY <1>0, <2>1, <2>2
<1>11. ASSUME NEW t \in Thread, NEW o \in Obj, Link(t, o) PROVE Phases'
  <2>1. announced' = announced /\ pc' = pc
    BY <1>11 DEF Link
  <2>2. \A u \in Thread : u \notin inOp => window'[u] = window[u]
    BY <1>0, <1>11 DEF Link, Promise!Link
  <2>3. inOp' = inOp
    BY <1>11 DEF Link, Promise!Link
  <2> QED
    BY <1>0, <2>1, <2>2, <2>3
<1>12. ASSUME NEW t \in Thread, NEW o \in Obj, Unlink(t, o) PROVE Phases'
  BY <1>0, <1>12 DEF Unlink, Promise!Unlink
<1>13. ASSUME NEW t \in Thread, NEW o \in Obj, Retire(t, o) PROVE Phases'
  BY <1>0, <1>13 DEF Retire, Promise!Retire
<1>14. CASE UNCHANGED vars
  BY <1>0, <1>14 DEF vars
<1> QED
  BY <1>1, <1>2, <1>3, <1>5, <1>6, <1>7, <1>8, <1>9, <1>10, <1>11, <1>12, <1>13, <1>14 DEF Next

(* Every object stays in one place.                                        *)
LEMMA OnePlaceStep == CapInv /\ [Next]_vars => OnePlace'
<1> SUFFICES ASSUME CapInv, [Next]_vars PROVE OnePlace'
  OBVIOUS
<1>0. TypeOK /\ OnePlace
  BY DEF CapInv
<1> USE DEF Move, Step, Enter, client, limbo, counters
<1>1. ASSUME UNCHANGED <<linked, pending, available, bags>> PROVE OnePlace'
  BY <1>0, <1>1 DEF OnePlace
<1>2. ASSUME NEW t \in Thread,
             ReadEpoch(t) \/ Announce(t) \/ SkipScan(t) \/ Advance(t)
               \/ RetireReadEpoch(t) \/ RetireAdvance(t) \/ EndOp(t)
      PROVE  OnePlace'
  BY <1>1, <1>2 DEF ReadEpoch, Announce, SkipScan, Advance, RetireReadEpoch, RetireAdvance, EndOp,
                    Promise!BeginOp, Promise!EndOp
<1>3. ASSUME NEW t \in Thread, Scan(t) \/ RetireScan(t) PROVE OnePlace'
  BY <1>0, <1>1, <1>3, ScanEffect, RetireScanEffect
<1>4. ASSUME NEW t \in Thread, RotateEpochBags(t) PROVE OnePlace'
  <2> DEFINE next == (index[t] + 1) % 3
             old == bags[t][next]
  <2>1. next \in EpochBag
    BY <1>0, NextBag DEF TypeOK
  <2>2. PICK left \in SUBSET old :
          /\ available' = available \cup (old \ left)
          /\ bags' = [bags EXCEPT ![t][next] = left]
    BY <1>4 DEF RotateEpochBags
  <2>3. linked' = linked /\ pending' = pending
    BY <1>4 DEF RotateEpochBags
  <2>4. bags'[t][next] = left
    BY <1>0, <2>1, <2>2 DEF TypeOK
  <2>5. \A u \in Thread, i \in EpochBag : <<u, i>> # <<t, next>> => bags'[u][i] = bags[u][i]
    BY <1>0, <2>1, <2>2 DEF TypeOK
  <2> HIDE DEF next
  <2>6. \A u \in Thread, i \in EpochBag : bags'[u][i] \subseteq bags[u][i]
    BY <2>4, <2>5
  <2>7. \A u \in Thread, i \in EpochBag : bags'[u][i] \cap (old \ left) = {}
    BY <1>0, <2>1, <2>4, <2>5 DEF OnePlace
  <2>8. \A u \in Thread : pending[u] \cap (old \ left) = {}
    BY <1>0, <2>1 DEF OnePlace
  <2>9. linked \cap (old \ left) = {}
    BY <1>0, <2>1 DEF OnePlace
  <2>10. (linked \cap available = {})'
    BY <1>0, <2>2, <2>3, <2>9 DEF OnePlace
  <2>11. \A u \in Thread : (pending[u] \cap (linked \cup available) = {})'
    BY <1>0, <2>2, <2>3, <2>8 DEF OnePlace
  <2>12. \A u \in Thread, i \in EpochBag : (bags[u][i] \cap (linked \cup available) = {})'
    BY <1>0, <2>2, <2>3, <2>6, <2>7 DEF OnePlace
  <2>13. \A u, v \in Thread, i \in EpochBag : (pending[u] \cap bags[v][i] = {})'
    BY <1>0, <2>3, <2>6 DEF OnePlace
  <2>14. \A u, v \in Thread : u # v => (pending[u] \cap pending[v] = {})'
    BY <1>0, <2>3 DEF OnePlace
  <2>15. \A u, v \in Thread, i, j \in EpochBag : <<u, i>> # <<v, j>> => (bags[u][i] \cap bags[v][j] = {})'
    BY <1>0, <2>6 DEF OnePlace
  <2> QED
    BY <2>10, <2>11, <2>12, <2>13, <2>14, <2>15 DEF OnePlace
<1>5. ASSUME NEW t \in Thread, NEW o \in Obj, Link(t, o) PROVE OnePlace'
  <2>1. /\ o \in available /\ available' = available \ {o} /\ linked' = linked \cup {o}
        /\ UNCHANGED <<pending, bags>>
    BY <1>5 DEF Link, Promise!Link
  <2> QED
    BY <1>0, <2>1 DEF OnePlace
<1>6. ASSUME NEW t \in Thread, NEW o \in Obj, Unlink(t, o) PROVE OnePlace'
  <2>1. o \in linked /\ linked' = linked \ {o} /\ UNCHANGED <<available, bags>>
    BY <1>6 DEF Unlink, Promise!Unlink
  <2>2. pending'[t] = pending[t] \cup {o} /\ \A u \in Thread \ {t} : pending'[u] = pending[u]
    BY <1>0, <1>6 DEF Unlink, Promise!Unlink, TypeOK
  <2> QED
    BY <1>0, <2>1, <2>2 DEF OnePlace
<1>7. ASSUME NEW t \in Thread, NEW o \in Obj, Retire(t, o) PROVE OnePlace'
  <2> DEFINE now == index[t]
  <2>1. o \in pending[t] /\ UNCHANGED <<linked, available>>
    BY <1>7 DEF Retire, Promise!Retire
  <2>2. pending'[t] = pending[t] \ {o} /\ \A u \in Thread \ {t} : pending'[u] = pending[u]
    BY <1>0, <1>7 DEF Retire, Promise!Retire, TypeOK
  <2>3. now \in EpochBag
    BY <1>0 DEF TypeOK
  <2>4. bags' = [bags EXCEPT ![t][now] = bags[t][now] \cup {o}]
    BY <1>7 DEF Retire
  <2> HIDE DEF now
  <2>5. bags'[t][now] = bags[t][now] \cup {o}
    BY <1>0, <2>3, <2>4 DEF TypeOK
  <2>6. \A u \in Thread, i \in EpochBag : <<u, i>> # <<t, now>> => bags'[u][i] = bags[u][i]
    BY <1>0, <2>3, <2>4 DEF TypeOK
  <2>7. \A u \in Thread, i \in EpochBag : o \notin bags[u][i]
    BY <1>0, <2>1 DEF OnePlace
  <2>8. \A u \in Thread, i \in EpochBag : bags'[u][i] \subseteq bags[u][i] \cup {o}
    BY <2>5, <2>6
  <2>9. o \notin linked /\ o \notin available
    BY <1>0, <2>1 DEF OnePlace
  <2>10. \A u \in Thread : pending'[u] \subseteq pending[u] \ {o}
    BY <1>0, <2>1, <2>2 DEF OnePlace
  <2>11. (linked \cap available = {})' /\ \A u \in Thread : (pending[u] \cap (linked \cup available) = {})'
    BY <1>0, <2>1, <2>10 DEF OnePlace
  <2>12. \A u \in Thread, i \in EpochBag : (bags[u][i] \cap (linked \cup available) = {})'
    BY <1>0, <2>1, <2>8, <2>9 DEF OnePlace
  <2>13. \A u, v \in Thread, i \in EpochBag : (pending[u] \cap bags[v][i] = {})'
    BY <1>0, <2>8, <2>10 DEF OnePlace
  <2>14. \A u, v \in Thread : u # v => (pending[u] \cap pending[v] = {})'
    BY <1>0, <2>10 DEF OnePlace
  <2>15. ASSUME NEW u \in Thread, NEW v \in Thread, NEW i \in EpochBag, NEW j \in EpochBag,
                <<u, i>> # <<v, j>>
         PROVE  bags'[u][i] \cap bags'[v][j] = {}
    <3>1. bags[u][i] \cap bags[v][j] = {}
      BY <1>0, <2>15 DEF OnePlace
    <3>2. <<u, i>> # <<t, now>> \/ <<v, j>> # <<t, now>>
      BY <2>15
    <3>3. CASE <<u, i>> # <<t, now>>
      BY <2>6, <2>7, <2>8, <3>1, <3>3
    <3>4. CASE <<v, j>> # <<t, now>>
      BY <2>6, <2>7, <2>8, <3>1, <3>4
    <3> QED
      BY <3>2, <3>3, <3>4
  <2> QED
    BY <2>11, <2>12, <2>13, <2>14, <2>15 DEF OnePlace
<1>8. CASE UNCHANGED vars
  BY <1>1, <1>8 DEF vars
<1> QED
  BY <1>2, <1>3, <1>4, <1>5, <1>6, <1>7, <1>8 DEF Next

LEMMA BehindStep == CapInv /\ [Next]_vars => Behind'
<1> SUFFICES ASSUME CapInv, [Next]_vars PROVE Behind'
  OBVIOUS
<1>0. TypeOK /\ Behind /\ Phases
  BY DEF CapInv
<1> USE DEF TypeOK, Announcement, Move, Step, Enter, client, limbo, counters
<1>1. ASSUME UNCHANGED <<epoch, announced, local, bags>>,
             \A t \in Thread : pc[t] = "idle" => pc'[t] = "idle"
      PROVE  Behind'
  BY <1>0, <1>1 DEF Behind
<1>2. ASSUME NEW t \in Thread, ReadEpoch(t) PROVE Behind'
  <2>1. /\ local' = [local EXCEPT ![t] = [epoch |-> epoch, quiescent |-> FALSE]]
        /\ UNCHANGED <<epoch, announced, bags>>
    BY <1>2 DEF ReadEpoch
  <2>2. local'[t].epoch = epoch /\ ~ local'[t].quiescent
    BY <1>0, <2>1
  <2>3. \A u \in Thread \ {t} : local'[u] = local[u] /\ pc'[u] = pc[u]
    BY <1>0, <1>2, <2>1 DEF ReadEpoch
  <2> QED
    BY <1>0, <2>1, <2>2, <2>3 DEF Behind
<1>3. ASSUME NEW t \in Thread, Announce(t) PROVE Behind'
  <2>1. UNCHANGED <<epoch, local, bags>> /\ \A u \in Thread \ {t} : announced'[u] = announced[u] /\ pc'[u] = pc[u]
    BY <1>0, <1>3 DEF Announce
  <2>2. announced'[t] = local[t] /\ pc[t] # "idle"
    BY <1>0, <1>3 DEF Announce
  <2> QED
    BY <1>0, <2>1, <2>2 DEF Behind
<1>4. ASSUME NEW t \in Thread, RotateEpochBags(t) PROVE Behind'
  <2>1. UNCHANGED <<epoch, announced, local>> /\ pc[t] # "idle"
    BY <1>0, <1>4 DEF RotateEpochBags
  <2>2. \A u \in Thread \ {t} : bags'[u] = bags[u] /\ pc'[u] = pc[u]
    BY <1>0, <1>4 DEF RotateEpochBags
  <2> QED
    BY <1>0, <2>1, <2>2 DEF Behind
<1>5. ASSUME NEW t \in Thread, SkipScan(t) \/ RetireReadEpoch(t) PROVE Behind'
  BY <1>0, <1>1, <1>5 DEF SkipScan, RetireReadEpoch
<1>6. ASSUME NEW t \in Thread, Scan(t) PROVE Behind'
  BY <1>0, <1>1, <1>6, ScanEffect
<1>7. ASSUME NEW t \in Thread, RetireScan(t) PROVE Behind'
  BY <1>0, <1>1, <1>7, RetireScanEffect
<1>8. ASSUME NEW t \in Thread, Advance(t) \/ RetireAdvance(t) PROVE Behind'
  <2>1. epoch' >= epoch /\ epoch' \in Nat
    BY <1>0, <1>8 DEF Advance, RetireAdvance, AdvancedEpoch
  <2>2. UNCHANGED <<announced, local, bags>>
    BY <1>8 DEF Advance, RetireAdvance
  <2>3. \A u \in Thread : pc[u] = "idle" => pc'[u] = "idle"
    BY <1>0, <1>8 DEF Advance, RetireAdvance
  <2>4. \A u \in Thread : announced[u].epoch \in Nat /\ local[u].epoch \in Nat
    BY <1>0
  <2> QED
    BY <1>0, <2>1, <2>2, <2>3, <2>4 DEF Behind
<1>9. ASSUME NEW t \in Thread, EndOp(t) PROVE Behind'
  <2>1. UNCHANGED <<epoch, local, bags>> /\ \A u \in Thread \ {t} : announced'[u] = announced[u] /\ pc'[u] = pc[u]
    BY <1>0, <1>9 DEF EndOp
  <2>2. announced'[t].epoch = local[t].epoch /\ pc'[t] = "idle"
    BY <1>0, <1>9 DEF EndOp, Quiescent
  <2> QED
    BY <1>0, <2>1, <2>2 DEF Behind
<1>10. ASSUME NEW t \in Thread, NEW o \in Obj, Link(t, o) \/ Unlink(t, o) PROVE Behind'
  BY <1>0, <1>1, <1>10 DEF Link, Unlink
<1>11. ASSUME NEW t \in Thread, NEW o \in Obj, Retire(t, o) PROVE Behind'
  <2>1. UNCHANGED <<epoch, announced, local>> /\ pc[t] # "idle"
    BY <1>0, <1>11 DEF Retire
  <2>2. \A u \in Thread \ {t} : bags'[u] = bags[u] /\ pc'[u] = pc[u]
    BY <1>0, <1>11 DEF Retire
  <2> QED
    BY <1>0, <2>1, <2>2 DEF Behind
<1>12. CASE UNCHANGED vars
  BY <1>1, <1>12 DEF vars
<1> QED
  BY <1>2, <1>3, <1>4, <1>5, <1>6, <1>7, <1>8, <1>9, <1>10, <1>11, <1>12 DEF Next

(* The scan of an operation starts before the last thread, although that   *)
(* of retire leaves its place behind it.                                   *)
LEMMA FullScanStep == NUM_PROCESSES \in Nat /\ CapInv /\ [Next]_vars => FullScan'
<1> SUFFICES ASSUME NUM_PROCESSES \in Nat, CapInv, [Next]_vars PROVE FullScan'
  OBVIOUS
<1>0. TypeOK /\ Behind /\ FullScan
  BY DEF CapInv
<1>n. epoch \in Nat /\ \A u \in Thread : checked[u] \in Nat /\ local[u].epoch \in Nat
  BY <1>0 DEF TypeOK, Announcement
<1> USE DEF TypeOK, Announcement, Move, Step, Enter, client, limbo, counters
<1>1. ASSUME UNCHANGED <<epoch, local, checked, pc>> PROVE FullScan'
  BY <1>0, <1>1 DEF FullScan
<1>2. ASSUME NEW t \in Thread, ReadEpoch(t) PROVE FullScan'
  <2>1. UNCHANGED <<epoch, checked>>
    BY <1>2 DEF ReadEpoch
  <2>2. \A u \in Thread \ {t} : local'[u] = local[u] /\ pc'[u] = pc[u]
    BY <1>0, <1>2 DEF ReadEpoch
  <2>3. pc[t] = "idle" /\ pc'[t] \in {"announce", "announce.rotate"}
        /\ (pc'[t] = "announce" => local[t].epoch = epoch)
    BY <1>0, <1>2 DEF ReadEpoch
  <2>4. pc'[t] = "announce" => checked[t] < NUM_PROCESSES
    <3>1. pc'[t] = "announce" => checked[t] # NUM_PROCESSES
      BY <1>0, <1>n, <2>3 DEF FullScan
    <3>2. checked[t] <= NUM_PROCESSES
      BY <1>0 DEF FullScan
    <3> QED
      BY <1>n, <3>1, <3>2
  <2> QED
    BY <1>0, <2>1, <2>2, <2>3, <2>4 DEF FullScan
<1>3. ASSUME NEW t \in Thread, Announce(t) PROVE FullScan'
  BY <1>0, <1>3 DEF Announce, FullScan
<1>4. ASSUME NEW t \in Thread, RotateEpochBags(t) PROVE FullScan'
  <2>1. UNCHANGED <<epoch, local>> /\ checked'[t] = 0 /\ pc'[t] = "scan"
        /\ \A u \in Thread \ {t} : checked'[u] = checked[u] /\ pc'[u] = pc[u]
    BY <1>0, <1>4 DEF RotateEpochBags
  <2>2. 0 < NUM_PROCESSES
    BY DEF Thread
  <2> QED
    BY <1>0, <2>1, <2>2 DEF FullScan
<1>5. ASSUME NEW t \in Thread, SkipScan(t) PROVE FullScan'
  BY <1>0, <1>5 DEF SkipScan, FullScan
<1>6. ASSUME NEW t \in Thread, Scan(t) PROVE FullScan'
  <2>1. UNCHANGED <<epoch, local>> /\ checked[t] < NUM_PROCESSES
    BY <1>0, <1>6, ScanEffect DEF FullScan
  <2>2. \A u \in Thread \ {t} : checked'[u] = checked[u] /\ pc'[u] = pc[u]
    <3>1. checked' = checked \/ checked' = [checked EXCEPT ![t] = checked[t] + 1]
      BY <1>0, <1>6, ScanEffect
    <3>2. \A u \in Thread \ {t} : pc'[u] = pc[u]
      BY <1>0, <1>6, ScanEffect
    <3> QED
      BY <1>0, <3>1, <3>2
  <2>3. \/ checked'[t] \in Nat /\ checked'[t] < NUM_PROCESSES /\ pc'[t] = "in"
        \/ checked'[t] = NUM_PROCESSES /\ pc'[t] = "advance"
    <3>1. CASE UNCHANGED checked /\ Enter(t, "scan")
      BY <1>0, <2>1, <3>1
    <3>2. CASE checked' = [checked EXCEPT ![t] = checked[t] + 1] /\ ~ (checked[t] + 1 >= NUM_PROCESSES)
               /\ Enter(t, "scan")
      BY <1>0, <1>n, <3>2
    <3>3. CASE checked' = [checked EXCEPT ![t] = checked[t] + 1] /\ checked[t] + 1 >= NUM_PROCESSES
               /\ Step(t, "scan", "advance")
      BY <1>0, <1>n, <2>1, <3>3
    <3> QED
      BY <1>0, <1>6, <3>1, <3>2, <3>3, ScanEffect
  <2> HIDE DEF TypeOK, Announcement, Move, Step, Enter, client, limbo, counters
  <2> QED
    BY <1>0, <1>n, <2>1, <2>2, <2>3 DEF FullScan
<1>7. ASSUME NEW t \in Thread, Advance(t) \/ RetireAdvance(t) PROVE FullScan'
  <2>1. UNCHANGED <<local, checked>> /\ pc'[t] = "in" /\ \A u \in Thread \ {t} : pc'[u] = pc[u]
    BY <1>0, <1>7 DEF Advance, RetireAdvance
  <2>2. epoch' = IF epoch = local[t].epoch THEN epoch + 1 ELSE epoch
    BY <1>7 DEF Advance, RetireAdvance, AdvancedEpoch
  <2>3. local[t].epoch <= epoch
    BY <1>0 DEF Behind
  <2>4. local[t].epoch < epoch' /\ epoch' >= epoch /\ epoch' \in Nat
    BY <1>n, <2>2, <2>3
  <2> HIDE DEF TypeOK, Announcement, Move, Step, Enter, client, limbo, counters
  <2> QED
    BY <1>0, <1>n, <2>1, <2>4 DEF FullScan
<1>8. ASSUME NEW t \in Thread, RetireReadEpoch(t) PROVE FullScan'
  <2>1. UNCHANGED <<epoch, local, checked>> /\ \A u \in Thread \ {t} : pc'[u] = pc[u]
    BY <1>0, <1>8 DEF RetireReadEpoch
  <2>2. pc'[t] = "retire.scan" \/ (pc'[t] = "in" /\ local[t].epoch < epoch)
    <3>1. pc'[t] = "retire.scan" \/ (pc'[t] = "in" /\ local[t].epoch # epoch)
      <4>1. CASE epoch = local[t].epoch
        <5>1. pc' = [pc EXCEPT ![t] = "retire.scan"]
          BY <1>8, <4>1 DEF RetireReadEpoch
        <5> QED
          BY <1>0, <5>1
      <4>2. CASE epoch # local[t].epoch
        BY <1>0, <1>8, <4>2 DEF RetireReadEpoch
      <4> QED
        BY <4>1, <4>2
    <3>2. local[t].epoch <= epoch
      BY <1>0 DEF Behind
    <3> QED
      BY <1>n, <3>1, <3>2
  <2> QED
    BY <1>0, <2>1, <2>2 DEF FullScan
<1>9. ASSUME NEW t \in Thread, RetireScan(t) PROVE FullScan'
  <2>1. UNCHANGED <<epoch, local>> /\ checked[t] <= NUM_PROCESSES
    BY <1>0, <1>9, RetireScanEffect DEF FullScan
  <2>2. \A u \in Thread \ {t} : checked'[u] = checked[u] /\ pc'[u] = pc[u]
    <3>1. checked' = checked \/ checked' = [checked EXCEPT ![t] = checked[t] + 1]
      BY <1>0, <1>9, RetireScanEffect
    <3>2. \A u \in Thread \ {t} : pc'[u] = pc[u]
      BY ZenonT(40), <1>0, <1>9, RetireScanEffect
    <3> QED
      BY <1>0, <3>1, <3>2
  <2>3. \/ checked'[t] \in Nat /\ checked'[t] < NUM_PROCESSES /\ pc'[t] = "in"
        \/ checked'[t] <= NUM_PROCESSES /\ pc'[t] = "retire.scan"
        \/ checked'[t] = NUM_PROCESSES /\ pc'[t] = "retire.advance"
    <3>1. CASE checked[t] >= NUM_PROCESSES
      <4>1. Move(t, "retire.scan", "retire.advance") /\ UNCHANGED checked
        BY <1>0, <1>9, <3>1, RetireScanEffect
      <4>2. checked[t] = NUM_PROCESSES
        BY <1>n, <2>1, <3>1
      <4> QED
        BY <1>0, <4>1, <4>2
    <3>2. CASE ~ (checked[t] >= NUM_PROCESSES) /\ UNCHANGED pc /\ pc[t] = "retire.scan"
               /\ checked' = [checked EXCEPT ![t] = checked[t] + 1]
      <4>1. checked'[t] = checked[t] + 1
        BY <1>0, <3>2
      <4> QED
        BY <1>n, <3>2, <4>1
    <3>3. CASE ~ (checked[t] >= NUM_PROCESSES) /\ Move(t, "retire.scan", "in") /\ UNCHANGED checked
      BY <1>0, <1>n, <3>3
    <3> QED
      BY <1>0, <1>9, <3>1, <3>2, <3>3, RetireScanEffect
  <2> HIDE DEF TypeOK, Announcement, Move, Step, Enter, client, limbo, counters
  <2> QED
    BY <1>0, <1>n, <2>1, <2>2, <2>3 DEF FullScan
<1>10. ASSUME NEW t \in Thread, EndOp(t) PROVE FullScan'
  BY <1>0, <1>10 DEF EndOp, FullScan
<1>11. ASSUME NEW t \in Thread, NEW o \in Obj, Link(t, o) \/ Unlink(t, o) PROVE FullScan'
  BY <1>1, <1>11 DEF Link, Unlink
<1>12. ASSUME NEW t \in Thread, NEW o \in Obj, Retire(t, o) PROVE FullScan'
  <2>1. UNCHANGED <<epoch, local, checked>> /\ \A u \in Thread \ {t} : pc'[u] = pc[u]
    BY <1>0, <1>12 DEF Retire
  <2>2. pc[t] = "in" /\ pc'[t] \in {"in", "retire.epoch"}
    BY <1>0, <1>12 DEF Retire
  <2> QED
    BY <1>0, <2>1, <2>2 DEF FullScan
<1>13. CASE UNCHANGED vars
  BY <1>1, <1>13 DEF vars
<1> QED
  BY <1>2, <1>3, <1>4, <1>5, <1>6, <1>7, <1>8, <1>9, <1>10, <1>11, <1>12, <1>13 DEF Next

LEMMA ReachRange ==
  ASSUME TypeOK, NEW t \in Thread
  PROVE  Reach(t) \in Nat /\ epoch <= Reach(t) /\ Reach(t) <= epoch + 1
BY DEF TypeOK, Reach

(* A scan that passes u tells nothing new of the epochs before u ends.     *)
LEMMA Passing ==
  ASSUME TypeOK, Phases, NEW t \in Thread, NEW u \in Thread,
         UNCHANGED epoch, announced'[u] = announced[u], \A s \in Thread : local'[s] = local[s],
         \A s \in Thread : Rotating(s)' <=> Rotating(s),
         \A s \in Thread \ {t} : checked'[s] = checked[s],
         checked'[t] = checked[t] \/ (Passes(t, checked[t]) /\ checked'[t] = checked[t] + 1)
  PROVE  window[u] = {} \/ Reach(u)' <= Reach(u)
<1> SUFFICES ASSUME window[u] # {} PROVE Reach(u)' <= Reach(u)
  OBVIOUS
<1>1. ~announced[u].quiescent
  BY DEF Phases, Within, Before
<1>2. Reach(u) \in Nat /\ epoch \in Nat
  BY ReachRange DEF TypeOK
<1>3. CASE announced[u].epoch = epoch
  BY <1>2, <1>3 DEF Reach
<1>4. CASE announced[u].epoch # epoch
  <2>1. ASSUME NEW s \in Thread, local'[s].epoch = epoch, HasPassed(s, u)' PROVE HasPassed(s, u)
    <3>1. ~Rotating(s) /\ u < checked'[s]
      BY <2>1 DEF HasPassed
    <3>2. CASE checked'[s] = checked[s]
      BY <3>1, <3>2 DEF HasPassed
    <3>3. CASE s = t /\ Passes(t, checked[t]) /\ checked'[t] = checked[t] + 1
      <4>1. checked[t] # u
        BY <1>1, <1>4, <2>1, <3>3 DEF Passes
      <4>2. checked[t] \in Nat /\ u \in Int
        BY DEF TypeOK, Thread
      <4>3. u < checked[t]
        BY <3>1, <3>3, <4>1, <4>2
      <4> QED
        BY <3>1, <3>3, <4>3 DEF HasPassed
    <3> QED
      BY <3>2, <3>3
  <2> QED
    BY <1>2, <1>4, <2>1 DEF Reach
<1> QED
  BY <1>3, <1>4

(* Rotating makes every bag one older, and the oldest the current one. *)
LEMMA AgeAfterRotation ==
  ASSUME TypeOK, NEW t \in Thread, NEW i \in EpochBag, index'[t] = (index[t] + 1) % 3
  PROVE  i # (index[t] + 1) % 3 => Age(t, i)' = Age(t, i) + 1
<1>1. index[t] = 0 \/ index[t] = 1 \/ index[t] = 2
  BY DEF TypeOK, EpochBag
<1>2. i = 0 \/ i = 1 \/ i = 2
  BY DEF EpochBag
<1> QED
  BY <1>1, <1>2 DEF Age

(* What is old enough to be freed has been unlinked before every operation *)
(* in progress began.                                                      *)
LEMMA AgedStep == NUM_PROCESSES \in Nat /\ CapInv /\ TypeOK' /\ Behind' /\ [Next]_vars => Aged'
<1> SUFFICES ASSUME NUM_PROCESSES \in Nat, CapInv, TypeOK', Behind', [Next]_vars PROVE Aged'
  OBVIOUS
<1>0. TypeOK /\ OnePlace /\ Phases /\ Behind /\ FullScan /\ Aged
  BY DEF CapInv
<1>n. epoch \in Nat /\ \A u \in Thread : local[u].epoch \in Nat /\ announced[u].epoch \in Nat
  BY <1>0 DEF TypeOK, Announcement
<1>1. ASSUME \A s, u \in Thread, i \in EpochBag :
               window'[u] \cap bags'[s][i] # {} /\ EpochsRead(s, i)' >= 1
                 => window[u] \cap bags[s][i] # {} /\ Reach(u)' <= Reach(u),
             \A s \in Thread, i \in EpochBag :
               EpochsRead(s, i)' >= 1 => EpochsRead(s, i)' = EpochsRead(s, i),
             \A s \in Thread : local'[s].epoch = local[s].epoch
      PROVE  Aged'
  <2> SUFFICES ASSUME NEW s \in Thread, NEW u \in Thread, NEW i \in EpochBag,
                      window'[u] \cap bags'[s][i] # {}, EpochsRead(s, i)' >= 1
               PROVE  local'[s].epoch + 2 >= Reach(u)' + EpochsRead(s, i)'
    BY DEF Aged
  <2>1. local[s].epoch + 2 >= Reach(u) + EpochsRead(s, i)
    BY <1>0, <1>1 DEF Aged
  <2>2. Reach(u) \in Nat /\ EpochsRead(s, i) \in Nat
    BY <1>0, ReachRange, AgeRange
  <2>3. Reach(u)' \in Nat
    <3>1. epoch' \in Nat
      BY DEF TypeOK
    <3>2. Reach(u)' = epoch' + 1 \/ Reach(u)' = epoch'
      BY DEF Reach
    <3> QED
      BY <3>1, <3>2
  <2>4. Reach(u)' <= Reach(u) /\ EpochsRead(s, i)' = EpochsRead(s, i) /\ local'[s].epoch = local[s].epoch
    BY <1>1
  <2> QED
    BY <1>n, <2>1, <2>2, <2>3, <2>4
<1>2. ASSUME NEW t \in Thread, ReadEpoch(t) PROVE Aged'
  <2>1. UNCHANGED <<window, bags, index, epoch, announced, checked>>
    BY <1>2 DEF ReadEpoch, Step, client, limbo, counters
  <2>2. local'[t] = [epoch |-> epoch, quiescent |-> FALSE] /\ \A s \in Thread \ {t} : local'[s] = local[s]
    BY <1>0, <1>2 DEF ReadEpoch, TypeOK
  <2>3. pc[t] = "idle" /\ \A s \in Thread \ {t} : pc'[s] = pc[s]
    BY <1>0, <1>2 DEF ReadEpoch, Step, Move, TypeOK
  <2>4. CASE local[t] = [epoch |-> epoch, quiescent |-> FALSE]
    <3>1. pc'[t] = "announce"
      BY <1>0, <1>2, <2>4 DEF ReadEpoch, Step, Move, TypeOK
    <3>2. \A s \in Thread : Rotating(s)' <=> Rotating(s)
      BY <2>3, <3>1 DEF Rotating
    <3>3. \A s \in Thread : local'[s].epoch = local[s].epoch
      BY <2>2, <2>4
    <3>4. \A u \in Thread : Reach(u)' = Reach(u)
      BY <2>1, <3>2, <3>3 DEF Reach, HasPassed
    <3>5. \A s \in Thread, i \in EpochBag : EpochsRead(s, i)' = EpochsRead(s, i)
      BY <2>1, <3>2 DEF EpochsRead, Age
    <3>6. \A u \in Thread : Reach(u) \in Nat
      BY <1>0, ReachRange
    <3> QED
      BY <1>1, <2>1, <3>3, <3>4, <3>5, <3>6
  <2>5. CASE local[t] # [epoch |-> epoch, quiescent |-> FALSE]
    <3>1. pc'[t] = "announce.rotate"
      BY <1>0, <1>2, <2>5 DEF ReadEpoch, Step, Move, TypeOK
    <3>2. Rotating(t)' /\ ~Rotating(t) /\ \A s \in Thread \ {t} : Rotating(s)' <=> Rotating(s)
      BY <2>3, <3>1 DEF Rotating
    <3>3. ASSUME NEW u \in Thread PROVE Reach(u)' <= Reach(u) /\ Reach(u)' \in Nat
      <4>1. \A s \in Thread : local'[s].epoch = epoch /\ HasPassed(s, u)' => local[s].epoch = epoch /\ HasPassed(s, u)
        BY <2>1, <2>2, <3>2 DEF HasPassed
      <4> QED
        BY <1>n, <2>1, <4>1 DEF Reach
    <3>4. ASSUME NEW s \in Thread, NEW u \in Thread, NEW i \in EpochBag,
                 window[u] \cap bags[s][i] # {}, EpochsRead(s, i)' >= 1
          PROVE  local'[s].epoch + 2 >= Reach(u)' + EpochsRead(s, i)'
      <4>1. Reach(u) \in Nat /\ Reach(u) <= epoch + 1 /\ EpochsRead(s, i) \in Nat
        BY <1>0, ReachRange, AgeRange
      <4>2. Reach(u)' <= Reach(u) /\ Reach(u)' \in Nat
        BY <3>3
      <4>3. CASE s # t
        <5>1. EpochsRead(s, i)' = EpochsRead(s, i)
          BY <2>1, <3>2, <4>3 DEF EpochsRead, Age
        <5>2. local[s].epoch + 2 >= Reach(u) + EpochsRead(s, i)
          BY <1>0, <3>4, <5>1 DEF Aged
        <5> QED
          BY <1>n, <2>2, <4>1, <4>2, <4>3, <5>1, <5>2
      <4>4. CASE s = t
        <5>1. EpochsRead(t, i)' = EpochsRead(t, i) + 1
          BY <2>1, <3>2 DEF EpochsRead, Age
        <5>2. ~local[t].quiescent
          BY <1>0, <3>4, <4>4 DEF Behind
        <5>3. local[t].epoch # epoch
          <6>1. local[t] \in Announcement
            BY <1>0 DEF TypeOK
          <6> QED
            BY <2>5, <5>2, <6>1 DEF Announcement
        <5>4. local[t].epoch + 1 <= epoch
          BY <1>0, <1>n, <5>3 DEF Behind
        <5>5. local'[t].epoch = epoch
          BY <2>2
        <5>6. CASE EpochsRead(t, i) = 0
          BY <1>n, <4>1, <4>2, <4>4, <5>1, <5>5, <5>6
        <5>7. CASE EpochsRead(t, i) >= 1
          <6>1. local[t].epoch + 2 >= Reach(u) + EpochsRead(t, i)
            BY <1>0, <3>4, <4>4, <5>7 DEF Aged
          <6> QED
            BY <1>n, <4>1, <4>2, <4>4, <5>1, <5>4, <5>5, <6>1
        <5> QED
          BY <4>1, <4>4, <5>6, <5>7
      <4> QED
        BY <4>3, <4>4
    <3> QED
      BY <2>1, <3>4 DEF Aged
  <2> QED
    BY <2>4, <2>5
<1>3. ASSUME NEW t \in Thread, Announce(t) PROVE Aged'
  <2>1. UNCHANGED <<window, bags, index, epoch, local, checked>>
    BY <1>3 DEF Announce, Step, client, limbo, counters
  <2>2. \A s \in Thread : Rotating(s)' <=> Rotating(s)
    BY <1>0, <1>3 DEF Announce, Step, Move, TypeOK, Rotating
  <2>3. \A u \in Thread \ {t} : announced'[u] = announced[u]
    BY <1>0, <1>3 DEF Announce, TypeOK
  <2>4. window[t] = {}
    BY <1>0, <1>3 DEF Announce, Step, Move, Phases, Within
  <2>5. \A u \in Thread \ {t} : Reach(u)' = Reach(u)
    BY <2>1, <2>2, <2>3 DEF Reach, HasPassed
  <2>6. \A s \in Thread, i \in EpochBag : EpochsRead(s, i)' = EpochsRead(s, i)
    BY <2>1, <2>2 DEF EpochsRead, Age
  <2>7. \A u \in Thread : Reach(u) \in Nat
    BY <1>0, ReachRange
  <2> QED
    BY <1>1, <2>1, <2>4, <2>5, <2>6, <2>7
<1>4. ASSUME NEW t \in Thread, RotateEpochBags(t) PROVE Aged'
  <2> DEFINE next == (index[t] + 1) % 3
  <2>1. UNCHANGED <<window, epoch, announced, local>>
    BY <1>4 DEF RotateEpochBags
  <2>2. pc[t] = "rotate" /\ pc'[t] = "scan" /\ \A s \in Thread \ {t} : pc'[s] = pc[s]
    BY <1>0, <1>4 DEF RotateEpochBags, Move, TypeOK
  <2>3. checked'[t] = 0 /\ \A s \in Thread \ {t} : checked'[s] = checked[s]
    BY <1>0, <1>4 DEF RotateEpochBags, TypeOK
  <2>4. index'[t] = next /\ \A s \in Thread \ {t} : index'[s] = index[s]
    BY <1>0, <1>4 DEF RotateEpochBags, TypeOK
  <2>5. next \in EpochBag
    BY <1>0, NextBag DEF TypeOK
  <2>6. \A s \in Thread, i \in EpochBag : bags'[s][i] \subseteq bags[s][i]
    BY <1>0, <1>4, <2>5 DEF RotateEpochBags, TypeOK
  <2>7. ASSUME NEW u \in Thread PROVE Reach(u)' <= Reach(u)
    <3>1. ~ (u < 0)
      BY DEF Thread
    <3>2. \A s \in Thread : HasPassed(s, u)' => HasPassed(s, u)
      BY <2>2, <2>3, <3>1 DEF HasPassed, Rotating
    <3> QED
      BY <1>n, <2>1, <3>2 DEF Reach
  <2>8. ASSUME NEW s \in Thread, NEW i \in EpochBag, EpochsRead(s, i)' >= 1
        PROVE  EpochsRead(s, i)' = EpochsRead(s, i)
    <3>1. CASE s # t
      BY <2>2, <2>4, <3>1 DEF EpochsRead, Age, Rotating
    <3>2. CASE s = t
      <4>1. i # next
        BY <2>2, <2>4, <2>8, <3>2 DEF EpochsRead, Age, Rotating
      <4>2. Age(t, i)' = Age(t, i) + 1
        BY <1>0, <2>4, <4>1, AgeAfterRotation
      <4>3. Age(t, i) \in Nat
        BY AgeRange
      <4> QED
        BY <2>2, <3>2, <4>2, <4>3 DEF EpochsRead, Rotating
    <3> QED
      BY <3>1, <3>2
  <2> QED
    BY <1>1, <2>1, <2>6, <2>7, <2>8
<1>5. ASSUME NEW t \in Thread,
             \A u \in Thread : \/ window'[u] \subseteq window[u]
                               \/ u = t /\ window'[u] = linked,
             \A s \in Thread, i \in EpochBag : bags'[s][i] \subseteq bags[s][i] \/ EpochsRead(s, i)' = 0,
             UNCHANGED <<epoch, announced, local, index>>,
             \A s \in Thread : Rotating(s)' <=> Rotating(s),
             \A s \in Thread \ {t} : checked'[s] = checked[s],
             checked'[t] = checked[t] \/ (Passes(t, checked[t]) /\ checked'[t] = checked[t] + 1)
      PROVE  Aged'
  <2>1. \A u \in Thread : window[u] = {} \/ Reach(u)' <= Reach(u)
    BY <1>0, <1>5, Passing
  <2>2. \A s \in Thread, i \in EpochBag : linked \cap bags[s][i] = {}
    BY <1>0 DEF OnePlace
  <2>3. \A s, u \in Thread, i \in EpochBag :
          window'[u] \cap bags'[s][i] # {} /\ EpochsRead(s, i)' >= 1
            => window[u] \cap bags[s][i] # {} /\ Reach(u)' <= Reach(u)
    BY <1>5, <2>1, <2>2
  <2>4. \A s \in Thread, i \in EpochBag : EpochsRead(s, i)' = EpochsRead(s, i)
    BY <1>5 DEF EpochsRead, Age
  <2> QED
    BY <1>1, <1>5, <2>3, <2>4
<1>6. ASSUME NEW t \in Thread, SkipScan(t) PROVE Aged'
  <2>1. UNCHANGED <<epoch, announced, local, index, bags, checked>>
    BY <1>6 DEF SkipScan, limbo
  <2>2. \A s \in Thread : Rotating(s)' <=> Rotating(s)
    BY <1>0, <1>6 DEF SkipScan, Enter, Move, TypeOK, Rotating
  <2>3. window'[t] = linked /\ \A u \in Thread \ {t} : window'[u] = window[u]
    BY <1>0, <1>6 DEF SkipScan, Enter, Promise!BeginOp, TypeOK
  <2> QED
    BY <1>5, <2>1, <2>2, <2>3
<1>7. ASSUME NEW t \in Thread, Scan(t) PROVE Aged'
  <2>1. /\ UNCHANGED <<epoch, announced, local, index, bags>>
        /\ Enter(t, "scan") \/ Step(t, "scan", "advance")
        /\ \/ checked' = checked
           \/ Passes(t, checked[t]) /\ checked' = [checked EXCEPT ![t] = checked[t] + 1]
    BY <1>0, <1>7, ScanEffect
  <2>2. \A s \in Thread : Rotating(s)' <=> Rotating(s)
    BY <1>0, <2>1 DEF Enter, Step, Move, TypeOK, Rotating
  <2>3. \A u \in Thread : window'[u] \subseteq window[u] \/ (u = t /\ window'[u] = linked)
    BY <1>0, <2>1 DEF Enter, Step, client, Promise!BeginOp, TypeOK
  <2>4. /\ \A s \in Thread \ {t} : checked'[s] = checked[s]
        /\ checked'[t] = checked[t] \/ (Passes(t, checked[t]) /\ checked'[t] = checked[t] + 1)
    BY <1>0, <2>1 DEF TypeOK
  <2> QED
    BY <1>5, <2>1, <2>2, <2>3, <2>4
<1>8. ASSUME NEW t \in Thread, RetireScan(t) PROVE Aged'
  <2>1. /\ UNCHANGED <<window, epoch, announced, local, index, bags>>
        /\ \/ Move(t, "retire.scan", "retire.advance") \/ Move(t, "retire.scan", "in") \/ UNCHANGED pc
        /\ \/ checked' = checked
           \/ Passes(t, checked[t]) /\ checked' = [checked EXCEPT ![t] = checked[t] + 1]
    BY <1>0, <1>8, RetireScanEffect DEF client
  <2>2. \A s \in Thread : Rotating(s)' <=> Rotating(s)
    BY <1>0, <2>1 DEF Move, TypeOK, Rotating
  <2>3. /\ \A s \in Thread \ {t} : checked'[s] = checked[s]
        /\ checked'[t] = checked[t] \/ (Passes(t, checked[t]) /\ checked'[t] = checked[t] + 1)
    BY <1>0, <2>1 DEF TypeOK
  <2> QED
    BY <1>5, <2>1, <2>2, <2>3
<1>9. ASSUME NEW t \in Thread, RetireReadEpoch(t) PROVE Aged'
  <2>1. UNCHANGED <<window, epoch, announced, local, index, bags, checked>>
    BY <1>9 DEF RetireReadEpoch, Step, client, limbo, counters
  <2>2. \A s \in Thread : Rotating(s)' <=> Rotating(s)
    <3>1. \E to \in {"retire.scan", "in"} : Move(t, "retire.epoch", to)
      BY <1>9 DEF RetireReadEpoch, Step
    <3> QED
      BY <1>0, <3>1 DEF Move, TypeOK, Rotating
  <2> QED
    BY <1>5, <2>1, <2>2
<1>10. ASSUME NEW t \in Thread, Advance(t) \/ RetireAdvance(t) PROVE Aged'
  <2>1. UNCHANGED <<announced, local, index, bags, checked>>
    BY <1>10 DEF Advance, RetireAdvance, limbo, counters
  <2>2. \A s \in Thread : Rotating(s)' <=> Rotating(s)
    BY <1>0, <1>10 DEF Advance, RetireAdvance, Enter, Step, Move, TypeOK, Rotating
  <2>3. \A u \in Thread : window'[u] = window[u] \/ (u = t /\ window'[u] = linked)
    BY <1>0, <1>10 DEF Advance, RetireAdvance, Enter, Step, client, Promise!BeginOp, TypeOK
  <2>4. CASE epoch' = epoch
    BY <1>5, <2>1, <2>2, <2>3, <2>4
  <2>5. CASE epoch' # epoch
    <3>1. epoch' = epoch + 1 /\ local[t].epoch = epoch
      BY <1>10, <2>5 DEF Advance, RetireAdvance, AdvancedEpoch
    <3>2. checked[t] = NUM_PROCESSES /\ ~Rotating(t)
      BY <1>0, <1>10 DEF Advance, RetireAdvance, Enter, Step, Move, FullScan, Rotating
    <3>3. ASSUME NEW u \in Thread PROVE Reach(u)' <= Reach(u)
      <4>1. HasPassed(t, u)
        BY <3>2 DEF HasPassed, Thread
      <4>2. Reach(u) = epoch + 1
        BY <3>1, <4>1 DEF Reach
      <4>3. announced[u].epoch # epoch + 1 /\ \A s \in Thread : local[s].epoch # epoch + 1
        BY <1>0, <1>n DEF Behind
      <4>4. Reach(u)' = epoch + 1
        BY <2>1, <3>1, <4>3 DEF Reach
      <4> QED
        BY <1>n, <4>2, <4>4
    <3>4. \A s \in Thread, i \in EpochBag : EpochsRead(s, i)' = EpochsRead(s, i)
      BY <2>1, <2>2 DEF EpochsRead, Age
    <3>5. \A s \in Thread, i \in EpochBag : linked \cap bags[s][i] = {}
      BY <1>0 DEF OnePlace
    <3>6. \A s, u \in Thread, i \in EpochBag :
            window'[u] \cap bags'[s][i] # {} => window[u] \cap bags[s][i] # {}
      BY <2>1, <2>3, <3>5
    <3> QED
      BY <1>1, <2>1, <3>3, <3>4, <3>6
  <2> QED
    BY <2>4, <2>5
<1>11. ASSUME NEW t \in Thread, EndOp(t) PROVE Aged'
  <2>1. UNCHANGED <<bags, index, epoch, local, checked>>
    BY <1>11 DEF EndOp, limbo, counters
  <2>2. \A s \in Thread : Rotating(s)' <=> Rotating(s)
    BY <1>0, <1>11 DEF EndOp, Move, TypeOK, Rotating
  <2>3. \A u \in Thread \ {t} : announced'[u] = announced[u] /\ window'[u] = window[u]
    BY <1>0, <1>11 DEF EndOp, Promise!EndOp, TypeOK
  <2>4. window'[t] = {}
    BY <1>0, <1>11 DEF EndOp, Promise!EndOp, TypeOK
  <2>5. \A u \in Thread \ {t} : Reach(u)' = Reach(u)
    BY <2>1, <2>2, <2>3 DEF Reach, HasPassed
  <2>6. \A s \in Thread, i \in EpochBag : EpochsRead(s, i)' = EpochsRead(s, i)
    BY <2>1, <2>2 DEF EpochsRead, Age
  <2>7. \A u \in Thread : Reach(u) \in Nat
    BY <1>0, ReachRange
  <2> QED
    BY <1>1, <2>1, <2>3, <2>4, <2>5, <2>6, <2>7
<1>12. ASSUME NEW t \in Thread, NEW o \in Obj, Link(t, o) PROVE Aged'
  <2>1. UNCHANGED <<bags, index, epoch, announced, local, checked, pc>> /\ o \in available
    BY <1>12 DEF Link, Promise!Link, limbo, counters
  <2>2. \A u \in Thread : window'[u] \subseteq window[u] \cup {o}
    BY <1>0, <1>12 DEF Link, Promise!Link
  <2>3. \A s \in Thread, i \in EpochBag : o \notin bags[s][i]
    BY <1>0, <2>1 DEF OnePlace
  <2>4. \A u \in Thread : Reach(u)' = Reach(u) /\ Reach(u) \in Nat
    BY <1>0, <2>1, ReachRange DEF Reach, HasPassed, Rotating
  <2>5. \A s \in Thread, i \in EpochBag : EpochsRead(s, i)' = EpochsRead(s, i)
    BY <2>1 DEF EpochsRead, Age, Rotating
  <2>6. \A s, u \in Thread, i \in EpochBag :
          window'[u] \cap bags'[s][i] # {} => window[u] \cap bags[s][i] # {}
    BY <2>1, <2>2, <2>3
  <2> QED
    BY <1>1, <2>1, <2>4, <2>5, <2>6
<1>13. ASSUME NEW t \in Thread, NEW o \in Obj, Unlink(t, o) PROVE Aged'
  <2>1. UNCHANGED <<window, bags, index, epoch, announced, local, checked, pc>>
    BY <1>13 DEF Unlink, Promise!Unlink, limbo, counters
  <2> QED
    BY <1>5, <2>1 DEF Rotating
<1>14. ASSUME NEW t \in Thread, NEW o \in Obj, Retire(t, o) PROVE Aged'
  <2>1. UNCHANGED <<window, index, epoch, announced, local, checked>>
    BY <1>14 DEF Retire, Promise!Retire
  <2>2. \E to \in {"retire.epoch", "in"} : Move(t, "in", to)
    BY <1>14 DEF Retire
  <2>3. \A s \in Thread : Rotating(s)' <=> Rotating(s)
    BY <1>0, <2>2 DEF Move, TypeOK, Rotating
  <2>4. ~Rotating(t)
    BY <2>2 DEF Move, Rotating
  <2>5. index[t] \in EpochBag
    BY <1>0 DEF TypeOK
  <2>6. \A s \in Thread, i \in EpochBag : bags'[s][i] = bags[s][i] \/ (s = t /\ i = index[t])
    BY <1>0, <1>14, <2>5 DEF Retire, TypeOK
  <2>7. \A i \in EpochBag : i = index[t] => EpochsRead(t, i)' = 0
    BY <2>1, <2>3, <2>4 DEF EpochsRead, Age
  <2>8. \A s \in Thread, i \in EpochBag : bags'[s][i] \subseteq bags[s][i] \/ EpochsRead(s, i)' = 0
    BY <2>6, <2>7
  <2> QED
    BY <1>5, <2>1, <2>3, <2>8
<1>15. CASE UNCHANGED vars
  <2>1. UNCHANGED <<window, bags, index, epoch, announced, local, checked, pc>>
    BY <1>15 DEF vars, client, limbo, counters
  <2>2. \A u \in Thread : Reach(u)' = Reach(u) /\ Reach(u) \in Nat
    BY <1>0, <2>1, ReachRange DEF Reach, HasPassed, Rotating
  <2>3. \A s \in Thread, i \in EpochBag : EpochsRead(s, i)' = EpochsRead(s, i)
    BY <2>1 DEF EpochsRead, Age, Rotating
  <2> QED
    BY <1>1, <2>1, <2>2, <2>3
<1> QED
  BY <1>2, <1>3, <1>4, <1>6, <1>7, <1>8, <1>9, <1>10, <1>11, <1>12, <1>13, <1>14, <1>15 DEF Next

LEMMA InitialInvariant == NUM_PROCESSES \in Nat /\ Init => CapInv
<1> SUFFICES ASSUME NUM_PROCESSES \in Nat, Init PROVE CapInv
  OBVIOUS
<1> USE DEF Init, Promise!Init
<1>1. TypeOK
  <2>1. 0 \in EpochBag
    BY DEF EpochBag
  <2> QED
    BY <2>1 DEF TypeOK, Announcement, Before
<1>2. OnePlace
  BY DEF OnePlace
<1>3. Phases
  BY DEF Phases, Before, Within
<1>4. Behind
  BY DEF Behind
<1>5. FullScan
  <2>1. \A t \in Thread : 0 < NUM_PROCESSES
    BY DEF Thread
  <2> QED
    BY <2>1 DEF FullScan
<1>6. Aged
  BY DEF Aged
<1> QED
  BY <1>1, <1>2, <1>3, <1>4, <1>5, <1>6 DEF CapInv

(* The invariant of debracap, for any number of threads and objects, any   *)
(* block size, and scans as often as one likes.                            *)
THEOREM CapInvariance ==
  ASSUME NUM_PROCESSES \in Nat
  PROVE  Spec => []CapInv
<1>1. Init => CapInv
  BY InitialInvariant
<1>2. CapInv /\ [Next]_vars => CapInv'
  <2> SUFFICES ASSUME CapInv, [Next]_vars PROVE CapInv'
    OBVIOUS
  <2>1. TypeOK' /\ Behind'
    BY TypeStep, BehindStep DEF CapInv
  <2> QED
    BY <2>1, OnePlaceStep, PhasesStep, FullScanStep, AgedStep DEF CapInv
<1> QED
  BY <1>1, <1>2, PTL DEF Spec

(* startOp never looks at the announcement of a thread that there is not,  *)
(* although the scan of retire leaves their common place behind the last.  *)
THEOREM ScanStaysInRange ==
  ASSUME NUM_PROCESSES \in Nat
  PROVE  Spec => []ScanInRange
<1>1. CapInv => ScanInRange
  BY DEF CapInv, FullScan, ScanInRange
<1> QED
  BY <1>1, CapInvariance, PTL

-----------------------------------------------------------------------------
(* Rotating the bags reclaims what nobody can hold; whatever else a step   *)
(* does is the client's, or changes nothing that Reclamation sees.         *)
LEMMA StepImplements == CapInv /\ [Next]_vars => [Promise!Next]_(Promise!vars)
<1> SUFFICES ASSUME CapInv, [Next]_vars PROVE [Promise!Next]_(Promise!vars)
  OBVIOUS
<1>0. TypeOK /\ OnePlace /\ Phases /\ Behind /\ Aged
  BY DEF CapInv
<1>1. ASSUME NEW t \in Thread, Promise!BeginOp(t) \/ Promise!EndOp(t) PROVE Promise!Next
  BY <1>1 DEF Promise!Next
<1>2. ASSUME UNCHANGED client PROVE UNCHANGED Promise!vars
  BY <1>2 DEF client, Promise!vars
<1>3. ASSUME NEW t \in Thread, ReadEpoch(t) \/ Announce(t) \/ RetireReadEpoch(t) \/ RetireAdvance(t)
      PROVE  UNCHANGED client
  BY <1>3 DEF ReadEpoch, Announce, RetireReadEpoch, RetireAdvance, Step
<1>4. ASSUME NEW t \in Thread, SkipScan(t) \/ Advance(t) \/ EndOp(t)
      PROVE  Promise!BeginOp(t) \/ Promise!EndOp(t)
  BY <1>4 DEF SkipScan, Advance, EndOp, Enter
<1>5. ASSUME NEW t \in Thread, Scan(t) PROVE Promise!BeginOp(t) \/ UNCHANGED client
  BY <1>0, <1>5, ScanEffect DEF Enter, Step
<1>6. ASSUME NEW t \in Thread, RetireScan(t) PROVE UNCHANGED client
  BY <1>0, <1>6, RetireScanEffect
<1>7. ASSUME NEW t \in Thread, NEW o \in Obj, Link(t, o) \/ Unlink(t, o) \/ Retire(t, o)
      PROVE  Promise!Next
  BY <1>7 DEF Link, Unlink, Retire, Promise!Next
<1>8. ASSUME NEW t \in Thread, RotateEpochBags(t) PROVE Promise!Next
  <2> DEFINE next == (index[t] + 1) % 3
             old == bags[t][next]
  <2>1. next \in EpochBag /\ next # index[t]
    BY <1>0, NextBag DEF TypeOK
  <2>2. PICK left \in SUBSET old : available' = available \cup (old \ left)
    BY <1>8 DEF RotateEpochBags
  <2>3. UNCHANGED <<linked, pending, window, inOp>>
    BY <1>8 DEF RotateEpochBags
  <2>4. EpochsRead(t, next) = 3
    BY <1>8, <2>1 DEF RotateEpochBags, Move, EpochsRead, Age, Rotating
  <2> HIDE DEF next
  <2>5. ASSUME NEW u \in Thread PROVE window[u] \cap old = {}
    <3>1. SUFFICES ASSUME window[u] \cap old # {} PROVE FALSE
      OBVIOUS
    <3>2. local[t].epoch + 2 >= Reach(u) + 3
      BY <1>0, <2>1, <2>4, <3>1 DEF Aged
    <3>3. local[t].epoch <= epoch /\ local[t].epoch \in Nat /\ epoch \in Nat
      BY <1>0 DEF Behind, TypeOK, Announcement
    <3>4. Reach(u) \in Nat /\ epoch <= Reach(u)
      BY <1>0, ReachRange
    <3> QED
      BY <3>2, <3>3, <3>4
  <2>6. old \subseteq Obj
    BY <1>0, <2>1 DEF TypeOK
  <2>7. old \subseteq Promise!Retired
    BY <1>0, <2>1, <2>6 DEF OnePlace, Promise!Retired
  <2>8. Promise!Reclaim(old \ left)
    BY <2>2, <2>3, <2>5, <2>7 DEF Promise!Reclaim
  <2> QED
    BY <2>6, <2>8 DEF Promise!Next
<1>9. CASE UNCHANGED vars
  BY <1>2, <1>9 DEF vars
<1> QED
  BY <1>1, <1>2, <1>3, <1>4, <1>5, <1>6, <1>7, <1>8, <1>9 DEF Next

(* Debracap implements the promise that the data structures rely on: what  *)
(* rotateEpochBags frees was unlinked before every operation in progress.  *)
THEOREM Implementation ==
  ASSUME NUM_PROCESSES \in Nat
  PROVE  Spec => PromiseKept
<1>1. Init => Promise!Init
  BY DEF Init
<1> QED
  BY <1>1, StepImplements, CapInvariance, PTL DEF Spec, PromiseKept, Promise!Spec

-----------------------------------------------------------------------------
(* The token.                                                              *)

TokenStage == {"idle", "pass", "rotate", "enter", "in", "done", "gone"}

TokenTypeOK ==
  /\ linked \in SUBSET Obj
  /\ pending \in [Token!Thread -> SUBSET Obj]
  /\ available \in SUBSET Obj
  /\ window \in [Token!Thread -> SUBSET Obj]
  /\ inOp \in SUBSET Token!Thread
  /\ token \in [Token!Thread -> {0, 1}]
  /\ curr \in [Token!Thread -> SUBSET Obj]
  /\ last \in [Token!Thread -> SUBSET Obj]
  /\ pc \in [Token!Thread -> TokenStage]

Bags(t) == curr[t] \cup last[t]

(* An object is linked, available, unlinked by a thread or in one bag.     *)
TokenOnePlace ==
  /\ linked \cap available = {}
  /\ \A t \in Token!Thread : (pending[t] \cup Bags(t)) \cap (linked \cup available) = {}
  /\ \A t, u \in Token!Thread : pending[t] \cap Bags(u) = {}
  /\ \A t, u \in Token!Thread : t # u => pending[t] \cap pending[u] = {} /\ Bags(t) \cap Bags(u) = {}
  /\ \A t \in Token!Thread : curr[t] \cap last[t] = {}

(* Outside of its operations a thread can hold nothing.                    *)
TokenPhases ==
  \A t \in Token!Thread :
    /\ t \in inOp <=> pc[t] = "in"
    /\ pc[t] # "in" => window[t] = {} /\ pending[t] = {}

(* The token is one thread's, which may have taken it already.             *)
Bears(t) == token[t] = 1 \/ pc[t] = "pass"

OneToken ==
  /\ \A t, u \in Token!Thread : Bears(t) /\ Bears(u) => t = u
  /\ \A t \in Token!Thread : pc[t] = "pass" => token[t] = 0

(* How many threads there are between t and u, in the token's direction.   *)
Between(t, u) == IF u > t THEN u - t - 1 ELSE NUM_PROCESSES - 1 - t + u

(* The token has been at u since t has passed it on.                       *)
Visited(t, u) == t # u /\ \E b \in Token!Thread : Bears(b) /\ Between(t, u) < Between(t, b)

(* What t had retired when it passed the token on: no thread that the      *)
(* token has visited since can hold it.                                    *)
Passed(t) == IF pc[t] = "rotate" THEN curr[t] ELSE last[t]

TokenAged ==
  \A t, u \in Token!Thread :
    /\ Visited(t, u) => window[u] \cap Passed(t) = {}
    /\ pc[t] = "rotate" => window[u] \cap last[t] = {}

TokenInv == TokenTypeOK /\ TokenOnePlace /\ TokenPhases /\ OneToken /\ TokenAged

-----------------------------------------------------------------------------
(* The next thread, without the remainder. *)
LEMMA NextThread ==
  ASSUME NUM_PROCESSES \in Nat \ {0}, NEW t \in Token!Thread
  PROVE  /\ t = NUM_PROCESSES - 1 => (t + 1) % NUM_PROCESSES = 0
         /\ t # NUM_PROCESSES - 1 => (t + 1) % NUM_PROCESSES = t + 1
         /\ (t + 1) % NUM_PROCESSES \in Token!Thread
<1>1. ASSUME t = NUM_PROCESSES - 1 PROVE (t + 1) % NUM_PROCESSES = 0
  <2>1. NUM_PROCESSES % NUM_PROCESSES = 0
    OBVIOUS
  <2> QED
    BY <1>1, <2>1 DEF Token!Thread
<1>2. ASSUME t # NUM_PROCESSES - 1
      PROVE  (t + 1) % NUM_PROCESSES = t + 1 /\ t + 1 \in Token!Thread
  BY <1>2 DEF Token!Thread
<1>3. 0 \in Token!Thread
  BY DEF Token!Thread
<1> QED
  BY <1>1, <1>2, <1>3

(* Seen from s, the thread after t is one further away than t, and it is   *)
(* the nearest one when t is s itself.  All other threads are nearer to s  *)
(* than s is after a whole round, and no two are equally far.              *)
LEMMA Distances ==
  ASSUME NUM_PROCESSES \in Nat \ {0}, NEW s \in Token!Thread, NEW t \in Token!Thread, NEW u \in Token!Thread
  PROVE  /\ t # s => Between(s, (t + 1) % NUM_PROCESSES) = Between(s, t) + 1
         /\ s # u => ~ (Between(s, u) < Between(s, (s + 1) % NUM_PROCESSES))
         /\ s # u => Between(s, u) < Between(s, s)
         /\ Between(s, u) = Between(s, t) => u = t
         /\ Between(s, t) \in Nat
<1>1. NUM_PROCESSES \in Nat \ {0} /\ s \in Nat /\ t \in Nat /\ u \in Nat
      /\ s < NUM_PROCESSES /\ t < NUM_PROCESSES /\ u < NUM_PROCESSES
  BY DEF Token!Thread
<1>2. ASSUME t # s PROVE Between(s, (t + 1) % NUM_PROCESSES) = Between(s, t) + 1
  <2>1. CASE t = NUM_PROCESSES - 1
    BY <1>1, <1>2, <2>1, NextThread DEF Between
  <2>2. CASE t # NUM_PROCESSES - 1
    BY SMTT(20), <1>1, <1>2, <2>2, NextThread DEF Between
  <2> QED
    BY <2>1, <2>2
<1>3. ASSUME s # u PROVE ~ (Between(s, u) < Between(s, (s + 1) % NUM_PROCESSES))
  <2>1. CASE s = NUM_PROCESSES - 1
    BY <1>1, <1>3, <2>1, NextThread DEF Between
  <2>2. CASE s # NUM_PROCESSES - 1
    BY <1>1, <1>3, <2>2, NextThread DEF Between
  <2> QED
    BY <2>1, <2>2
<1>4. s # u => Between(s, u) < Between(s, s)
  BY <1>1 DEF Between
<1>5. Between(s, u) = Between(s, t) => u = t
  BY <1>1 DEF Between
<1>6. Between(s, t) \in Nat
  BY <1>1 DEF Between
<1> QED
  BY <1>2, <1>3, <1>4, <1>5, <1>6

-----------------------------------------------------------------------------
LEMMA TokenTypeStep == NUM_PROCESSES \in Nat \ {0} /\ TokenTypeOK /\ [Token!Next]_Token!vars => TokenTypeOK'
<1> SUFFICES ASSUME NUM_PROCESSES \in Nat \ {0}, TokenTypeOK, [Token!Next]_Token!vars PROVE TokenTypeOK'
  OBVIOUS
<1> USE DEF TokenTypeOK, Token!Move, Token!client, Token!Promise!BeginOp, Token!Promise!EndOp
<1>1. ASSUME NEW t \in Token!Thread, Token!StartOp(t) \/ Token!Enter(t) PROVE TokenTypeOK'
  BY <1>1 DEF Token!StartOp, Token!Enter, TokenStage
<1>2. ASSUME NEW t \in Token!Thread, Token!TakeToken(t) \/ Token!Finish(t) PROVE TokenTypeOK'
  BY <1>2 DEF Token!TakeToken, Token!Finish, TokenStage
<1>3. ASSUME NEW t \in Token!Thread, Token!PassToken(t) PROVE TokenTypeOK'
  BY <1>3, NextThread DEF Token!PassToken, TokenStage
<1>4. ASSUME NEW t \in Token!Thread, Token!RotateEpochBags(t) PROVE TokenTypeOK'
  BY <1>4 DEF Token!RotateEpochBags, TokenStage
<1>5. ASSUME NEW t \in Token!Thread, Token!EndOp(t) PROVE TokenTypeOK'
  BY <1>5 DEF Token!EndOp, TokenStage
<1>6. ASSUME NEW t \in Token!Thread, Token!DeinitThread(t) PROVE TokenTypeOK'
  BY <1>6 DEF Token!DeinitThread, TokenStage
<1>7. ASSUME NEW t \in Token!Thread, NEW o \in Obj, Token!Link(t, o) PROVE TokenTypeOK'
  BY <1>7 DEF Token!Link, Token!Promise!Link
<1>8. ASSUME NEW t \in Token!Thread, NEW o \in Obj, Token!Unlink(t, o) PROVE TokenTypeOK'
  BY <1>8 DEF Token!Unlink, Token!Promise!Unlink
<1>9. ASSUME NEW t \in Token!Thread, NEW o \in Obj, Token!Retire(t, o) PROVE TokenTypeOK'
  BY <1>9 DEF Token!Retire, Token!Promise!Retire
<1>10. CASE UNCHANGED Token!vars
  BY <1>10 DEF Token!vars
<1> QED
  BY <1>1, <1>2, <1>3, <1>4, <1>5, <1>6, <1>7, <1>8, <1>9, <1>10 DEF Token!Next, Token!Starting

LEMMA TokenPhasesStep == TokenInv /\ [Token!Next]_Token!vars => TokenPhases'
<1> SUFFICES ASSUME TokenInv, [Token!Next]_Token!vars PROVE TokenPhases'
  OBVIOUS
<1> USE DEF TokenInv, TokenTypeOK, TokenPhases, Token!Move, Token!client, Token!Promise!BeginOp, Token!Promise!EndOp
<1>1. ASSUME NEW t \in Token!Thread, Token!StartOp(t) \/ Token!Enter(t) PROVE TokenPhases'
  BY <1>1 DEF Token!StartOp, Token!Enter
<1>2. ASSUME NEW t \in Token!Thread, Token!TakeToken(t) \/ Token!Finish(t) PROVE TokenPhases'
  BY <1>2 DEF Token!TakeToken, Token!Finish
<1>3. ASSUME NEW t \in Token!Thread, Token!PassToken(t) PROVE TokenPhases'
  BY <1>3 DEF Token!PassToken
<1>4. ASSUME NEW t \in Token!Thread, Token!RotateEpochBags(t) PROVE TokenPhases'
  BY <1>4 DEF Token!RotateEpochBags
<1>5. ASSUME NEW t \in Token!Thread, Token!EndOp(t) PROVE TokenPhases'
  BY <1>5 DEF Token!EndOp
<1>6. ASSUME NEW t \in Token!Thread, Token!DeinitThread(t) PROVE TokenPhases'
  BY <1>6 DEF Token!DeinitThread
<1>7. ASSUME NEW t \in Token!Thread, NEW o \in Obj, Token!Link(t, o) PROVE TokenPhases'
  BY <1>7 DEF Token!Link, Token!Promise!Link
<1>8. ASSUME NEW t \in Token!Thread, NEW o \in Obj, Token!Unlink(t, o) PROVE TokenPhases'
  BY <1>8 DEF Token!Unlink, Token!Promise!Unlink
<1>9. ASSUME NEW t \in Token!Thread, NEW o \in Obj, Token!Retire(t, o) PROVE TokenPhases'
  BY <1>9 DEF Token!Retire, Token!Promise!Retire
<1>10. CASE UNCHANGED Token!vars
  BY <1>10 DEF Token!vars
<1> QED
  BY <1>1, <1>2, <1>3, <1>4, <1>5, <1>6, <1>7, <1>8, <1>9, <1>10 DEF Token!Next, Token!Starting

LEMMA OneTokenStep == NUM_PROCESSES \in Nat \ {0} /\ TokenInv /\ [Token!Next]_Token!vars => OneToken'
<1> SUFFICES ASSUME NUM_PROCESSES \in Nat \ {0}, TokenInv, [Token!Next]_Token!vars PROVE OneToken'
  OBVIOUS
<1> USE DEF TokenInv, TokenTypeOK, OneToken, Bears, Token!Move
<1>1. ASSUME NEW t \in Token!Thread,
             Token!StartOp(t) \/ Token!Enter(t) \/ Token!RotateEpochBags(t) \/ Token!EndOp(t)
             \/ Token!Finish(t) \/ Token!DeinitThread(t)
      PROVE  OneToken'
  <2>1. token' = token
    BY <1>1 DEF Token!StartOp, Token!Enter, Token!RotateEpochBags, Token!EndOp, Token!Finish, Token!DeinitThread
  <2>2. \A u \in Token!Thread : pc'[u] = "pass" <=> pc[u] = "pass"
    BY <1>1 DEF Token!StartOp, Token!Enter, Token!RotateEpochBags, Token!EndOp, Token!Finish, Token!DeinitThread
  <2> QED
    BY <2>1, <2>2
<1>2. ASSUME NEW t \in Token!Thread, Token!TakeToken(t) PROVE OneToken'
  BY <1>2 DEF Token!TakeToken
<1>3. ASSUME NEW t \in Token!Thread, Token!PassToken(t) PROVE OneToken'
  BY <1>3, NextThread DEF Token!PassToken
<1>4. ASSUME NEW t \in Token!Thread, NEW o \in Obj, Token!Link(t, o) \/ Token!Unlink(t, o) \/ Token!Retire(t, o)
      PROVE  OneToken'
  BY <1>4 DEF Token!Link, Token!Unlink, Token!Retire
<1>5. CASE UNCHANGED Token!vars
  BY <1>5 DEF Token!vars
<1> QED
  BY <1>1, <1>2, <1>3, <1>4, <1>5 DEF Token!Next, Token!Starting

(* Every object stays in one place, and goes from one to the next whole. *)
LEMMA TokenOnePlaceStep == TokenInv /\ [Token!Next]_Token!vars => TokenOnePlace'
<1> SUFFICES ASSUME TokenInv, [Token!Next]_Token!vars PROVE TokenOnePlace'
  OBVIOUS
<1> USE DEF TokenInv, TokenTypeOK, TokenOnePlace, Bags, Token!client
<1>1. ASSUME UNCHANGED <<linked, pending, available, curr, last>> PROVE TokenOnePlace'
  BY <1>1
<1>2. ASSUME NEW t \in Token!Thread, Token!StartOp(t) \/ Token!Enter(t) PROVE TokenOnePlace'
  BY <1>1, <1>2 DEF Token!StartOp, Token!Enter, Token!Promise!BeginOp
<1>3. ASSUME NEW t \in Token!Thread, Token!TakeToken(t) \/ Token!PassToken(t) \/ Token!Finish(t) PROVE TokenOnePlace'
  BY <1>1, <1>3 DEF Token!TakeToken, Token!PassToken, Token!Finish
<1>4. ASSUME NEW t \in Token!Thread, Token!EndOp(t) PROVE TokenOnePlace'
  BY <1>1, <1>4 DEF Token!EndOp, Token!Promise!EndOp
<1>5. ASSUME NEW t \in Token!Thread, Token!RotateEpochBags(t) PROVE TokenOnePlace'
  <2>1. PICK left \in SUBSET last[t] :
          /\ available' = available \cup (last[t] \ left)
          /\ curr' = [curr EXCEPT ![t] = left]
          /\ last' = [last EXCEPT ![t] = curr[t]]
    BY <1>5 DEF Token!RotateEpochBags
  <2>2. linked' = linked /\ pending' = pending
    BY <1>5 DEF Token!RotateEpochBags
  <2>3. curr'[t] = left /\ last'[t] = curr[t]
    BY <2>1
  <2>4. \A u \in Token!Thread \ {t} : curr'[u] = curr[u] /\ last'[u] = last[u]
    BY <2>1
  <2>5. \A u \in Token!Thread : Bags(u)' \subseteq Bags(u)
    BY <2>3, <2>4
  <2>6. (last[t] \ left) \cap Bags(t)' = {}
    BY <2>3
  <2>7. \A u \in Token!Thread : (last[t] \ left) \cap Bags(u)' = {}
    BY <2>4, <2>6
  <2>8. \A u \in Token!Thread : (last[t] \ left) \cap pending[u] = {}
    OBVIOUS
  <2>9. (linked \cap available = {})' /\ \A u \in Token!Thread : ((pending[u] \cup Bags(u)) \cap (linked \cup available) = {})'
    BY <2>1, <2>2, <2>5, <2>7, <2>8
  <2>10. \A u, v \in Token!Thread : u # v => (pending[u] \cap pending[v] = {} /\ Bags(u) \cap Bags(v) = {})'
    BY <2>2, <2>5
  <2>11. \A u \in Token!Thread : (curr[u] \cap last[u] = {})'
    BY <2>3, <2>4
  <2>12. \A u, v \in Token!Thread : (pending[u] \cap Bags(v) = {})'
    BY <2>2, <2>5
  <2> QED
    BY <2>9, <2>10, <2>11, <2>12
<1>6. ASSUME NEW t \in Token!Thread, Token!DeinitThread(t) PROVE TokenOnePlace'
  <2>1. curr'[t] = {} /\ last'[t] = {} /\ \A u \in Token!Thread \ {t} : curr'[u] = curr[u] /\ last'[u] = last[u]
    BY <1>6 DEF Token!DeinitThread
  <2>2. available' = available \cup Bags(t) /\ linked' = linked /\ pending' = pending
    BY <1>6 DEF Token!DeinitThread
  <2> QED
    BY <2>1, <2>2
<1>7. ASSUME NEW t \in Token!Thread, NEW o \in Obj, Token!Link(t, o) PROVE TokenOnePlace'
  BY <1>7 DEF Token!Link, Token!Promise!Link
<1>8. ASSUME NEW t \in Token!Thread, NEW o \in Obj, Token!Unlink(t, o) PROVE TokenOnePlace'
  <2>1. /\ o \in linked /\ linked' = linked \ {o}
        /\ UNCHANGED <<available, curr, last>>
    BY <1>8 DEF Token!Unlink, Token!Promise!Unlink
  <2>2. pending'[t] = pending[t] \cup {o} /\ \A u \in Token!Thread \ {t} : pending'[u] = pending[u]
    BY <1>8 DEF Token!Unlink, Token!Promise!Unlink
  <2> QED
    BY <2>1, <2>2
<1>9. ASSUME NEW t \in Token!Thread, NEW o \in Obj, Token!Retire(t, o) PROVE TokenOnePlace'
  <2>1. o \in pending[t] /\ UNCHANGED <<linked, available, last>>
    BY <1>9 DEF Token!Retire, Token!Promise!Retire
  <2>2. pending'[t] = pending[t] \ {o} /\ \A u \in Token!Thread \ {t} : pending'[u] = pending[u]
    BY <1>9 DEF Token!Retire, Token!Promise!Retire
  <2>3. curr'[t] = curr[t] \cup {o} /\ \A u \in Token!Thread \ {t} : curr'[u] = curr[u]
    BY <1>9 DEF Token!Retire
  <2> QED
    BY <2>1, <2>2, <2>3
<1>10. CASE UNCHANGED Token!vars
  BY <1>1, <1>10 DEF Token!vars
<1> QED
  BY <1>2, <1>3, <1>4, <1>5, <1>6, <1>7, <1>8, <1>9, <1>10 DEF Token!Next, Token!Starting

(* When the bearer passes the token on, it has been everywhere: nobody can *)
(* hold what the bearer had retired a round ago.                           *)
LEMMA TokenAgedStep == NUM_PROCESSES \in Nat \ {0} /\ TokenInv /\ [Token!Next]_Token!vars => TokenAged'
<1> SUFFICES ASSUME NUM_PROCESSES \in Nat \ {0}, TokenInv, [Token!Next]_Token!vars PROVE TokenAged'
  OBVIOUS
<1>0. TokenTypeOK /\ TokenOnePlace /\ TokenPhases /\ OneToken /\ TokenAged
  BY DEF TokenInv
<1>1. ASSUME \A u \in Token!Thread : window'[u] \subseteq window[u],
             \A u \in Token!Thread : Passed(u)' = Passed(u),
             \A u \in Token!Thread : Bears(u)' <=> Bears(u),
             \A u \in Token!Thread : pc'[u] = "rotate" => pc[u] = "rotate",
             last' = last \/ \A u \in Token!Thread : pc'[u] = "rotate" => last'[u] = last[u]
      PROVE  TokenAged'
  <2>1. \A s, u \in Token!Thread : Visited(s, u)' <=> Visited(s, u)
    BY <1>1 DEF Visited, Between
  <2> QED
    BY <1>0, <1>1, <2>1 DEF TokenAged
<1>2. ASSUME NEW t \in Token!Thread, Token!StartOp(t) \/ Token!Enter(t) PROVE TokenAged'
  <2>1. UNCHANGED <<token, curr, last, linked>>
    BY <1>2 DEF Token!StartOp, Token!Enter, Token!Promise!BeginOp
  <2>2. \A u \in Token!Thread : /\ pc'[u] = "rotate" <=> pc[u] = "rotate"
                                /\ pc'[u] = "pass" <=> pc[u] = "pass"
    BY <1>0, <1>2 DEF Token!StartOp, Token!Enter, Token!Move, TokenTypeOK
  <2>3. window'[t] = linked /\ \A u \in Token!Thread \ {t} : window'[u] = window[u]
    BY <1>0, <1>2 DEF Token!StartOp, Token!Enter, Token!Promise!BeginOp, TokenTypeOK
  <2>4. \A s, u \in Token!Thread : Visited(s, u)' <=> Visited(s, u)
    BY <2>1, <2>2 DEF Visited, Bears, Between
  <2>5. \A s \in Token!Thread : Passed(s)' = Passed(s)
    BY <2>1, <2>2 DEF Passed
  <2>6. \A s \in Token!Thread : linked \cap Passed(s) = {} /\ linked \cap last[s] = {}
    BY <1>0 DEF TokenOnePlace, Bags, Passed
  <2> QED
    BY <1>0, <2>1, <2>2, <2>3, <2>4, <2>5, <2>6 DEF TokenAged
<1>3. ASSUME NEW t \in Token!Thread, Token!TakeToken(t) \/ Token!Finish(t) PROVE TokenAged'
  <2>1. UNCHANGED <<window, curr, last>>
    BY <1>3 DEF Token!TakeToken, Token!Finish, Token!client
  <2>2. \A u \in Token!Thread : pc'[u] = "rotate" <=> pc[u] = "rotate"
    BY <1>0, <1>3 DEF Token!TakeToken, Token!Finish, Token!Move, TokenTypeOK
  <2>3. \A u \in Token!Thread : Bears(u)' <=> Bears(u)
    BY <1>0, <1>3 DEF Token!TakeToken, Token!Finish, Token!Move, TokenTypeOK, Bears
  <2> QED
    BY <1>1, <2>1, <2>2, <2>3 DEF Passed
<1>4. ASSUME NEW t \in Token!Thread, Token!PassToken(t) PROVE TokenAged'
  <2> DEFINE n == (t + 1) % NUM_PROCESSES
  <2>1. n \in Token!Thread
    BY NextThread
  <2>2. UNCHANGED <<window, curr, last>>
    BY <1>4 DEF Token!PassToken, Token!client
  <2>3. pc[t] = "pass" /\ pc'[t] = "rotate" /\ \A u \in Token!Thread \ {t} : pc'[u] = pc[u]
    BY <1>0, <1>4 DEF Token!PassToken, Token!Move, TokenTypeOK
  <2>4. token'[n] = 1 /\ \A u \in Token!Thread \ {n} : token'[u] = token[u]
    BY <1>0, <1>4, <2>1 DEF Token!PassToken, TokenTypeOK
  <2>5. \A u \in Token!Thread : Bears(u) <=> u = t
    BY <1>0, <2>3 DEF OneToken, Bears
  <2>6. \A u \in Token!Thread : Bears(u)' <=> u = n
    BY <1>0, <2>3, <2>4, <2>5 DEF OneToken, Bears
  <2>7. window[t] = {}
    BY <1>0, <2>3 DEF TokenPhases
  <2> HIDE DEF n
  <2>8. ASSUME NEW u \in Token!Thread PROVE window[u] \cap last[t] = {}
    <3>1. CASE u = t
      BY <2>7, <3>1
    <3>2. CASE u # t
      <4>1. Between(t, u) < Between(t, t)
        BY <3>2, Distances
      <4>2. Visited(t, u)
        BY <2>5, <3>2, <4>1 DEF Visited
      <4> QED
        BY <1>0, <2>3, <4>2 DEF TokenAged, Passed
    <3> QED
      BY <3>1, <3>2
  <2>9. ASSUME NEW u \in Token!Thread PROVE ~ Visited(t, u)'
    <3>1. t # u => ~ (Between(t, u) < Between(t, n))
      BY Distances DEF n
    <3> QED
      BY <2>6, <3>1 DEF Visited, Between
  <2>10. ASSUME NEW s \in Token!Thread \ {t}, NEW u \in Token!Thread, Visited(s, u)'
         PROVE  window[u] \cap Passed(s) = {}
    <3>1. s # u /\ Between(s, u) < Between(s, n)
      BY <2>6, <2>10 DEF Visited, Between
    <3>2. Between(s, n) = Between(s, t) + 1
      BY Distances DEF n
    <3>3. Between(s, u) \in Nat /\ Between(s, t) \in Nat
      BY Distances
    <3>4. CASE Between(s, u) = Between(s, t)
      BY <2>7, <3>4, Distances
    <3>5. CASE Between(s, u) # Between(s, t)
      <4>1. Between(s, u) < Between(s, t)
        BY <3>1, <3>2, <3>3, <3>5
      <4> QED
        BY <1>0, <2>5, <3>1, <4>1 DEF Visited, TokenAged
    <3> QED
      BY <3>4, <3>5
  <2>11. \A s \in Token!Thread \ {t} : Passed(s)' = Passed(s)
    BY <2>2, <2>3 DEF Passed
  <2> QED
    BY <1>0, <2>2, <2>3, <2>8, <2>9, <2>10, <2>11 DEF TokenAged
<1>5. ASSUME NEW t \in Token!Thread, Token!RotateEpochBags(t) PROVE TokenAged'
  <2>1. UNCHANGED <<window, token>>
    BY <1>5 DEF Token!RotateEpochBags
  <2>2. pc[t] = "rotate" /\ pc'[t] = "enter" /\ \A u \in Token!Thread \ {t} : pc'[u] = pc[u]
    BY <1>0, <1>5 DEF Token!RotateEpochBags, Token!Move, TokenTypeOK
  <2>3. last'[t] = curr[t] /\ \A u \in Token!Thread \ {t} : last'[u] = last[u] /\ curr'[u] = curr[u]
    BY <1>0, <1>5 DEF Token!RotateEpochBags, TokenTypeOK
  <2>4. \A u \in Token!Thread : Passed(u)' = Passed(u)
    BY <2>2, <2>3 DEF Passed
  <2>5. \A u \in Token!Thread : Bears(u)' <=> Bears(u)
    BY <2>1, <2>2 DEF Bears
  <2> QED
    BY <1>1, <2>1, <2>2, <2>3, <2>4, <2>5
<1>6. ASSUME NEW t \in Token!Thread, Token!EndOp(t) PROVE TokenAged'
  <2>1. UNCHANGED <<token, curr, last>>
    BY <1>6 DEF Token!EndOp
  <2>2. \A u \in Token!Thread : /\ pc'[u] = "rotate" <=> pc[u] = "rotate"
                                /\ pc'[u] = "pass" <=> pc[u] = "pass"
    BY <1>0, <1>6 DEF Token!EndOp, Token!Move, TokenTypeOK
  <2>3. \A u \in Token!Thread : window'[u] \subseteq window[u]
    BY <1>0, <1>6 DEF Token!EndOp, Token!Promise!EndOp, TokenTypeOK
  <2> QED
    BY <1>1, <2>1, <2>2, <2>3 DEF Passed, Bears
<1>7. ASSUME NEW t \in Token!Thread, Token!DeinitThread(t) PROVE TokenAged'
  <2>1. UNCHANGED <<token, window>>
    BY <1>7 DEF Token!DeinitThread
  <2>2. \A u \in Token!Thread : /\ pc'[u] = "rotate" <=> pc[u] = "rotate"
                                /\ pc'[u] = "pass" <=> pc[u] = "pass"
    BY <1>0, <1>7 DEF Token!DeinitThread, Token!Move, TokenTypeOK
  <2>3. \A u \in Token!Thread : curr'[u] \subseteq curr[u] /\ last'[u] \subseteq last[u]
    BY <1>0, <1>7 DEF Token!DeinitThread, TokenTypeOK
  <2>4. \A u \in Token!Thread : Passed(u)' \subseteq Passed(u)
    BY <2>2, <2>3 DEF Passed
  <2>5. \A s, u \in Token!Thread : Visited(s, u)' <=> Visited(s, u)
    BY <2>1, <2>2 DEF Visited, Bears, Between
  <2> QED
    BY <1>0, <2>1, <2>2, <2>3, <2>4, <2>5 DEF TokenAged
<1>8. ASSUME NEW t \in Token!Thread, NEW o \in Obj, Token!Link(t, o) PROVE TokenAged'
  <2>1. UNCHANGED <<token, curr, last, pc>> /\ o \in available
    BY <1>8 DEF Token!Link, Token!Promise!Link
  <2>2. \A u \in Token!Thread : window'[u] \subseteq window[u] \cup {o}
    BY <1>8 DEF Token!Link, Token!Promise!Link
  <2>3. \A s \in Token!Thread : o \notin curr[s] /\ o \notin last[s]
    BY <1>0, <2>1 DEF TokenOnePlace, Bags
  <2>4. \A s \in Token!Thread : Passed(s)' = Passed(s) /\ o \notin Passed(s)
    BY <2>1, <2>3 DEF Passed
  <2>5. \A s, u \in Token!Thread : Visited(s, u)' <=> Visited(s, u)
    BY <2>1 DEF Visited, Bears, Between
  <2> QED
    BY <1>0, <2>1, <2>2, <2>3, <2>4, <2>5 DEF TokenAged
<1>9. ASSUME NEW t \in Token!Thread, NEW o \in Obj, Token!Unlink(t, o) PROVE TokenAged'
  BY <1>1, <1>9 DEF Token!Unlink, Token!Promise!Unlink, Passed, Bears
<1>10. ASSUME NEW t \in Token!Thread, NEW o \in Obj, Token!Retire(t, o) PROVE TokenAged'
  <2>1. UNCHANGED <<window, token, last, pc>> /\ o \in pending[t]
    BY <1>10 DEF Token!Retire, Token!Promise!Retire
  <2>2. pc[t] # "rotate"
    BY <1>0, <2>1 DEF TokenPhases
  <2>3. \A u \in Token!Thread \ {t} : curr'[u] = curr[u]
    BY <1>0, <1>10 DEF Token!Retire, TokenTypeOK
  <2>4. \A u \in Token!Thread : Passed(u)' = Passed(u)
    BY <2>1, <2>2, <2>3 DEF Passed
  <2> QED
    BY <1>1, <2>1, <2>4 DEF Bears
<1>11. CASE UNCHANGED Token!vars
  BY <1>1, <1>11 DEF Token!vars, Token!client, Passed, Bears
<1> QED
  BY <1>2, <1>3, <1>4, <1>5, <1>6, <1>7, <1>8, <1>9, <1>10, <1>11 DEF Token!Next, Token!Starting

LEMMA TokenInitialInvariant == NUM_PROCESSES \in Nat \ {0} /\ Token!Init => TokenInv
<1> SUFFICES ASSUME NUM_PROCESSES \in Nat \ {0}, Token!Init PROVE TokenInv
  OBVIOUS
<1> USE DEF Token!Init, Token!Promise!Init
<1>1. TokenTypeOK
  BY DEF TokenTypeOK, TokenStage
<1>2. TokenOnePlace
  BY DEF TokenOnePlace, Bags
<1>3. TokenPhases
  BY DEF TokenPhases
<1>4. OneToken
  BY DEF OneToken, Bears
<1>5. TokenAged
  BY DEF TokenAged
<1> QED
  BY <1>1, <1>2, <1>3, <1>4, <1>5 DEF TokenInv

(* The invariant of the token, for any number of threads and objects. *)
THEOREM TokenInvariance ==
  ASSUME NUM_PROCESSES \in Nat \ {0}
  PROVE  Token!Spec => []TokenInv
<1>1. Token!Init => TokenInv
  BY TokenInitialInvariant
<1>2. TokenInv /\ [Token!Next]_Token!vars => TokenInv'
  BY TokenTypeStep, TokenOnePlaceStep, TokenPhasesStep, OneTokenStep, TokenAgedStep DEF TokenInv
<1> QED
  BY <1>1, <1>2, PTL DEF Token!Spec

-----------------------------------------------------------------------------
(* Rotating frees what nobody can hold any more, the end of a thread what  *)
(* nobody holds since no operation is in progress.                         *)
LEMMA TokenStepImplements == TokenInv /\ [Token!Next]_Token!vars => [Token!Promise!Next]_(Token!Promise!vars)
<1> SUFFICES ASSUME TokenInv, [Token!Next]_Token!vars PROVE [Token!Promise!Next]_(Token!Promise!vars)
  OBVIOUS
<1>0. TokenTypeOK /\ TokenOnePlace /\ TokenPhases /\ TokenAged
  BY DEF TokenInv
<1>1. ASSUME NEW t \in Token!Thread, Token!StartOp(t) \/ Token!Enter(t) \/ Token!EndOp(t) PROVE Token!Promise!Next
  BY <1>1 DEF Token!StartOp, Token!Enter, Token!EndOp, Token!Promise!Next
<1>2. ASSUME NEW t \in Token!Thread, Token!TakeToken(t) \/ Token!PassToken(t) \/ Token!Finish(t)
      PROVE  UNCHANGED Token!Promise!vars
  BY <1>2 DEF Token!TakeToken, Token!PassToken, Token!Finish, Token!client, Token!Promise!vars
<1>3. ASSUME NEW t \in Token!Thread, NEW o \in Obj, Token!Link(t, o) \/ Token!Unlink(t, o) \/ Token!Retire(t, o)
      PROVE  Token!Promise!Next
  BY <1>3 DEF Token!Link, Token!Unlink, Token!Retire, Token!Promise!Next
<1>4. ASSUME NEW t \in Token!Thread, NEW S \in SUBSET Bags(t),
             \A u \in Token!Thread : window[u] \cap S = {},
             available' = available \cup S,
             UNCHANGED <<linked, pending, window, inOp>>
      PROVE  Token!Promise!Next
  <2>1. S \subseteq Obj
    BY <1>0 DEF TokenTypeOK, Bags
  <2>2. S \subseteq Token!Promise!Retired
    BY <1>0, <2>1 DEF TokenOnePlace, Token!Promise!Retired
  <2>3. Token!Promise!Reclaim(S)
    BY <1>4, <2>2 DEF Token!Promise!Reclaim
  <2> QED
    BY <2>1, <2>3 DEF Token!Promise!Next
<1>5. ASSUME NEW t \in Token!Thread, Token!RotateEpochBags(t) PROVE Token!Promise!Next
  <2>1. PICK left \in SUBSET last[t] : available' = available \cup (last[t] \ left)
    BY <1>5 DEF Token!RotateEpochBags
  <2>2. \A u \in Token!Thread : window[u] \cap (last[t] \ left) = {}
    BY <1>0, <1>5 DEF Token!RotateEpochBags, Token!Move, TokenAged
  <2>3. (last[t] \ left) \in SUBSET Bags(t)
    BY DEF Bags
  <2>4. UNCHANGED <<linked, pending, window, inOp>>
    BY <1>5 DEF Token!RotateEpochBags
  <2> HIDE DEF Bags
  <2> QED
    BY <1>4, <2>1, <2>2, <2>3, <2>4
<1>6. ASSUME NEW t \in Token!Thread, Token!DeinitThread(t) PROVE Token!Promise!Next
  <2>1. \A u \in Token!Thread : window[u] = {}
    BY <1>0, <1>6 DEF Token!DeinitThread, TokenPhases
  <2>2. available' = available \cup Bags(t)
    BY <1>6 DEF Token!DeinitThread, Bags
  <2>3. UNCHANGED <<linked, pending, window, inOp>>
    BY <1>6 DEF Token!DeinitThread
  <2> QED
    BY <1>4, <2>1, <2>2, <2>3
<1>7. CASE UNCHANGED Token!vars
  BY <1>7 DEF Token!vars, Token!client, Token!Promise!vars
<1> QED
  BY <1>1, <1>2, <1>3, <1>5, <1>6, <1>7 DEF Token!Next, Token!Starting

(* The token implements the promise that the data structures rely on: what *)
(* rotateEpochBags frees was unlinked before every operation in progress.  *)
THEOREM TokenImplementation ==
  ASSUME NUM_PROCESSES \in Nat \ {0}
  PROVE  Token!Spec => Token!PromiseKept
<1>1. Token!Init => Token!Promise!Init
  BY DEF Token!Init
<1> QED
  BY <1>1, TokenStepImplements, TokenInvariance, PTL DEF Token!Spec, Token!PromiseKept, Token!Promise!Spec
=============================================================================
