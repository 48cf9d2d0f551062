--------------------------- MODULE DebraPlusProofs ---------------------------
(***************************************************************************)
(* DEBRA+ frees nothing that is held, though it neutralises threads in the *)
(* middle of their operations: for any number of threads and objects, any  *)
(* size of blocks and any thresholds.                                      *)
(*                                                                         *)
(* The argument.  As in DEBRA, a bag that is freed has aged three epochs,  *)
(* so an operation that still holds something of it has been passed by     *)
(* the scan of an epoch that it had not announced, which takes a signal:   *)
(* the thread goes no further (Aged).  What it has protected by then was   *)
(* in its list when the bag became the current one, because only what is   *)
(* held can be protected, so the scan of the lists finds it (Scanned).     *)
(*                                                                         *)
(* The last part of the module is about hazard pointers, where the same    *)
(* question is put to a scan of announcements: HazardPtr, as the instance  *)
(* Hazard.                                                                 *)
(***************************************************************************)
EXTENDS DebraPlus, FiniteSetTheorems, WellFoundedInduction, TLAPS

(* What HazardPtr has besides.                                             *)
CONSTANTS NumThreads, None, MAX_HAZARDPTRS_PER_THREAD
VARIABLES size, data, held, retired, comparing, arg, scan, moved, lost

Hazard == INSTANCE HazardPtr

-----------------------------------------------------------------------------
(* The stages in which t looks for what it may free, and those between the *)
(* call of startOp and its announcement.                                   *)
Freeing(t) == pc[t] \in {"protected", "entry", "free"}
Starting(t) == pc[t] \in {"protected", "entry", "free", "scan", "advance", "announce"}
Pcs == {"idle", "protected", "entry", "free", "scan", "advance", "announce", "in", "protect", "recover", "after"}

(* The types of the announced word, of a thread's list of protected        *)
(* objects and of what a thread keeps while it reads these lists.          *)
Announcement == [epoch : Nat, quiescent : BOOLEAN]
Entry == 1 .. MAX_PROTECT_EVEN_IF_QUIESCENT
List == [size : 0 .. MAX_PROTECT_EVEN_IF_QUIESCENT, data : [Entry -> Obj \cup {0}]]
ListScan == [comparing : SUBSET (Obj \cup {0}), list : Nat, next : Nat, size : Nat]
Local == [epoch : Nat, scan : ListScan]

TypeOK ==
  /\ linked \in SUBSET Obj
  /\ pending \in [Thread -> SUBSET Obj]
  /\ available \in SUBSET Obj
  /\ window \in [Thread -> SUBSET Obj]
  /\ epoch \in Nat
  /\ announced \in [Thread -> Announcement]
  /\ signalled \in SUBSET Thread
  /\ protected \in [Thread -> List]
  /\ bags \in [Thread -> [EpochBag -> SUBSET Obj]]
  /\ index \in [Thread -> EpochBag]
  /\ checked \in [Thread -> Nat]
  /\ local \in [Thread -> Local]
  /\ pc \in [Thread -> Pcs]

(* An object is linked, available, unlinked by a thread or in one bag.     *)
OnePlace ==
  /\ linked \cap available = {}
  /\ \A t \in Thread :
       /\ pending[t] \cap (linked \cup available) = {}
       /\ \A i \in EpochBag : bags[t][i] \cap (linked \cup available) = {}
       /\ \A u \in Thread, i \in EpochBag : pending[t] \cap bags[u][i] = {}
  /\ \A t, u \in Thread : t # u => pending[t] \cap pending[u] = {}
  /\ \A t, u \in Thread, i, j \in EpochBag :
       <<t, i>> # <<u, j>> => bags[t][i] \cap bags[u][j] = {}

(* Only a thread in an operation holds objects, and only it has signals to *)
(* handle; what it is about to protect is one of these objects.            *)
Phases ==
  \A t \in Thread :
    /\ Active(t) <=> pc[t] \in {"in", "protect"}
    /\ ~Active(t) => window[t] = {} /\ t \notin signalled
    /\ pc[t] = "protect" => /\ protected[t].size < MAX_PROTECT_EVEN_IF_QUIESCENT
                            /\ protected[t].data[protected[t].size + 1] \in window[t]

(* No thread is ahead of the epoch; only one that begins an operation has  *)
(* read an epoch that it has not announced.                                *)
Behind ==
  \A t \in Thread :
    /\ announced[t].epoch <= local[t].epoch /\ local[t].epoch <= epoch
    /\ ~Starting(t) => announced[t].epoch = local[t].epoch

(* Whoever advances the epoch has passed all threads.                      *)
FullScan == \A t \in Thread : pc[t] = "advance" => checked[t] >= NUM_PROCESSES

(* The last epoch before t announces another one or becomes quiescent.     *)
Reach(t) ==
  IF announced[t].epoch = epoch \/ \E s \in Thread : local[s].epoch = epoch /\ t < checked[s]
  THEN epoch + 1 ELSE epoch

(* The epochs that s has read since it put the last object into its i-th   *)
(* bag.  The current one takes new objects when the old ones are freed.    *)
Age(s, i) ==
  IF i = index[s] THEN (IF Freeing(s) THEN 3 ELSE 0)
  ELSE IF i = (index[s] + 1) % 3 THEN 2 ELSE 1

(* Whatever t can still hold, when it goes on, is too young to be freed    *)
(* before t ends.                                                          *)
Aged ==
  \A s, t \in Thread, i \in EpochBag :
    t \notin signalled /\ window[t] \cap bags[s][i] # {} /\ Age(s, i) >= 1
      => local[s].epoch + 2 >= Reach(t) + Age(s, i)

(* The scan of the lists is between two of them, or within one that it has *)
(* found not empty.                                                        *)
ScanPlace ==
  \A s \in Thread :
    /\ ~Freeing(s) => local[s].scan = NoScan
    /\ pc[s] = "protected" => local[s].scan.list <= NUM_PROCESSES
    /\ pc[s] = "entry" => /\ local[s].scan.list < NUM_PROCESSES
                          /\ 1 <= local[s].scan.next /\ local[s].scan.next <= local[s].scan.size
                          /\ local[s].scan.size <= MAX_PROTECT_EVEN_IF_QUIESCENT
    /\ pc[s] = "free" => local[s].scan.list = NUM_PROCESSES

(* The scan of s still gets to the i-th entry of t's list.                 *)
Ahead(s, t, i) ==
  \/ local[s].scan.list < t
  \/ /\ local[s].scan.list = t
     /\ pc[s] = "entry" => local[s].scan.next <= i /\ i <= local[s].scan.size

(* What is protected and in the bag that s is about to free has been seen  *)
(* by s, or will be.                                                       *)
Scanned ==
  \A s, t \in Thread : \A i \in 1 .. protected[t].size :
    Freeing(s) /\ protected[t].data[i] \in CurrentBag(s)
      => protected[t].data[i] \in local[s].scan.comparing \/ Ahead(s, t, i)

(* The inductive invariant: HeldNotFreed and what it rests on.             *)
PlusInv ==
  TypeOK /\ OnePlace /\ Phases /\ Behind /\ FullScan /\ Aged /\ ScanPlace /\ Scanned /\ HeldNotFreed

-----------------------------------------------------------------------------
(* The bags follow one another in a circle of three.                       *)
LEMMA NextBag ==
  ASSUME NEW i \in EpochBag
  PROVE  (i + 1) % 3 \in EpochBag /\ (i + 1) % 3 # i
<1>1. i = 0 \/ i = 1 \/ i = 2
  BY DEF EpochBag
<1>. QED  BY <1>1 DEF EpochBag

(* What is freed has seen three epochs, and nothing is older.              *)
LEMMA AgeRange ==
  ASSUME NEW s \in Thread, NEW i \in EpochBag
  PROVE  Age(s, i) \in 0 .. 3
BY DEF Age

(* An operation can last for the current epoch, and one more.              *)
LEMMA ReachRange ==
  ASSUME TypeOK, NEW t \in Thread
  PROVE  Reach(t) \in Nat /\ epoch <= Reach(t) /\ Reach(t) <= epoch + 1
BY DEF TypeOK, Reach

(* A bag of three epochs is in no window of a thread that may go on.       *)
LEMMA OldIsUnheld ==
  ASSUME TypeOK, Behind, Aged, NEW s \in Thread, Freeing(s), NEW t \in Thread, t \notin signalled
  PROVE  window[t] \cap CurrentBag(s) = {}
<1>1. index[s] \in EpochBag /\ Age(s, index[s]) = 3
  BY DEF TypeOK, Age
<1>2. local[s].epoch <= epoch /\ local[s].epoch \in Nat /\ epoch \in Nat
  BY DEF TypeOK, Behind, Local
<1>3. Reach(t) \in Nat /\ epoch <= Reach(t)
  BY ReachRange
<1>4. SUFFICES ASSUME window[t] \cap bags[s][index[s]] # {} PROVE FALSE
  BY DEF CurrentBag
<1>5. local[s].epoch + 2 >= Reach(t) + 3
  BY <1>1, <1>4 DEF Aged
<1>. QED  BY <1>2, <1>3, <1>5

-----------------------------------------------------------------------------
(* Writing one field of one thread's record.                               *)
LEMMA SetEpoch ==
  ASSUME local \in [Thread -> Local], NEW t \in Thread, NEW e \in Nat, local' = [local EXCEPT ![t].epoch = e]
  PROVE  /\ local' \in [Thread -> Local]
         /\ local'[t].epoch = e /\ local'[t].scan = local[t].scan
         /\ \A u \in Thread \ {t} : local'[u] = local[u]
BY DEF Local

(* So the place of the scan of the lists, which leaves the epochs alone.   *)
LEMMA SetScan ==
  ASSUME local \in [Thread -> Local], NEW t \in Thread, NEW r \in ListScan, local' = [local EXCEPT ![t].scan = r]
  PROVE  /\ local' \in [Thread -> Local]
         /\ local'[t].scan = r
         /\ \A u \in Thread : local'[u].epoch = local[u].epoch
         /\ \A u \in Thread \ {t} : local'[u] = local[u]
BY DEF Local

(* Setting the quiescent bit leaves the announced epoch in the word.       *)
LEMMA QuiescentNow ==
  ASSUME announced \in [Thread -> Announcement], NEW t \in Thread, announced' = [announced EXCEPT ![t].quiescent = TRUE]
  PROVE  /\ announced' \in [Thread -> Announcement]
         /\ announced'[t].quiescent
         /\ \A u \in Thread : announced'[u].epoch = announced[u].epoch
         /\ \A u \in Thread \ {t} : announced'[u] = announced[u]
BY DEF Announcement

(* After an entry the scan is in front of the next list, or of the next    *)
(* entry of this one.                                                      *)
LEMMA SeenEntry ==
  ASSUME NEW s \in ListScan, NEW c \in SUBSET (Obj \cup {0})
  PROVE  /\ LET r == [[s EXCEPT !.comparing = c] EXCEPT !.list = s.list + 1, !.next = 0, !.size = 0]
            IN  r \in ListScan /\ r.comparing = c /\ r.list = s.list + 1 /\ r.next = 0 /\ r.size = 0
         /\ LET r == [[s EXCEPT !.comparing = c] EXCEPT !.next = s.next + 1]
            IN  r \in ListScan /\ r.comparing = c /\ r.list = s.list /\ r.next = s.next + 1 /\ r.size = s.size
<1> DEFINE q == [s EXCEPT !.comparing = c]
<1>1. q \in ListScan /\ q.comparing = c /\ q.list = s.list /\ q.next = s.next /\ q.size = s.size
  BY DEF ListScan
<1>2. s.list + 1 \in Nat /\ s.next + 1 \in Nat
  BY DEF ListScan
<1>. HIDE DEF q
<1>3. LET r == [q EXCEPT !.list = s.list + 1, !.next = 0, !.size = 0]
      IN  r \in ListScan /\ r.comparing = c /\ r.list = s.list + 1 /\ r.next = 0 /\ r.size = 0
  BY <1>1, <1>2 DEF ListScan
<1>4. LET r == [q EXCEPT !.next = s.next + 1]
      IN  r \in ListScan /\ r.comparing = c /\ r.list = s.list /\ r.next = s.next + 1 /\ r.size = s.size
  BY <1>1, <1>2 DEF ListScan
<1>. QED  BY <1>3, <1>4 DEF q

(* A scan that is not under way is a scan.                                 *)
LEMMA NoScanType == NoScan \in ListScan
BY DEF NoScan, ListScan

-----------------------------------------------------------------------------
(* What the steps do.                                                      *)

(* startOp reads the epoch, and rotates the bags when it has changed.      *)
LEMMA ReadEpochFacts ==
  ASSUME TypeOK, NEW t \in Thread, ReadEpoch(t)
  PROVE  /\ pc[t] = "idle" /\ t \notin signalled
         /\ pc'[t] \in {"scan", "protected"}
         /\ \A u \in Thread \ {t} : pc'[u] = pc[u]
         /\ UNCHANGED <<client, epoch, announced, signalled, protected, bags>>
         /\ local' = [local EXCEPT ![t].epoch = epoch]
         /\ \/ /\ epoch = announced[t].epoch /\ pc'[t] = "scan"
               /\ UNCHANGED <<index, checked>>
            \/ /\ epoch # announced[t].epoch
               /\ index' = [index EXCEPT ![t] = (index[t] + 1) % 3]
               /\ checked' = [checked EXCEPT ![t] = 0]
<1>1. CASE epoch = announced[t].epoch
  BY <1>1 DEF ReadEpoch, Step, Undisturbed, TypeOK
<1>2. CASE epoch # announced[t].epoch
  <2>1. \E to \in {"scan", "protected"} : Step(t, "idle", to)
    BY <1>2 DEF ReadEpoch
  <2>2. /\ pc[t] = "idle" /\ t \notin signalled
        /\ pc'[t] \in {"scan", "protected"}
        /\ \A u \in Thread \ {t} : pc'[u] = pc[u]
    BY <2>1 DEF Step, Undisturbed, TypeOK
  <2>. QED  BY <1>2, <2>2 DEF ReadEpoch
<1>. QED  BY <1>1, <1>2

(* The scan passes a thread, which may take a signal.                      *)
LEMMA ScanFacts ==
  ASSUME TypeOK, NUM_PROCESSES \in Nat, NEW t \in Thread, Scan(t)
  PROVE  /\ pc[t] = "scan" /\ t \notin signalled
         /\ pc'[t] \in {"advance", "announce"}
         /\ \A u \in Thread \ {t} : pc'[u] = pc[u]
         /\ UNCHANGED <<client, epoch, announced, protected, limbo, local>>
         /\ \/ UNCHANGED <<checked, signalled>> /\ pc'[t] = "announce"
            \/ /\ checked' = [checked EXCEPT ![t] = checked[t] + 1]
               /\ pc'[t] = "advance" => checked[t] + 1 >= NUM_PROCESSES
               /\ \/ checked[t] >= NUM_PROCESSES /\ UNCHANGED signalled
                  \/ checked[t] \in Thread /\ Passes(t, checked[t]) /\ UNCHANGED signalled
                  \/ checked[t] \in Thread /\ ~Passes(t, checked[t]) /\ signalled' = signalled \cup {checked[t]}
<1>1. \E to \in {"advance", "announce"} : Step(t, "scan", to)
  BY DEF Scan
<1>2. /\ pc[t] = "scan" /\ t \notin signalled
      /\ pc'[t] \in {"advance", "announce"}
      /\ \A u \in Thread \ {t} : pc'[u] = pc[u]
  BY <1>1 DEF Step, Undisturbed, TypeOK
<1>3. checked[t] \in Nat
  BY DEF TypeOK
<1>4. CASE checked[t] >= NUM_PROCESSES
  <2>1. pc'[t] = "advance" => checked[t] + 1 >= NUM_PROCESSES
    BY <1>3, <1>4
  <2>. QED  BY <1>2, <1>4, <2>1 DEF Scan
<1>5. CASE ~ (checked[t] >= NUM_PROCESSES)
  <2>1. checked[t] \in Thread
    BY <1>3, <1>5 DEF Thread
  <2>2. CASE Passes(t, checked[t]) \/ Neutralize(t)
    <3>1. pc'[t] = "advance" => checked[t] + 1 >= NUM_PROCESSES
      BY <1>2, <1>5, <2>2 DEF Scan, Step, TypeOK
    <3>. QED  BY <1>2, <1>5, <2>1, <2>2, <3>1 DEF Scan
  <2>3. CASE ~ (Passes(t, checked[t]) \/ Neutralize(t))
    <3>1. Step(t, "scan", "announce") /\ UNCHANGED <<checked, signalled>>
      BY <1>5, <2>3 DEF Scan
    <3>2. pc'[t] = "announce"
      BY <3>1 DEF Step, TypeOK
    <3>. QED  BY <1>2, <3>1, <3>2 DEF Scan
  <2>. QED  BY <2>2, <2>3
<1>. QED  BY <1>4, <1>5

(* The scan of the lists goes on to the next list, or begins with one.     *)
LEMMA ReadSizeFacts ==
  ASSUME TypeOK, NEW t \in Thread, ReadSize(t)
  PROVE  LET s == local[t].scan IN
         /\ pc[t] = "protected" /\ t \notin signalled
         /\ \A u \in Thread \ {t} : pc'[u] = pc[u]
         /\ UNCHANGED <<client, epoch, announced, signalled, protected, limbo, checked>>
         /\ \/ s.list = NUM_PROCESSES /\ pc'[t] = "free" /\ UNCHANGED local
            \/ /\ s.list # NUM_PROCESSES /\ protected[s.list].size = 0 /\ pc'[t] = "protected"
               /\ local' = [local EXCEPT ![t].scan = [s EXCEPT !.list = s.list + 1]]
            \/ /\ s.list # NUM_PROCESSES /\ protected[s.list].size # 0 /\ pc'[t] = "entry"
               /\ local' = [local EXCEPT ![t].scan = [s EXCEPT !.next = 1, !.size = protected[s.list].size]]
<1>1. CASE local[t].scan.list = NUM_PROCESSES
  BY <1>1 DEF ReadSize, Step, Undisturbed, TypeOK
<1>2. CASE local[t].scan.list # NUM_PROCESSES /\ protected[local[t].scan.list].size = 0
  BY <1>2 DEF ReadSize, Step, Undisturbed, TypeOK
<1>3. CASE local[t].scan.list # NUM_PROCESSES /\ protected[local[t].scan.list].size # 0
  BY <1>3 DEF ReadSize, Step, Undisturbed, TypeOK
<1>. QED  BY <1>1, <1>2, <1>3

(* An entry is read; after the last comes the next list.                   *)
LEMMA ReadEntryFacts ==
  ASSUME NUM_PROCESSES \in Nat, MAX_PROTECT_EVEN_IF_QUIESCENT \in Nat,
         TypeOK, ScanPlace, NEW t \in Thread, ReadEntry(t)
  PROVE  LET s == local[t].scan IN
         /\ pc[t] = "entry" /\ t \notin signalled
         /\ \A u \in Thread \ {t} : pc'[u] = pc[u]
         /\ UNCHANGED <<client, epoch, announced, signalled, protected, limbo, checked>>
         /\ \E r \in ListScan :
              /\ local' = [local EXCEPT ![t].scan = r]
              /\ r.comparing = s.comparing \cup {protected[s.list].data[s.next]}
              /\ \/ s.next = s.size /\ pc'[t] = "protected" /\ r.list = s.list + 1
                 \/ s.next # s.size /\ pc'[t] = "entry" /\ r.list = s.list /\ r.next = s.next + 1 /\ r.size = s.size
<1> DEFINE s == local[t].scan
           seen == s.comparing \cup {protected[s.list].data[s.next]}
<1>0. s \in ListScan
  BY DEF TypeOK, Local
<1>1. /\ s.list \in Nat /\ s.next \in Nat /\ s.size \in Nat
      /\ s.list < NUM_PROCESSES /\ 1 <= s.next /\ s.next <= s.size /\ s.size <= MAX_PROTECT_EVEN_IF_QUIESCENT
  BY <1>0 DEF ListScan, ScanPlace, ReadEntry
<1>2. seen \in SUBSET (Obj \cup {0})
  <2>1. s.list \in Thread /\ s.next \in Entry
    BY <1>1 DEF Thread, Entry
  <2>. QED  BY <1>0, <2>1 DEF TypeOK, ListScan, List
<1>3. pc[t] = "entry" /\ UNCHANGED <<client, epoch, announced, signalled, protected, limbo, checked>>
  BY DEF ReadEntry
<1>4. CASE s.next = s.size
  <2> DEFINE r == [[s EXCEPT !.comparing = seen] EXCEPT !.list = s.list + 1, !.next = 0, !.size = 0]
  <2>1. local' = [local EXCEPT ![t].scan = r]
    BY <1>0, <1>4 DEF ReadEntry, ListScan
  <2>2. Step(t, "entry", "protected")
    BY <1>4 DEF ReadEntry
  <2>3. t \notin signalled /\ pc'[t] = "protected" /\ \A u \in Thread \ {t} : pc'[u] = pc[u]
    BY <2>2 DEF Step, Undisturbed, TypeOK
  <2>4. r \in ListScan /\ r.comparing = seen /\ r.list = s.list + 1
    BY <1>0, <1>2, SeenEntry
  <2>. HIDE DEF r
  <2>. QED  BY <1>3, <1>4, <2>1, <2>3, <2>4
<1>5. CASE s.next # s.size
  <2> DEFINE r == [[s EXCEPT !.comparing = seen] EXCEPT !.next = s.next + 1]
  <2>1. local' = [local EXCEPT ![t].scan = r]
    BY <1>0, <1>5 DEF ReadEntry, ListScan
  <2>2. Step(t, "entry", "entry")
    BY <1>5 DEF ReadEntry
  <2>3. t \notin signalled /\ pc'[t] = "entry" /\ \A u \in Thread \ {t} : pc'[u] = pc[u]
    BY <2>2 DEF Step, Undisturbed, TypeOK
  <2>4. r \in ListScan /\ r.comparing = seen /\ r.list = s.list /\ r.next = s.next + 1 /\ r.size = s.size
    BY <1>0, <1>2, SeenEntry
  <2>. HIDE DEF r
  <2>. QED  BY <1>3, <1>5, <2>1, <2>3, <2>4
<1>. QED  BY <1>4, <1>5

(* What is freed is in the bag, and has not been seen in a list.           *)
LEMMA FreeFacts ==
  ASSUME TypeOK, NEW t \in Thread, FreeUnprotected(t)
  PROVE  /\ pc[t] = "free" /\ pc'[t] = "scan" /\ t \notin signalled
         /\ \A u \in Thread \ {t} : pc'[u] = pc[u]
         /\ UNCHANGED <<linked, pending, window, epoch, announced, signalled, protected, index, checked>>
         /\ local' = [local EXCEPT ![t].scan = NoScan]
         /\ \E left \in SUBSET CurrentBag(t) :
              /\ CurrentBag(t) \cap local[t].scan.comparing \subseteq left
              /\ bags' = [bags EXCEPT ![t][index[t]] = left]
              /\ available' = available \cup (CurrentBag(t) \ left)
BY DEF FreeUnprotected, Step, Undisturbed, TypeOK

(* A signal finds its thread in an operation, and throws it out of it.     *)
LEMMA HandleFacts ==
  ASSUME TypeOK, Phases, NEW t \in Thread, Handle(t)
  PROVE  /\ t \in signalled /\ Active(t)
         /\ signalled' = signalled \ {t}
         /\ announced' = [announced EXCEPT ![t].quiescent = TRUE]
         /\ window' = [window EXCEPT ![t] = {}]
         /\ pc' = [pc EXCEPT ![t] = "recover"]
         /\ UNCHANGED <<linked, pending, available, epoch, protected, limbo, checked, local>>
BY DEF Handle, Phases, SetQuiescent

-----------------------------------------------------------------------------
(* Every step is well typed.                                               *)
LEMMA TypeStep ==
  ASSUME NUM_PROCESSES \in Nat, MAX_PROTECT_EVEN_IF_QUIESCENT \in Nat, PlusInv, [Next]_vars
  PROVE  TypeOK'
<1>0. TypeOK /\ Phases /\ ScanPlace
  BY DEF PlusInv
<1>1. ASSUME NEW t \in Thread, ReadEpoch(t) PROVE TypeOK'
  <2>1. local' \in [Thread -> Local]
    BY <1>0, <1>1, ReadEpochFacts, SetEpoch DEF TypeOK
  <2>2. index' \in [Thread -> EpochBag] /\ checked' \in [Thread -> Nat]
    <3>1. (index[t] + 1) % 3 \in EpochBag
      BY <1>0, NextBag DEF TypeOK
    <3>2. \/ UNCHANGED <<index, checked>>
          \/ /\ index' = [index EXCEPT ![t] = (index[t] + 1) % 3]
             /\ checked' = [checked EXCEPT ![t] = 0]
      BY <1>0, <1>1, ReadEpochFacts
    <3>3. index \in [Thread -> EpochBag] /\ checked \in [Thread -> Nat]
      BY <1>0 DEF TypeOK
    <3>. QED  BY <3>1, <3>2, <3>3
  <2>3. pc' \in [Thread -> Pcs]
    <3>1. \E to \in {"scan", "protected"} : pc' = [pc EXCEPT ![t] = to]
      BY <1>1 DEF ReadEpoch, Step
    <3>. QED  BY <1>0, <3>1 DEF TypeOK, Pcs
  <2>. QED  BY <1>0, <1>1, <2>1, <2>2, <2>3, ReadEpochFacts DEF TypeOK, client
<1>2. ASSUME NEW t \in Thread, ReadSize(t) PROVE TypeOK'
  <2> DEFINE s == local[t].scan
  <2>a. s \in ListScan
    BY <1>0 DEF TypeOK, Local
  <2>b. s.list \in Nat /\ s.list <= NUM_PROCESSES
    BY <1>0, <1>2, <2>a, ReadSizeFacts DEF ListScan, ScanPlace
  <2>0. s.list # NUM_PROCESSES => s.list \in Thread
    BY <2>b DEF Thread
  <2>1. local' \in [Thread -> Local]
    <3>1. ASSUME s.list # NUM_PROCESSES
          PROVE  [s EXCEPT !.list = s.list + 1] \in ListScan /\ [s EXCEPT !.next = 1, !.size = protected[s.list].size] \in ListScan
      <4>1. protected[s.list].size \in Nat
        BY <1>0, <2>0, <3>1 DEF TypeOK, List
      <4>2. s.list + 1 \in Nat
        BY <2>b
      <4>. HIDE DEF s
      <4>3. [s EXCEPT !.list = s.list + 1] \in ListScan
        BY <2>a, <4>2 DEF ListScan
      <4>4. [s EXCEPT !.next = 1, !.size = protected[s.list].size] \in ListScan
        BY <2>a, <4>1 DEF ListScan
      <4>. QED  BY <4>3, <4>4
    <3>2. ASSUME NEW r \in ListScan, local' = [local EXCEPT ![t].scan = r] PROVE local' \in [Thread -> Local]
      BY <1>0, <3>2, SetScan DEF TypeOK
    <3>3. \/ UNCHANGED local
          \/ s.list # NUM_PROCESSES /\ local' = [local EXCEPT ![t].scan = [s EXCEPT !.list = s.list + 1]]
          \/ s.list # NUM_PROCESSES /\ local' = [local EXCEPT ![t].scan = [s EXCEPT !.next = 1, !.size = protected[s.list].size]]
      BY <1>0, <1>2, ReadSizeFacts
    <3>4. UNCHANGED local => local' \in [Thread -> Local]
      BY <1>0 DEF TypeOK
    <3>. HIDE DEF s
    <3>. QED  BY <3>1, <3>2, <3>3, <3>4
  <2>3. pc' \in [Thread -> Pcs]
    <3>1. \E to \in {"free", "protected", "entry"} : pc' = [pc EXCEPT ![t] = to]
      BY <1>2 DEF ReadSize, Step
    <3>. QED  BY <1>0, <3>1 DEF TypeOK, Pcs
  <2>. QED  BY <1>0, <1>2, <2>1, <2>3, ReadSizeFacts DEF TypeOK, client, limbo
<1>3. ASSUME NEW t \in Thread, ReadEntry(t) PROVE TypeOK'
  <2>1. local' \in [Thread -> Local]
    <3>1. PICK r \in ListScan : local' = [local EXCEPT ![t].scan = r]
      BY <1>0, <1>3, ReadEntryFacts
    <3>. QED  BY <1>0, <3>1, SetScan DEF TypeOK
  <2>3. pc' \in [Thread -> Pcs]
    <3>1. \E to \in {"protected", "entry"} : pc' = [pc EXCEPT ![t] = to]
      BY <1>3 DEF ReadEntry, Step
    <3>. QED  BY <1>0, <3>1 DEF TypeOK, Pcs
  <2>. QED  BY <1>0, <1>3, <2>1, <2>3, ReadEntryFacts DEF TypeOK, client, limbo
<1>4. ASSUME NEW t \in Thread, FreeUnprotected(t) PROVE TypeOK'
  <2>1. PICK left \in SUBSET CurrentBag(t) :
          /\ bags' = [bags EXCEPT ![t][index[t]] = left]
          /\ available' = available \cup (CurrentBag(t) \ left)
    BY <1>0, <1>4, FreeFacts
  <2>2. index[t] \in EpochBag /\ CurrentBag(t) \in SUBSET Obj
    BY <1>0 DEF TypeOK, CurrentBag
  <2>3. bags' \in [Thread -> [EpochBag -> SUBSET Obj]] /\ available' \in SUBSET Obj
    BY <1>0, <2>1, <2>2 DEF TypeOK
  <2>4. local' \in [Thread -> Local]
    BY <1>0, <1>4, FreeFacts, SetScan, NoScanType DEF TypeOK
  <2>5. pc' \in [Thread -> Pcs]
    BY <1>0, <1>4 DEF FreeUnprotected, Step, TypeOK, Pcs
  <2>. QED  BY <1>0, <1>4, <2>3, <2>4, <2>5, FreeFacts DEF TypeOK
<1>5. ASSUME NEW t \in Thread, Scan(t) PROVE TypeOK'
  <2>1. pc' \in [Thread -> Pcs]
    <3>1. \E to \in {"advance", "announce"} : pc' = [pc EXCEPT ![t] = to]
      BY <1>5 DEF Scan, Step
    <3>. QED  BY <1>0, <3>1 DEF TypeOK, Pcs
  <2>2. UNCHANGED <<client, epoch, announced, protected, limbo, local>>
    BY <1>0, <1>5, ScanFacts
  <2>3. checked' = checked \/ checked' = [checked EXCEPT ![t] = checked[t] + 1]
    BY <1>0, <1>5, ScanFacts
  <2>4. checked' \in [Thread -> Nat]
    BY <1>0, <2>3 DEF TypeOK
  <2>5. signalled' \in SUBSET Thread
    BY <1>0, <1>5, ScanFacts DEF TypeOK
  <2>. QED  BY <1>0, <2>1, <2>2, <2>4, <2>5 DEF TypeOK, client, limbo
<1>6. ASSUME NEW t \in Thread, Advance(t) PROVE TypeOK'
  <2>1. epoch' \in Nat
    BY <1>0, <1>6 DEF Advance, TypeOK
  <2>. QED  BY <1>0, <1>6, <2>1 DEF Advance, Step, TypeOK, Pcs, client, limbo
<1>7. ASSUME NEW t \in Thread, Announce(t) PROVE TypeOK'
  BY <1>0, <1>7 DEF Announce, Step, TypeOK, Pcs, limbo, Announcement, Local
<1>8. ASSUME NEW t \in Thread, NEW o \in Obj, Link(t, o) PROVE TypeOK'
  BY <1>0, <1>8 DEF Link, Step, TypeOK, Pcs, limbo, reclaimer
<1>9. ASSUME NEW t \in Thread, NEW o \in Obj, Unlink(t, o) PROVE TypeOK'
  BY <1>0, <1>9 DEF Unlink, Step, TypeOK, Pcs, limbo, reclaimer
<1>10. ASSUME NEW t \in Thread, NEW o \in Obj, QProtect(t, o) PROVE TypeOK'
  <2>1. protected[t].size + 1 \in Entry
    BY <1>0, <1>10 DEF QProtect, TypeOK, List, Entry
  <2>2. protected' = [protected EXCEPT ![t].data[protected[t].size + 1] = o]
    BY <1>10 DEF QProtect
  <2>3. [protected[t] EXCEPT !.data[protected[t].size + 1] = o] \in List
    BY <1>0, <2>1 DEF TypeOK, List
  <2>4. protected' \in [Thread -> List]
    BY <1>0, <2>2, <2>3 DEF TypeOK
  <2>. QED  BY <1>0, <1>10, <2>4 DEF QProtect, Step, TypeOK, Pcs, client, limbo
<1>11. ASSUME NEW t \in Thread, QProtected(t) PROVE TypeOK'
  <2>1. protected[t].size + 1 \in 0 .. MAX_PROTECT_EVEN_IF_QUIESCENT
    BY <1>0, <1>11 DEF QProtected, Step, Phases, TypeOK, List
  <2>2. protected' \in [Thread -> List]
    BY <1>0, <1>11, <2>1 DEF QProtected, TypeOK, List
  <2>. QED  BY <1>0, <1>11, <2>2 DEF QProtected, Step, TypeOK, Pcs, client, limbo
<1>12. ASSUME NEW t \in Thread, EndOp(t) PROVE TypeOK'
  BY <1>0, <1>12 DEF EndOp, SetQuiescent, Step, TypeOK, Pcs, limbo, Announcement
<1>13. ASSUME NEW t \in Thread, Handle(t) PROVE TypeOK'
  <2>1. announced' \in [Thread -> Announcement]
    BY <1>0, <1>13, HandleFacts, QuiescentNow DEF TypeOK
  <2>. QED  BY <1>0, <1>13, <2>1, HandleFacts DEF TypeOK, Pcs, limbo
<1>14. ASSUME NEW t \in Thread, Recovered(t) PROVE TypeOK'
  BY <1>0, <1>14 DEF Recovered, Step, TypeOK, Pcs, client, limbo, reclaimer
<1>15. ASSUME NEW t \in Thread, NEW o \in Obj, Retire(t, o) PROVE TypeOK'
  <2>1. index[t] \in EpochBag
    BY <1>0 DEF TypeOK
  <2>2. bags' \in [Thread -> [EpochBag -> SUBSET Obj]]
    BY <1>0, <1>15, <2>1 DEF Retire, TypeOK
  <2>3. pending' \in [Thread -> SUBSET Obj]
    BY <1>0, <1>15 DEF Retire, TypeOK
  <2>. QED  BY <1>0, <1>15, <2>2, <2>3 DEF Retire, Step, TypeOK, Pcs
<1>16. ASSUME NEW t \in Thread, QUnprotectAll(t) PROVE TypeOK'
  <2>1. protected' \in [Thread -> List]
    <3>1. protected \in [Thread -> List] /\ protected' = [protected EXCEPT ![t].size = 0]
      BY <1>0, <1>16 DEF QUnprotectAll, TypeOK
    <3>2. 0 \in 0 .. MAX_PROTECT_EVEN_IF_QUIESCENT
      OBVIOUS
    <3>. QED  BY <3>1, <3>2 DEF List
  <2>. QED  BY <1>0, <1>16, <2>1 DEF QUnprotectAll, Step, TypeOK, Pcs, client, limbo
<1>17. CASE UNCHANGED vars
  BY <1>0, <1>17 DEF vars, client, limbo, TypeOK
<1>. QED
  BY <1>1, <1>2, <1>3, <1>4, <1>5, <1>6, <1>7, <1>8, <1>9, <1>10, <1>11, <1>12, <1>13, <1>14, <1>15,
     <1>16, <1>17
  DEF Next, Running

(* Every object stays in one place.                                        *)
LEMMA OnePlaceStep ==
  ASSUME NUM_PROCESSES \in Nat, MAX_PROTECT_EVEN_IF_QUIESCENT \in Nat, PlusInv, [Next]_vars
  PROVE  OnePlace'
<1>0. TypeOK /\ Phases /\ OnePlace
  BY DEF PlusInv
<1>1. ASSUME UNCHANGED <<linked, pending, available, bags>> PROVE OnePlace'
  BY <1>0, <1>1 DEF OnePlace
<1>2. ASSUME NEW t \in Thread,
             ReadEpoch(t) \/ ReadSize(t) \/ ReadEntry(t) \/ Scan(t) \/ Advance(t) \/ Announce(t)
               \/ QProtected(t) \/ Handle(t) \/ Recovered(t) \/ QUnprotectAll(t) \/ EndOp(t)
               \/ \E o \in Obj : QProtect(t, o)
      PROVE  OnePlace'
  BY <1>1, <1>2 DEF ReadEpoch, ReadSize, ReadEntry, Scan, Advance, Announce, QProtected, Handle,
     Recovered,
                    QUnprotectAll, EndOp, QProtect, client, limbo, reclaimer
<1>4. ASSUME NEW t \in Thread, FreeUnprotected(t) PROVE OnePlace'
  <2> DEFINE now == index[t]
             old == bags[t][now]
  <2>1. now \in EpochBag
    BY <1>0 DEF TypeOK
  <2>2. PICK left \in SUBSET old :
          /\ available' = available \cup (old \ left)
          /\ bags' = [bags EXCEPT ![t][now] = left]
    BY <1>0, <1>4, FreeFacts DEF CurrentBag
  <2>3. linked' = linked /\ pending' = pending
    BY <1>4 DEF FreeUnprotected
  <2>4. bags'[t][now] = left
    BY <1>0, <2>1, <2>2 DEF TypeOK
  <2>5. \A u \in Thread, i \in EpochBag : <<u, i>> # <<t, now>> => bags'[u][i] = bags[u][i]
    BY <1>0, <2>1, <2>2 DEF TypeOK
  <2> HIDE DEF now
  <2>6. \A u \in Thread, i \in EpochBag : bags'[u][i] \subseteq bags[u][i]
    BY <2>4, <2>5
  <2>7. \A u \in Thread, i \in EpochBag : bags'[u][i] \cap (old \ left) = {}
    BY <1>0, <2>1, <2>4, <2>5 DEF OnePlace
  <2>8. \A u \in Thread : pending[u] \cap (old \ left) = {}
    BY <1>0, <2>1 DEF OnePlace
  <2>9. linked \cap (old \ left) = {}
    BY <1>0, <2>1 DEF OnePlace
  <2>10. (linked \cap available = {})'
    BY <1>0, <2>2, <2>3, <2>9 DEF OnePlace
  <2>11. \A u \in Thread : (pending[u] \cap (linked \cup available) = {})'
    BY <1>0, <2>2, <2>3, <2>8 DEF OnePlace
  <2>12. \A u \in Thread, i \in EpochBag : (bags[u][i] \cap (linked \cup available) = {})'
    BY <1>0, <2>2, <2>3, <2>6, <2>7 DEF OnePlace
  <2>13. \A u, v \in Thread, i \in EpochBag : (pending[u] \cap bags[v][i] = {})'
    BY <1>0, <2>3, <2>6 DEF OnePlace
  <2>14. \A u, v \in Thread : u # v => (pending[u] \cap pending[v] = {})'
    BY <1>0, <2>3 DEF OnePlace
  <2>15. \A u, v \in Thread, i, j \in EpochBag : <<u, i>> # <<v, j>> => (bags[u][i] \cap bags[v][j] = {})'
    BY <1>0, <2>6 DEF OnePlace
  <2> QED
    BY <2>10, <2>11, <2>12, <2>13, <2>14, <2>15 DEF OnePlace
<1>5. ASSUME NEW t \in Thread, NEW o \in Obj, Link(t, o) PROVE OnePlace'
  <2>1. /\ o \in available /\ available' = available \ {o} /\ linked' = linked \cup {o}
        /\ UNCHANGED <<pending, bags>>
    BY <1>5 DEF Link, reclaimer, limbo
  <2>. QED  BY <1>0, <2>1 DEF OnePlace
<1>6. ASSUME NEW t \in Thread, NEW o \in Obj, Unlink(t, o) PROVE OnePlace'
  <2>1. o \in linked /\ linked' = linked \ {o} /\ UNCHANGED <<available, bags>>
    BY <1>6 DEF Unlink, reclaimer, limbo
  <2>2. pending'[t] = pending[t] \cup {o} /\ \A u \in Thread \ {t} : pending'[u] = pending[u]
    BY <1>0, <1>6 DEF Unlink, TypeOK
  <2>. QED  BY <1>0, <2>1, <2>2 DEF OnePlace
<1>7. ASSUME NEW t \in Thread, NEW o \in Obj, Retire(t, o) PROVE OnePlace'
  <2> DEFINE now == index[t]
  <2>1. o \in pending[t] /\ UNCHANGED <<linked, available>>
    BY <1>7 DEF Retire
  <2>2. pending'[t] = pending[t] \ {o} /\ \A u \in Thread \ {t} : pending'[u] = pending[u]
    BY <1>0, <1>7 DEF Retire, TypeOK
  <2>3. now \in EpochBag
    BY <1>0 DEF TypeOK
  <2>4. bags' = [bags EXCEPT ![t][now] = bags[t][now] \cup {o}]
    BY <1>7 DEF Retire
  <2> HIDE DEF now
  <2>5. bags'[t][now] = bags[t][now] \cup {o}
    BY <1>0, <2>3, <2>4 DEF TypeOK
  <2>6. \A u \in Thread, i \in EpochBag : <<u, i>> # <<t, now>> => bags'[u][i] = bags[u][i]
    BY <1>0, <2>3, <2>4 DEF TypeOK
  <2>7. \A u \in Thread, i \in EpochBag : o \notin bags[u][i]
    BY <1>0, <2>1 DEF OnePlace
  <2>8. \A u \in Thread, i \in EpochBag : bags'[u][i] \subseteq bags[u][i] \cup {o}
    BY <2>5, <2>6
  <2>9. o \notin linked /\ o \notin available
    BY <1>0, <2>1 DEF OnePlace
  <2>10. \A u \in Thread : pending'[u] \subseteq pending[u] \ {o}
    BY <1>0, <2>1, <2>2 DEF OnePlace
  <2>11. (linked \cap available = {})' /\ \A u \in Thread : (pending[u] \cap (linked \cup available) = {})'
    BY <1>0, <2>1, <2>10 DEF OnePlace
  <2>12. \A u \in Thread, i \in EpochBag : (bags[u][i] \cap (linked \cup available) = {})'
    BY <1>0, <2>1, <2>8, <2>9 DEF OnePlace
  <2>13. \A u, v \in Thread, i \in EpochBag : (pending[u] \cap bags[v][i] = {})'
    BY <1>0, <2>8, <2>10 DEF OnePlace
  <2>14. \A u, v \in Thread : u # v => (pending[u] \cap pending[v] = {})'
    BY <1>0, <2>10 DEF OnePlace
  <2>15. ASSUME NEW u \in Thread, NEW v \in Thread, NEW i \in EpochBag, NEW j \in EpochBag,
                <<u, i>> # <<v, j>>
         PROVE  bags'[u][i] \cap bags'[v][j] = {}
    <3>1. bags[u][i] \cap bags[v][j] = {}
      BY <1>0, <2>15 DEF OnePlace
    <3>2. <<u, i>> # <<t, now>> \/ <<v, j>> # <<t, now>>
      BY <2>15
    <3>3. CASE <<u, i>> # <<t, now>>
      BY <2>6, <2>7, <2>8, <3>1, <3>3
    <3>4. CASE <<v, j>> # <<t, now>>
      BY <2>6, <2>7, <2>8, <3>1, <3>4
    <3> QED
      BY <3>2, <3>3, <3>4
  <2> QED
    BY <2>11, <2>12, <2>13, <2>14, <2>15 DEF OnePlace
<1>8. CASE UNCHANGED vars
  BY <1>1, <1>8 DEF vars, client, limbo
<1>. QED  BY <1>2, <1>4, <1>5, <1>6, <1>7, <1>8 DEF Next, Running

(* A signal is sent to a thread in an operation, which it ends.            *)
LEMMA PhasesStep ==
  ASSUME NUM_PROCESSES \in Nat, MAX_PROTECT_EVEN_IF_QUIESCENT \in Nat, PlusInv, [Next]_vars
  PROVE  Phases'
<1>0. TypeOK /\ Phases /\ ScanPlace
  BY DEF PlusInv
<1>1. ASSUME NEW t \in Thread, pc[t] \notin {"in", "protect"}, pc'[t] \notin {"in", "protect"},
             \A u \in Thread \ {t} : pc'[u] = pc[u],
             UNCHANGED <<announced, window, signalled>>,
             \A u \in Thread \ {t} : protected'[u] = protected[u]
      PROVE  Phases'
  BY <1>0, <1>1 DEF Phases, Active
<1>2. ASSUME NEW t \in Thread, ReadEpoch(t) PROVE Phases'
  BY <1>0, <1>1, <1>2, ReadEpochFacts DEF client
<1>3. ASSUME NEW t \in Thread, ReadSize(t) PROVE Phases'
  BY <1>0, <1>1, <1>3, ReadSizeFacts DEF client
<1>4. ASSUME NEW t \in Thread, ReadEntry(t) PROVE Phases'
  BY <1>0, <1>1, <1>4, ReadEntryFacts DEF client
<1>5. ASSUME NEW t \in Thread, FreeUnprotected(t) PROVE Phases'
  BY <1>0, <1>1, <1>5, FreeFacts
<1>6. ASSUME NEW t \in Thread, Advance(t) \/ Recovered(t) \/ QUnprotectAll(t) PROVE Phases'
  BY <1>0, <1>1, <1>6 DEF Advance, Recovered, QUnprotectAll, Step, client, reclaimer, TypeOK
<1>7. ASSUME NEW t \in Thread, NEW o \in Obj, Retire(t, o) PROVE Phases'
  BY <1>0, <1>1, <1>7 DEF Retire, Step, TypeOK
<1>8. ASSUME NEW t \in Thread, Scan(t) PROVE Phases'
  <2>1. /\ UNCHANGED <<window, announced, protected>>
        /\ pc[t] = "scan" /\ pc'[t] \in {"advance", "announce"}
        /\ \A u \in Thread \ {t} : pc'[u] = pc[u]
    BY <1>0, <1>8, ScanFacts DEF client
  <2>2. \A u \in Thread : u \in signalled' => u \in signalled \/ Active(u)
    BY <1>0, <1>8, ScanFacts DEF Passes, Active
  <2>. QED  BY <1>0, <2>1, <2>2 DEF Phases, Active
<1>9. ASSUME NEW t \in Thread, Announce(t) PROVE Phases'
  BY <1>0, <1>9 DEF Announce, Step, TypeOK, Phases, Active
<1>10. ASSUME NEW t \in Thread, NEW o \in Obj, Link(t, o) PROVE Phases'
  <2>1. UNCHANGED <<announced, signalled, protected, pc>>
    BY <1>0, <1>10 DEF Link, Step, reclaimer, TypeOK
  <2>2. \A u \in Thread : /\ ~Active(u) => window'[u] = window[u]
                          /\ window[u] \subseteq window'[u]
    BY <1>0, <1>10 DEF Link, TypeOK
  <2>. QED  BY <1>0, <2>1, <2>2 DEF Phases, Active
<1>11. ASSUME NEW t \in Thread, NEW o \in Obj, Unlink(t, o) PROVE Phases'
  BY <1>0, <1>11 DEF Unlink, Step, reclaimer, TypeOK, Phases, Active
<1>12. ASSUME NEW t \in Thread, NEW o \in Obj, QProtect(t, o) PROVE Phases'
  <2>1. /\ UNCHANGED <<announced, signalled, window>>
        /\ pc[t] = "in" /\ pc'[t] = "protect"
        /\ \A u \in Thread \ {t} : pc'[u] = pc[u] /\ protected'[u] = protected[u]
    BY <1>0, <1>12 DEF QProtect, Step, client, TypeOK
  <2>2. protected[t].size < MAX_PROTECT_EVEN_IF_QUIESCENT /\ o \in window[t]
    BY <1>12 DEF QProtect
  <2>3. protected[t].size + 1 \in Entry
    <3>1. protected[t].size \in Nat /\ MAX_PROTECT_EVEN_IF_QUIESCENT \in Nat
      BY <1>0 DEF TypeOK, List
    <3>. QED  BY <2>2, <3>1 DEF Entry
  <2>4. protected'[t].size = protected[t].size /\ protected'[t].data[protected[t].size + 1] = o
    BY <1>0, <1>12, <2>3 DEF QProtect, TypeOK, List
  <2>. QED  BY <1>0, <2>1, <2>2, <2>4 DEF Phases, Active
<1>13. ASSUME NEW t \in Thread, QProtected(t) PROVE Phases'
  BY <1>0, <1>13 DEF QProtected, Step, client, TypeOK, Phases, Active
<1>14. ASSUME NEW t \in Thread, EndOp(t) PROVE Phases'
  <2>1. t \notin signalled /\ pc'[t] = "after" /\ \A u \in Thread \ {t} : pc'[u] = pc[u]
    BY <1>0, <1>14 DEF EndOp, Step, Undisturbed, TypeOK
  <2>2. /\ announced'[t].quiescent /\ window'[t] = {}
        /\ \A u \in Thread \ {t} : announced'[u] = announced[u] /\ window'[u] = window[u]
        /\ UNCHANGED <<signalled, protected>>
    BY <1>0, <1>14 DEF EndOp, SetQuiescent, TypeOK, Announcement
  <2>. QED  BY <1>0, <2>1, <2>2 DEF Phases, Active
<1>15. ASSUME NEW t \in Thread, Handle(t) PROVE Phases'
  <2>1. /\ announced'[t].quiescent /\ window'[t] = {} /\ pc'[t] = "recover" /\ t \notin signalled'
        /\ \A u \in Thread \ {t} : announced'[u] = announced[u] /\ window'[u] = window[u] /\ pc'[u] = pc[u]
        /\ \A u \in Thread \ {t} : u \in signalled' <=> u \in signalled
        /\ UNCHANGED protected
    BY <1>0, <1>15, HandleFacts DEF TypeOK, Announcement
  <2>. QED  BY <1>0, <2>1 DEF Phases, Active
<1>16. CASE UNCHANGED vars
  BY <1>0, <1>16 DEF vars, client, Phases, Active
<1>. QED
  BY <1>2, <1>3, <1>4, <1>5, <1>6, <1>7, <1>8, <1>9, <1>10, <1>11, <1>12, <1>13, <1>14, <1>15, <1>16
     DEF Next, Running

(* The epoch only grows, and a thread announces the one that it has read   *)
(* last.                                                                   *)
LEMMA BehindStep ==
  ASSUME NUM_PROCESSES \in Nat, MAX_PROTECT_EVEN_IF_QUIESCENT \in Nat, PlusInv, [Next]_vars
  PROVE  Behind'
<1>0. TypeOK /\ Behind /\ Phases /\ ScanPlace
  BY DEF PlusInv
<1>n. epoch \in Nat /\ \A u \in Thread : local[u].epoch \in Nat /\ announced[u].epoch \in Nat
  BY <1>0 DEF TypeOK, Announcement, Local
<1>1. ASSUME UNCHANGED epoch,
             \A u \in Thread : /\ announced'[u].epoch = announced[u].epoch /\ local'[u].epoch = local[u].epoch
                               /\ ~Starting(u)' => ~Starting(u)
      PROVE  Behind'
  BY <1>0, <1>1 DEF Behind
<1>2. ASSUME NEW t \in Thread, ReadEpoch(t) PROVE Behind'
  <2>1. /\ UNCHANGED <<epoch, announced>> /\ Starting(t)'
        /\ \A u \in Thread \ {t} : pc'[u] = pc[u]
    BY <1>0, <1>2, ReadEpochFacts DEF Starting
  <2>2. local'[t].epoch = epoch /\ \A u \in Thread \ {t} : local'[u].epoch = local[u].epoch
    BY <1>0, <1>2, ReadEpochFacts, SetEpoch DEF TypeOK
  <2>. QED  BY <1>0, <1>n, <2>1, <2>2 DEF Behind, Starting
<1>3. ASSUME NEW t \in Thread, ReadSize(t) PROVE Behind'
  <2>1. /\ UNCHANGED <<epoch, announced>> /\ Starting(t) /\ Starting(t)'
        /\ \A u \in Thread \ {t} : pc'[u] = pc[u]
    BY <1>0, <1>3, ReadSizeFacts DEF Starting
  <2>2. \A u \in Thread : local'[u].epoch = local[u].epoch
    <3>1. UNCHANGED local \/ \E r : local' = [local EXCEPT ![t].scan = r]
      BY <1>0, <1>3, ReadSizeFacts
    <3>2. ASSUME NEW r, local' = [local EXCEPT ![t].scan = r], NEW u \in Thread
          PROVE  local'[u].epoch = local[u].epoch
      BY <1>0, <3>2 DEF TypeOK, Local
    <3>. QED  BY <3>1, <3>2
  <2>. QED  BY <1>1, <2>1, <2>2 DEF Starting
<1>4. ASSUME NEW t \in Thread, ReadEntry(t) PROVE Behind'
  <2>1. /\ UNCHANGED <<epoch, announced>> /\ Starting(t) /\ Starting(t)'
        /\ \A u \in Thread \ {t} : pc'[u] = pc[u]
    BY <1>0, <1>4, ReadEntryFacts DEF Starting
  <2>2. \A u \in Thread : local'[u].epoch = local[u].epoch
    <3>1. PICK r \in ListScan : local' = [local EXCEPT ![t].scan = r]
      BY <1>0, <1>4, ReadEntryFacts
    <3>. QED  BY <1>0, <3>1, SetScan DEF TypeOK
  <2>. QED  BY <1>1, <2>1, <2>2 DEF Starting
<1>5. ASSUME NEW t \in Thread, FreeUnprotected(t) PROVE Behind'
  <2>1. /\ UNCHANGED <<epoch, announced>> /\ Starting(t) /\ Starting(t)'
        /\ \A u \in Thread \ {t} : pc'[u] = pc[u]
    BY <1>0, <1>5, FreeFacts DEF Starting
  <2>2. \A u \in Thread : local'[u].epoch = local[u].epoch
    <3>1. local' = [local EXCEPT ![t].scan = NoScan]
      BY <1>0, <1>5, FreeFacts
    <3>. QED  BY <1>0, <3>1, SetScan, NoScanType DEF TypeOK
  <2>. QED  BY <1>1, <2>1, <2>2 DEF Starting
<1>6. ASSUME NEW t \in Thread, Scan(t) PROVE Behind'
  <2>1. /\ UNCHANGED <<epoch, announced, local>> /\ Starting(t) /\ Starting(t)'
        /\ \A u \in Thread \ {t} : pc'[u] = pc[u]
    BY <1>0, <1>6, ScanFacts DEF Starting
  <2>. QED  BY <1>1, <2>1 DEF Starting
<1>7. ASSUME NEW t \in Thread, Advance(t) PROVE Behind'
  <2>1. epoch' >= epoch /\ epoch' \in Nat
    BY <1>n, <1>7 DEF Advance
  <2>2. UNCHANGED <<announced, local>>
    BY <1>7 DEF Advance
  <2>3. \A u \in Thread : Starting(u)' <=> Starting(u)
    BY <1>0, <1>7 DEF Advance, Step, TypeOK, Starting
  <2>. QED  BY <1>0, <1>n, <2>1, <2>2, <2>3 DEF Behind
<1>8. ASSUME NEW t \in Thread, Announce(t) PROVE Behind'
  <2>1. /\ UNCHANGED <<epoch, local>>
        /\ announced'[t].epoch = local[t].epoch
        /\ \A u \in Thread \ {t} : announced'[u] = announced[u] /\ pc'[u] = pc[u]
    BY <1>0, <1>8 DEF Announce, Step, TypeOK
  <2>. QED  BY <1>0, <1>n, <2>1 DEF Behind, Starting
<1>9. ASSUME NEW t \in Thread, NEW o \in Obj, Link(t, o) \/ Unlink(t, o) \/ QProtect(t, o) \/ Retire(t, o) PROVE Behind'
  <2>1. UNCHANGED <<epoch, announced, local>>
    BY <1>9 DEF Link, Unlink, QProtect, Retire, reclaimer
  <2>2. \A u \in Thread : Starting(u)' <=> Starting(u)
    BY <1>0, <1>9 DEF Link, Unlink, QProtect, Retire, Step, TypeOK, Starting
  <2>. QED  BY <1>1, <2>1, <2>2
<1>10. ASSUME NEW t \in Thread, QProtected(t) \/ Recovered(t) \/ QUnprotectAll(t) PROVE Behind'
  <2>1. UNCHANGED <<epoch, announced, local>>
    BY <1>10 DEF QProtected, Recovered, QUnprotectAll, reclaimer
  <2>2. \A u \in Thread : Starting(u)' <=> Starting(u)
    BY <1>0, <1>10 DEF QProtected, Recovered, QUnprotectAll, Step, TypeOK, Starting
  <2>. QED  BY <1>1, <2>1, <2>2
<1>11. ASSUME NEW t \in Thread, EndOp(t) PROVE Behind'
  <2>1. UNCHANGED <<epoch, local>> /\ \A u \in Thread : announced'[u].epoch = announced[u].epoch
    BY <1>0, <1>11 DEF EndOp, SetQuiescent, TypeOK, Announcement
  <2>2. \A u \in Thread : Starting(u)' <=> Starting(u)
    BY <1>0, <1>11 DEF EndOp, Step, TypeOK, Starting
  <2>. QED  BY <1>1, <2>1, <2>2
<1>12. ASSUME NEW t \in Thread, Handle(t) PROVE Behind'
  <2>1. UNCHANGED <<epoch, local>> /\ \A u \in Thread : announced'[u].epoch = announced[u].epoch
    BY <1>0, <1>12, HandleFacts, QuiescentNow DEF TypeOK
  <2>2. \A u \in Thread : Starting(u)' <=> Starting(u)
    BY <1>0, <1>12, HandleFacts DEF TypeOK, Phases, Starting
  <2>. QED  BY <1>1, <2>1, <2>2
<1>13. CASE UNCHANGED vars
  BY <1>1, <1>13 DEF vars, Starting
<1>. QED
  BY <1>2, <1>3, <1>4, <1>5, <1>6, <1>7, <1>8, <1>9, <1>10, <1>11, <1>12, <1>13 DEF Next, Running

(* The CAS on the epoch comes after the last announcement.                 *)
LEMMA FullScanStep ==
  ASSUME NUM_PROCESSES \in Nat, MAX_PROTECT_EVEN_IF_QUIESCENT \in Nat, PlusInv, [Next]_vars
  PROVE  FullScan'
<1>0. TypeOK /\ FullScan /\ Phases /\ ScanPlace
  BY DEF PlusInv
<1>1. ASSUME NEW t \in Thread, pc'[t] # "advance", \A u \in Thread \ {t} : pc'[u] = pc[u] /\ checked'[u] = checked[u]
      PROVE  FullScan'
  BY <1>0, <1>1 DEF FullScan
<1>2. ASSUME NEW t \in Thread, ReadEpoch(t) PROVE FullScan'
  <2>1. \A u \in Thread \ {t} : checked'[u] = checked[u]
    BY <1>0, <1>2, ReadEpochFacts DEF TypeOK
  <2>. QED  BY <1>0, <1>1, <1>2, <2>1, ReadEpochFacts
<1>3. ASSUME NEW t \in Thread, ReadSize(t) PROVE FullScan'
  BY <1>0, <1>1, <1>3, ReadSizeFacts
<1>4. ASSUME NEW t \in Thread, ReadEntry(t) PROVE FullScan'
  BY <1>0, <1>1, <1>4, ReadEntryFacts
<1>5. ASSUME NEW t \in Thread, FreeUnprotected(t) PROVE FullScan'
  BY <1>0, <1>1, <1>5, FreeFacts
<1>6. ASSUME NEW t \in Thread, Scan(t) PROVE FullScan'
  <2>1. \A u \in Thread \ {t} : pc'[u] = pc[u] /\ checked'[u] = checked[u]
    BY <1>0, <1>6, ScanFacts DEF TypeOK
  <2>2. pc'[t] = "advance" => checked'[t] = checked[t] + 1 /\ checked[t] + 1 >= NUM_PROCESSES
    BY <1>0, <1>6, ScanFacts DEF TypeOK
  <2>. QED  BY <1>0, <2>1, <2>2 DEF FullScan
<1>7. ASSUME NEW t \in Thread,
             Advance(t) \/ Announce(t) \/ QProtected(t) \/ Recovered(t) \/ QUnprotectAll(t) \/ EndOp(t)
               \/ \E o \in Obj : Link(t, o) \/ Unlink(t, o) \/ QProtect(t, o) \/ Retire(t, o)
      PROVE  FullScan'
  <2>1. UNCHANGED checked
    BY <1>7 DEF Advance, Announce, QProtected, Recovered, QUnprotectAll, EndOp, Link, Unlink,
       QProtect, Retire, reclaimer
  <2>2. pc'[t] # "advance" /\ \A u \in Thread \ {t} : pc'[u] = pc[u]
    BY <1>0, <1>7 DEF Advance, Announce, QProtected, Recovered, QUnprotectAll, EndOp, Link, Unlink,
       QProtect, Retire, Step, TypeOK
  <2>. QED  BY <1>1, <2>1, <2>2
<1>8. ASSUME NEW t \in Thread, Handle(t) PROVE FullScan'
  BY <1>0, <1>1, <1>8, HandleFacts DEF TypeOK
<1>9. CASE UNCHANGED vars
  BY <1>0, <1>9 DEF vars, FullScan
<1>. QED
  BY <1>2, <1>3, <1>4, <1>5, <1>6, <1>7, <1>8, <1>9 DEF Next, Running

(* The scan of the lists goes from one list to the next, entry by entry.   *)
LEMMA ScanPlaceStep ==
  ASSUME NUM_PROCESSES \in Nat, MAX_PROTECT_EVEN_IF_QUIESCENT \in Nat, PlusInv, [Next]_vars
  PROVE  ScanPlace'
<1>0. TypeOK /\ ScanPlace /\ Phases
  BY DEF PlusInv
<1>1. ASSUME NEW t \in Thread, UNCHANGED local,
             \A u \in Thread \ {t} : pc'[u] = pc[u],
             ~Freeing(t), ~Freeing(t)'
      PROVE  ScanPlace'
  BY <1>0, <1>1 DEF ScanPlace, Freeing
<1>2. ASSUME NEW t \in Thread, ReadEpoch(t) PROVE ScanPlace'
  <2>1. /\ pc[t] = "idle" /\ pc'[t] \in {"scan", "protected"}
        /\ \A u \in Thread \ {t} : pc'[u] = pc[u]
    BY <1>0, <1>2, ReadEpochFacts
  <2>2. local'[t].scan = local[t].scan /\ \A u \in Thread \ {t} : local'[u] = local[u]
    BY <1>0, <1>2, ReadEpochFacts, SetEpoch DEF TypeOK
  <2>3. local[t].scan = NoScan
    BY <1>0, <2>1 DEF ScanPlace, Freeing
  <2>. QED  BY <1>0, <2>1, <2>2, <2>3 DEF ScanPlace, Freeing, NoScan
<1>3. ASSUME NEW t \in Thread, ReadSize(t) PROVE ScanPlace'
  <2> DEFINE s == local[t].scan
  <2>1. s \in ListScan /\ s.list \in Nat /\ s.list <= NUM_PROCESSES
    BY <1>0, <1>3, ReadSizeFacts DEF TypeOK, Local, ListScan, ScanPlace
  <2>2. \A u \in Thread \ {t} : pc'[u] = pc[u]
    BY <1>0, <1>3, ReadSizeFacts
  <2>3. CASE s.list = NUM_PROCESSES /\ pc'[t] = "free" /\ UNCHANGED local
    BY <1>0, <2>2, <2>3 DEF ScanPlace, Freeing
  <2>4. CASE /\ s.list # NUM_PROCESSES /\ pc'[t] = "protected"
             /\ local' = [local EXCEPT ![t].scan = [s EXCEPT !.list = s.list + 1]]
    <3>1. local'[t].scan = [s EXCEPT !.list = s.list + 1] /\ \A u \in Thread \ {t} : local'[u] = local[u]
      BY <1>0, <2>4 DEF TypeOK, Local
    <3>2. local'[t].scan.list = s.list + 1
      BY <2>1, <3>1 DEF ListScan
    <3>3. s.list + 1 <= NUM_PROCESSES
      BY <2>1, <2>4
    <3>. HIDE DEF s
    <3>. QED  BY <1>0, <2>2, <2>4, <3>1, <3>2, <3>3 DEF ScanPlace, Freeing
  <2>5. CASE /\ s.list # NUM_PROCESSES /\ protected[s.list].size # 0 /\ pc'[t] = "entry"
             /\ local' = [local EXCEPT ![t].scan = [s EXCEPT !.next = 1, !.size = protected[s.list].size]]
    <3>1. local'[t].scan = [s EXCEPT !.next = 1, !.size = protected[s.list].size] /\ \A u \in Thread \ {t} : local'[u] = local[u]
      BY <1>0, <2>5 DEF TypeOK, Local
    <3>2. /\ local'[t].scan.list = s.list /\ local'[t].scan.next = 1
          /\ local'[t].scan.size = protected[s.list].size
      BY <2>1, <3>1 DEF ListScan
    <3>3. s.list \in Thread
      BY <2>1, <2>5 DEF Thread
    <3>4. protected[s.list].size \in 1 .. MAX_PROTECT_EVEN_IF_QUIESCENT
      <4>1. protected[s.list].size \in 0 .. MAX_PROTECT_EVEN_IF_QUIESCENT
        BY <1>0, <3>3 DEF TypeOK, List
      <4>. QED  BY <2>5, <4>1
    <3>5. s.list < NUM_PROCESSES
      BY <3>3 DEF Thread
    <3>. HIDE DEF s
    <3>6. 1 <= protected[s.list].size /\ protected[s.list].size <= MAX_PROTECT_EVEN_IF_QUIESCENT
      BY <3>4
    <3>. QED  BY <1>0, <2>2, <2>5, <3>1, <3>2, <3>5, <3>6 DEF ScanPlace, Freeing
  <2>. QED  BY <1>0, <1>3, <2>3, <2>4, <2>5, ReadSizeFacts
<1>4. ASSUME NEW t \in Thread, ReadEntry(t) PROVE ScanPlace'
  <2> DEFINE s == local[t].scan
  <2>1. /\ s.list \in Nat /\ s.next \in Nat /\ s.size \in Nat
        /\ s.list < NUM_PROCESSES /\ 1 <= s.next /\ s.next <= s.size /\ s.size <= MAX_PROTECT_EVEN_IF_QUIESCENT
    BY <1>0, <1>4, ReadEntryFacts DEF TypeOK, Local, ListScan, ScanPlace
  <2>2. \A u \in Thread \ {t} : pc'[u] = pc[u]
    BY <1>0, <1>4, ReadEntryFacts
  <2>3. PICK r \in ListScan :
          /\ local' = [local EXCEPT ![t].scan = r]
          /\ \/ s.next = s.size /\ pc'[t] = "protected" /\ r.list = s.list + 1
             \/ s.next # s.size /\ pc'[t] = "entry" /\ r.list = s.list /\ r.next = s.next + 1 /\ r.size = s.size
    BY <1>0, <1>4, ReadEntryFacts
  <2>4. local'[t].scan = r /\ \A u \in Thread \ {t} : local'[u] = local[u]
    BY <1>0, <2>3, SetScan DEF TypeOK
  <2>5. s.list + 1 <= NUM_PROCESSES
    BY <2>1
  <2>6. s.next # s.size => 1 <= s.next + 1 /\ s.next + 1 <= s.size
    BY <2>1
  <2>7. s.list < NUM_PROCESSES /\ s.size <= MAX_PROTECT_EVEN_IF_QUIESCENT
    BY <2>1
  <2>. HIDE DEF s
  <2>. QED  BY <1>0, <2>2, <2>3, <2>4, <2>5, <2>6, <2>7 DEF ScanPlace, Freeing
<1>5. ASSUME NEW t \in Thread, FreeUnprotected(t) PROVE ScanPlace'
  <2>1. local'[t].scan = NoScan /\ \A u \in Thread \ {t} : local'[u] = local[u]
    BY <1>0, <1>5, FreeFacts, SetScan, NoScanType DEF TypeOK
  <2>2. pc'[t] = "scan" /\ \A u \in Thread \ {t} : pc'[u] = pc[u]
    BY <1>0, <1>5, FreeFacts
  <2>. QED  BY <1>0, <2>1, <2>2 DEF ScanPlace, Freeing
<1>6. ASSUME NEW t \in Thread, Scan(t) PROVE ScanPlace'
  BY <1>0, <1>1, <1>6, ScanFacts DEF Freeing
<1>7. ASSUME NEW t \in Thread,
             Advance(t) \/ Announce(t) \/ QProtected(t) \/ Recovered(t) \/ QUnprotectAll(t) \/ EndOp(t)
               \/ \E o \in Obj : Link(t, o) \/ Unlink(t, o) \/ QProtect(t, o) \/ Retire(t, o)
      PROVE  ScanPlace'
  <2>1. UNCHANGED local
    BY <1>7 DEF Advance, Announce, QProtected, Recovered, QUnprotectAll, EndOp, Link, Unlink,
       QProtect, Retire, reclaimer
  <2>2. ~Freeing(t) /\ ~Freeing(t)' /\ \A u \in Thread \ {t} : pc'[u] = pc[u]
    BY <1>0, <1>7 DEF Advance, Announce, QProtected, Recovered, QUnprotectAll, EndOp, Link, Unlink,
       QProtect, Retire, Step, TypeOK, Freeing
  <2>. QED  BY <1>1, <2>1, <2>2
<1>8. ASSUME NEW t \in Thread, Handle(t) PROVE ScanPlace'
  BY <1>0, <1>1, <1>8, HandleFacts DEF TypeOK, Freeing, Phases
<1>9. CASE UNCHANGED vars
  BY <1>0, <1>9 DEF vars, ScanPlace, Freeing
<1>. QED
  BY <1>2, <1>3, <1>4, <1>5, <1>6, <1>7, <1>8, <1>9 DEF Next, Running

(* What is protected, and in the bag that is to be freed, was there when   *)
(* the bag became the current one: nobody can protect it any more.         *)
LEMMA ScannedStep ==
  ASSUME NUM_PROCESSES \in Nat, MAX_PROTECT_EVEN_IF_QUIESCENT \in Nat, PlusInv, [Next]_vars
  PROVE  Scanned'
<1>0. TypeOK /\ ScanPlace /\ Phases /\ Behind /\ Aged /\ Scanned
  BY DEF PlusInv
<1>1. ASSUME \A s \in Thread :
               Freeing(s)' => /\ Freeing(s) /\ pc'[s] = pc[s] /\ local'[s].scan = local[s].scan
                              /\ CurrentBag(s)' \subseteq CurrentBag(s),
             \A u \in Thread : \A i \in 1 .. protected'[u].size :
               i \in 1 .. protected[u].size /\ protected'[u].data[i] = protected[u].data[i]
      PROVE  Scanned'
  <2> SUFFICES ASSUME NEW s \in Thread, NEW u \in Thread, NEW i \in 1 .. protected'[u].size,
                      Freeing(s)', protected'[u].data[i] \in CurrentBag(s)'
               PROVE  protected'[u].data[i] \in local'[s].scan.comparing \/ Ahead(s, u, i)'
    BY DEF Scanned
  <2>1. protected[u].data[i] \in local[s].scan.comparing \/ Ahead(s, u, i)
    BY <1>0, <1>1 DEF Scanned
  <2>. QED  BY <1>1, <2>1 DEF Ahead
<1>2. ASSUME NEW t \in Thread, ReadEpoch(t) PROVE Scanned'
  <2>1. /\ pc[t] = "idle" /\ pc'[t] \in {"scan", "protected"}
        /\ \A u \in Thread \ {t} : pc'[u] = pc[u]
        /\ UNCHANGED <<protected, bags>>
    BY <1>0, <1>2, ReadEpochFacts
  <2>2. local'[t].scan = local[t].scan /\ \A u \in Thread \ {t} : local'[u] = local[u]
    BY <1>0, <1>2, ReadEpochFacts, SetEpoch DEF TypeOK
  <2>3. local[t].scan = NoScan
    BY <1>0, <2>1 DEF ScanPlace, Freeing
  <2>4. \A s \in Thread \ {t} : index'[s] = index[s]
    <3>1. index' = index \/ index' = [index EXCEPT ![t] = (index[t] + 1) % 3]
      BY <1>0, <1>2, ReadEpochFacts
    <3>. QED  BY <1>0, <3>1 DEF TypeOK
  <2> SUFFICES ASSUME NEW s \in Thread, NEW u \in Thread, NEW i \in 1 .. protected[u].size,
                      Freeing(s)', protected[u].data[i] \in CurrentBag(s)'
               PROVE  protected[u].data[i] \in local'[s].scan.comparing \/ Ahead(s, u, i)'
    BY <2>1 DEF Scanned
  <2>5. CASE s = t
    <3>1. local'[s].scan.list = 0 /\ pc'[s] # "entry"
      BY <2>1, <2>2, <2>3, <2>5 DEF NoScan
    <3>2. 0 < u \/ 0 = u
      BY DEF Thread
    <3>. QED  BY <3>1, <3>2 DEF Ahead
  <2>6. CASE s # t
    <3>1. Freeing(s) /\ CurrentBag(s)' = CurrentBag(s) /\ local'[s] = local[s] /\ pc'[s] = pc[s]
      BY <2>1, <2>2, <2>4, <2>6 DEF Freeing, CurrentBag
    <3>2. protected[u].data[i] \in local[s].scan.comparing \/ Ahead(s, u, i)
      BY <1>0, <3>1 DEF Scanned
    <3>. QED  BY <3>1, <3>2 DEF Ahead
  <2>. QED  BY <2>5, <2>6
<1>3. ASSUME NEW t \in Thread, UNCHANGED <<protected, bags, index>>, Freeing(t), Freeing(t)',
             \A u \in Thread \ {t} : pc'[u] = pc[u] /\ local'[u] = local[u],
             local[t].scan.comparing \subseteq local'[t].scan.comparing,
             \A u \in Thread : \A i \in 1 .. protected[u].size :
               Ahead(t, u, i) => Ahead(t, u, i)' \/ protected[u].data[i] \in local'[t].scan.comparing
      PROVE  Scanned'
  <2> SUFFICES ASSUME NEW s \in Thread, NEW u \in Thread, NEW i \in 1 .. protected[u].size,
                      Freeing(s)', protected[u].data[i] \in CurrentBag(s)'
               PROVE  protected[u].data[i] \in local'[s].scan.comparing \/ Ahead(s, u, i)'
    BY <1>3 DEF Scanned
  <2>1. CurrentBag(s)' = CurrentBag(s)
    BY <1>3 DEF CurrentBag
  <2>2. Freeing(s)
    BY <1>3 DEF Freeing
  <2>3. protected[u].data[i] \in local[s].scan.comparing \/ Ahead(s, u, i)
    BY <1>0, <2>1, <2>2 DEF Scanned
  <2>4. CASE s = t
    BY <1>3, <2>3, <2>4
  <2>5. CASE s # t
    BY <1>3, <2>3, <2>5 DEF Ahead
  <2>. QED  BY <2>4, <2>5
<1>4. ASSUME NEW t \in Thread, ReadSize(t) PROVE Scanned'
  <2> DEFINE s == local[t].scan
  <2>1. s \in ListScan /\ s.list \in Nat /\ s.list <= NUM_PROCESSES
    BY <1>0, <1>4, ReadSizeFacts DEF TypeOK, Local, ListScan, ScanPlace
  <2>2. /\ pc[t] = "protected" /\ \A u \in Thread \ {t} : pc'[u] = pc[u]
        /\ UNCHANGED <<protected, bags, index>>
    BY <1>0, <1>4, ReadSizeFacts DEF limbo
  <2>3. CASE s.list = NUM_PROCESSES /\ pc'[t] = "free" /\ UNCHANGED local
    <3>1. \A u \in Thread : \A i : ~Ahead(t, u, i)
      BY <2>1, <2>3 DEF Ahead, Thread
    <3>. QED  BY <1>3, <2>2, <2>3, <3>1 DEF Freeing
  <2>4. CASE /\ s.list # NUM_PROCESSES /\ protected[s.list].size = 0 /\ pc'[t] = "protected"
             /\ local' = [local EXCEPT ![t].scan = [s EXCEPT !.list = s.list + 1]]
    <3>1. local'[t].scan = [s EXCEPT !.list = s.list + 1] /\ \A u \in Thread \ {t} : local'[u] = local[u]
      BY <1>0, <2>4 DEF TypeOK, Local
    <3>2. local'[t].scan.list = s.list + 1 /\ local'[t].scan.comparing = s.comparing
      BY <2>1, <3>1 DEF ListScan
    <3>3. ASSUME NEW u \in Thread, NEW i \in 1 .. protected[u].size, Ahead(t, u, i) PROVE Ahead(t, u, i)'
      <4>1. u # s.list
        BY <2>4, <3>3
      <4>2. s.list < u
        BY <3>3, <4>1 DEF Ahead
      <4>3. s.list + 1 < u \/ s.list + 1 = u
        BY <2>1, <4>2 DEF Thread
      <4>. QED  BY <2>4, <3>2, <4>3 DEF Ahead
    <3>. QED  BY <1>3, <2>2, <2>4, <3>1, <3>2, <3>3 DEF Freeing
  <2>5. CASE /\ s.list # NUM_PROCESSES /\ pc'[t] = "entry"
             /\ local' = [local EXCEPT ![t].scan = [s EXCEPT !.next = 1, !.size = protected[s.list].size]]
    <3>1. local'[t].scan = [s EXCEPT !.next = 1, !.size = protected[s.list].size] /\ \A u \in Thread \ {t} : local'[u] = local[u]
      BY <1>0, <2>5 DEF TypeOK, Local
    <3>2. /\ local'[t].scan.list = s.list /\ local'[t].scan.comparing = s.comparing
          /\ local'[t].scan.next = 1 /\ local'[t].scan.size = protected[s.list].size
      BY <2>1, <3>1 DEF ListScan
    <3>3. ASSUME NEW u \in Thread, NEW i \in 1 .. protected[u].size, Ahead(t, u, i) PROVE Ahead(t, u, i)'
      <4>1. protected[u].size \in Nat
        BY <1>0 DEF TypeOK, List
      <4>2. 1 <= i /\ i <= protected[u].size
        BY <4>1
      <4>. QED  BY <3>2, <3>3, <4>2 DEF Ahead
    <3>. QED  BY <1>3, <2>2, <2>5, <3>1, <3>2, <3>3 DEF Freeing
  <2>. QED  BY <1>0, <1>4, <2>3, <2>4, <2>5, ReadSizeFacts
<1>5. ASSUME NEW t \in Thread, ReadEntry(t) PROVE Scanned'
  <2> DEFINE s == local[t].scan
             seen == s.comparing \cup {protected[s.list].data[s.next]}
  <2>1. /\ s.list \in Nat /\ s.next \in Nat /\ s.size \in Nat
        /\ s.list < NUM_PROCESSES /\ 1 <= s.next /\ s.next <= s.size /\ s.size <= MAX_PROTECT_EVEN_IF_QUIESCENT
    BY <1>0, <1>5, ReadEntryFacts DEF TypeOK, Local, ListScan, ScanPlace
  <2>2. /\ pc[t] = "entry" /\ \A u \in Thread \ {t} : pc'[u] = pc[u]
        /\ UNCHANGED <<protected, bags, index>>
    BY <1>0, <1>5, ReadEntryFacts DEF limbo
  <2>3. PICK r \in ListScan :
          /\ local' = [local EXCEPT ![t].scan = r]
          /\ r.comparing = seen
          /\ \/ s.next = s.size /\ pc'[t] = "protected" /\ r.list = s.list + 1
             \/ s.next # s.size /\ pc'[t] = "entry" /\ r.list = s.list /\ r.next = s.next + 1 /\ r.size = s.size
    BY <1>0, <1>5, ReadEntryFacts
  <2>4. local'[t].scan = r /\ \A u \in Thread \ {t} : local'[u] = local[u]
    BY <1>0, <2>3, SetScan DEF TypeOK
  <2>5. Freeing(t) /\ Freeing(t)'
    BY <2>2, <2>3 DEF Freeing
  <2>6. ASSUME NEW u \in Thread, NEW i \in 1 .. protected[u].size, Ahead(t, u, i)
        PROVE  Ahead(t, u, i)' \/ protected[u].data[i] \in seen
    <3>1. CASE s.list < u
      <4>1. s.list + 1 < u \/ s.list + 1 = u
        BY <2>1, <3>1 DEF Thread
      <4>. QED  BY <2>3, <2>4, <3>1, <4>1 DEF Ahead
    <3>2. CASE ~ (s.list < u)
      <4>1. s.list = u /\ s.next <= i /\ i <= s.size
        BY <2>2, <2>6, <3>2 DEF Ahead
      <4>2. CASE i = s.next
        BY <4>1, <4>2
      <4>3. CASE i # s.next
        <5>1. s.next + 1 <= i /\ s.next # s.size
          BY <2>1, <4>1, <4>3
        <5>. QED  BY <2>3, <2>4, <4>1, <5>1 DEF Ahead
      <4>. QED  BY <4>2, <4>3
    <3>. QED  BY <3>1, <3>2
  <2>7. s.comparing \subseteq seen
    OBVIOUS
  <2>. HIDE DEF s, seen
  <2>. QED  BY <1>3, <2>2, <2>3, <2>4, <2>5, <2>6, <2>7 DEF s
<1>6. ASSUME NEW t \in Thread, ~Freeing(t)',
             \A s \in Thread \ {t} : /\ pc'[s] = pc[s] /\ local'[s] = local[s]
                                     /\ index'[s] = index[s] /\ bags'[s] = bags[s],
             \A u \in Thread : \A i \in 1 .. protected'[u].size :
               i \in 1 .. protected[u].size /\ protected'[u].data[i] = protected[u].data[i]
      PROVE  Scanned'
  BY <1>1, <1>6 DEF Freeing, CurrentBag
<1>7. ASSUME NEW t \in Thread, FreeUnprotected(t) PROVE Scanned'
  <2>1. pc'[t] = "scan" /\ UNCHANGED <<protected, index>> /\ \A u \in Thread \ {t} : pc'[u] = pc[u]
    BY <1>0, <1>7, FreeFacts
  <2>2. \A u \in Thread \ {t} : local'[u] = local[u] /\ bags'[u] = bags[u]
    <3>1. local' = [local EXCEPT ![t].scan = NoScan] /\ \E left : bags' = [bags EXCEPT ![t][index[t]] = left]
      BY <1>0, <1>7, FreeFacts
    <3>. QED  BY <1>0, <3>1 DEF TypeOK
  <2>. QED  BY <1>6, <2>1, <2>2 DEF Freeing
<1>8. ASSUME NEW t \in Thread, Scan(t) PROVE Scanned'
  <2>1. pc'[t] \in {"advance", "announce"} /\ UNCHANGED <<protected, limbo, local>> /\ \A u \in Thread \ {t} : pc'[u] = pc[u]
    BY <1>0, <1>8, ScanFacts
  <2>. QED  BY <1>6, <2>1 DEF Freeing, limbo
<1>9. ASSUME NEW t \in Thread,
             Advance(t) \/ Announce(t) \/ Recovered(t) \/ EndOp(t) \/ Handle(t)
               \/ \E o \in Obj : Link(t, o) \/ Unlink(t, o)
      PROVE  Scanned'
  <2>1. UNCHANGED <<protected, bags, index, local>>
    BY <1>9 DEF Advance, Announce, Recovered, EndOp, Handle, Link, Unlink, reclaimer, limbo
  <2>2. ~Freeing(t)' /\ \A u \in Thread \ {t} : pc'[u] = pc[u]
    <3>1. CASE Handle(t)
      BY <1>0, <3>1, HandleFacts DEF TypeOK, Freeing
    <3>2. CASE ~Handle(t)
      BY <1>0, <1>9, <3>2 DEF Advance, Announce, Recovered, EndOp, Link, Unlink, Step, TypeOK, Freeing
    <3>. QED  BY <3>1, <3>2
  <2>. QED  BY <1>6, <2>1, <2>2
<1>10. ASSUME NEW t \in Thread, NEW o \in Obj, Retire(t, o) PROVE Scanned'
  <2>1. UNCHANGED <<protected, index, local>> /\ \A u \in Thread \ {t} : bags'[u] = bags[u]
    BY <1>0, <1>10 DEF Retire, TypeOK
  <2>2. ~Freeing(t)' /\ \A u \in Thread \ {t} : pc'[u] = pc[u]
    BY <1>0, <1>10 DEF Retire, Step, TypeOK, Freeing
  <2>. QED  BY <1>6, <2>1, <2>2
<1>11. ASSUME NEW t \in Thread, QUnprotectAll(t) PROVE Scanned'
  <2>1. UNCHANGED <<bags, index, local>>
    BY <1>11 DEF QUnprotectAll, limbo
  <2>2. ~Freeing(t)' /\ \A u \in Thread \ {t} : pc'[u] = pc[u]
    BY <1>0, <1>11 DEF QUnprotectAll, Step, TypeOK, Freeing
  <2>3. protected'[t].size = 0 /\ \A u \in Thread \ {t} : protected'[u] = protected[u]
    BY <1>0, <1>11 DEF QUnprotectAll, TypeOK, List
  <2>. QED  BY <1>6, <2>1, <2>2, <2>3
<1>12. ASSUME NEW t \in Thread, NEW o \in Obj, QProtect(t, o) PROVE Scanned'
  <2>1. UNCHANGED <<bags, index, local>>
    BY <1>12 DEF QProtect, limbo
  <2>2. ~Freeing(t)' /\ \A u \in Thread \ {t} : pc'[u] = pc[u]
    BY <1>0, <1>12 DEF QProtect, Step, TypeOK, Freeing
  <2>3. protected[t].size \in Nat /\ protected[t] \in List
    BY <1>0 DEF TypeOK, List
  <2>4. /\ \A u \in Thread \ {t} : protected'[u] = protected[u]
        /\ protected'[t] = [protected[t] EXCEPT !.data[protected[t].size + 1] = o]
    BY <1>0, <1>12 DEF QProtect, TypeOK
  <2>5. /\ protected'[t].size = protected[t].size
        /\ \A i \in 1 .. protected[t].size : protected'[t].data[i] = protected[t].data[i]
    BY <2>3, <2>4 DEF List
  <2>. QED  BY <1>6, <2>1, <2>2, <2>4, <2>5
<1>13. ASSUME NEW t \in Thread, QProtected(t) PROVE Scanned'
  <2>1. UNCHANGED <<bags, index, local>> /\ t \notin signalled /\ pc[t] = "protect"
    BY <1>13 DEF QProtected, limbo, Step, Undisturbed
  <2>2. ~Freeing(t)' /\ \A u \in Thread \ {t} : pc'[u] = pc[u]
    BY <1>0, <1>13 DEF QProtected, Step, TypeOK, Freeing
  <2>3. protected[t].size \in Nat /\ protected[t] \in List
    BY <1>0 DEF TypeOK, List
  <2>4. /\ \A u \in Thread \ {t} : protected'[u] = protected[u]
        /\ protected'[t].size = protected[t].size + 1 /\ protected'[t].data = protected[t].data
    BY <1>0, <1>13 DEF QProtected, TypeOK, List
  <2>5. protected[t].data[protected[t].size + 1] \in window[t]
    BY <1>0, <2>1 DEF Phases
  <2> SUFFICES ASSUME NEW s \in Thread, NEW u \in Thread, NEW i \in 1 .. protected'[u].size,
                      Freeing(s)', protected'[u].data[i] \in CurrentBag(s)'
               PROVE  protected'[u].data[i] \in local'[s].scan.comparing \/ Ahead(s, u, i)'
    BY DEF Scanned
  <2>6. s # t /\ Freeing(s) /\ pc'[s] = pc[s] /\ CurrentBag(s)' = CurrentBag(s)
    BY <2>1, <2>2 DEF Freeing, CurrentBag
  <2>7. i \in 1 .. protected[u].size /\ protected'[u].data[i] = protected[u].data[i]
    <3>1. CASE u # t
      BY <2>4, <3>1
    <3>2. CASE u = t
      <4>1. window[t] \cap CurrentBag(s) = {}
        BY <1>0, <2>1, <2>6, OldIsUnheld
      <4>2. i # protected[t].size + 1
        BY <2>4, <2>5, <2>6, <3>2, <4>1
      <4>3. i \in 1 .. protected[t].size + 1
        BY <2>4, <3>2
      <4>. QED  BY <2>3, <2>4, <3>2, <4>2, <4>3
    <3>. QED  BY <3>1, <3>2
  <2>8. protected[u].data[i] \in local[s].scan.comparing \/ Ahead(s, u, i)
    BY <1>0, <2>6, <2>7 DEF Scanned
  <2>. QED  BY <2>1, <2>6, <2>7, <2>8 DEF Ahead
<1>14. CASE UNCHANGED vars
  BY <1>1, <1>14 DEF vars, limbo, Freeing, CurrentBag
<1>. QED
  BY <1>2, <1>4, <1>5, <1>7, <1>8, <1>9, <1>10, <1>11, <1>12, <1>13, <1>14 DEF Next, Running

(* Rotating makes every bag one older, and the oldest the current one.     *)
LEMMA AgeAfterRotation ==
  ASSUME TypeOK, NEW t \in Thread, NEW i \in EpochBag, index'[t] = (index[t] + 1) % 3, ~Freeing(t)
  PROVE  Age(t, i)' >= 1 => Age(t, i)' = Age(t, i) + 1
<1>1. index[t] = 0 \/ index[t] = 1 \/ index[t] = 2
  BY DEF TypeOK, EpochBag
<1>2. i = 0 \/ i = 1 \/ i = 2
  BY DEF EpochBag
<1>. QED  BY <1>1, <1>2 DEF Age

(* What a thread that may go on holds is too young to be freed: whoever    *)
(* takes the epoch past it has sent it a signal.                           *)
LEMMA AgedStep ==
  ASSUME NUM_PROCESSES \in Nat, MAX_PROTECT_EVEN_IF_QUIESCENT \in Nat, PlusInv, TypeOK', [Next]_vars
  PROVE  Aged'
<1>0. TypeOK /\ OnePlace /\ Phases /\ Behind /\ FullScan /\ Aged /\ ScanPlace
  BY DEF PlusInv
<1>n. epoch \in Nat /\ epoch' \in Nat /\ \A u \in Thread : local[u].epoch \in Nat /\ announced[u].epoch \in Nat
  BY <1>0 DEF TypeOK, Announcement, Local
<1>l. \A s \in Thread, i \in EpochBag : linked \cap bags[s][i] = {} /\ available \cap bags[s][i] = {}
  BY <1>0 DEF OnePlace
<1>1. ASSUME \A s, u \in Thread, i \in EpochBag :
               u \notin signalled' /\ window'[u] \cap bags'[s][i] # {} /\ Age(s, i)' >= 1
                 => u \notin signalled /\ window[u] \cap bags[s][i] # {} /\ Reach(u)' <= Reach(u),
             \A s \in Thread, i \in EpochBag : Age(s, i)' >= 1 => Age(s, i)' = Age(s, i),
             \A s \in Thread : local'[s].epoch = local[s].epoch
      PROVE  Aged'
  <2> SUFFICES ASSUME NEW s \in Thread, NEW u \in Thread, NEW i \in EpochBag,
                      u \notin signalled', window'[u] \cap bags'[s][i] # {}, Age(s, i)' >= 1
               PROVE  local'[s].epoch + 2 >= Reach(u)' + Age(s, i)'
    BY DEF Aged
  <2>1. local[s].epoch + 2 >= Reach(u) + Age(s, i)
    BY <1>0, <1>1 DEF Aged
  <2>2. Reach(u) \in Nat /\ Age(s, i) \in Nat
    BY <1>0, ReachRange, AgeRange
  <2>3. Reach(u)' \in Nat
    <3>1. Reach(u)' = epoch' + 1 \/ Reach(u)' = epoch'
      BY DEF Reach
    <3>. QED  BY <1>n, <3>1
  <2>4. Reach(u)' <= Reach(u) /\ Age(s, i)' = Age(s, i) /\ local'[s].epoch = local[s].epoch
    BY <1>1
  <2>. QED  BY <1>n, <2>1, <2>2, <2>3, <2>4
<1>2. ASSUME UNCHANGED <<epoch, index, checked>>,
             \A s \in Thread : local'[s].epoch = local[s].epoch /\ (Freeing(s)' => Freeing(s)),
             \A u \in Thread : u \in signalled => u \in signalled' \/ window'[u] = {},
             \A s, u \in Thread, i \in EpochBag :
               window'[u] \cap bags'[s][i] # {} /\ Age(s, i)' >= 1
                 => window[u] \cap bags[s][i] # {} /\ announced'[u].epoch = announced[u].epoch
      PROVE  Aged'
  <2>1. ASSUME NEW s \in Thread, NEW i \in EpochBag, Age(s, i)' >= 1 PROVE Age(s, i)' = Age(s, i)
    BY <1>2, <2>1 DEF Age
  <2>2. ASSUME NEW u \in Thread, announced'[u].epoch = announced[u].epoch PROVE Reach(u)' = Reach(u)
    BY <1>2, <2>2 DEF Reach
  <2>3. \A u \in Thread : Reach(u) \in Nat
    BY <1>0, ReachRange
  <2>4. ASSUME NEW s \in Thread, NEW u \in Thread, NEW i \in EpochBag,
               u \notin signalled', window'[u] \cap bags'[s][i] # {}, Age(s, i)' >= 1
        PROVE  u \notin signalled /\ window[u] \cap bags[s][i] # {} /\ Reach(u)' <= Reach(u)
    <3>1. window[u] \cap bags[s][i] # {} /\ announced'[u].epoch = announced[u].epoch
      BY <1>2, <2>4
    <3>2. Reach(u)' <= Reach(u)
      BY <2>2, <2>3, <3>1
    <3>3. u \notin signalled
      BY <1>2, <2>4
    <3>. QED  BY <3>1, <3>2, <3>3
  <2>5. \A s, u \in Thread, i \in EpochBag :
          u \notin signalled' /\ window'[u] \cap bags'[s][i] # {} /\ Age(s, i)' >= 1
            => u \notin signalled /\ window[u] \cap bags[s][i] # {} /\ Reach(u)' <= Reach(u)
    BY <2>4
  <2>6. \A s \in Thread : local'[s].epoch = local[s].epoch
    BY <1>2
  <2>7. \A s \in Thread, i \in EpochBag : Age(s, i)' >= 1 => Age(s, i)' = Age(s, i)
    BY <2>1
  <2>. QED  BY <1>1, <2>5, <2>6, <2>7
<1>3. ASSUME NEW t \in Thread, ReadEpoch(t) PROVE Aged'
  <2>1. /\ pc[t] = "idle" /\ pc'[t] \in {"scan", "protected"}
        /\ \A u \in Thread \ {t} : pc'[u] = pc[u]
        /\ UNCHANGED <<epoch, announced, signalled, window, bags>>
    BY <1>0, <1>3, ReadEpochFacts DEF client
  <2>2. local'[t].epoch = epoch /\ \A u \in Thread \ {t} : local'[u].epoch = local[u].epoch
    BY <1>0, <1>3, ReadEpochFacts, SetEpoch DEF TypeOK, Zenon
  <2>3. announced[t].epoch = local[t].epoch /\ local[t].epoch <= epoch
    BY <1>0, <2>1 DEF Behind, Starting
  <2>4. CASE epoch = announced[t].epoch /\ pc'[t] = "scan" /\ UNCHANGED <<index, checked>>
    <3>1. \A s \in Thread : local'[s].epoch = local[s].epoch /\ (Freeing(s)' => Freeing(s))
      BY <2>1, <2>2, <2>3, <2>4 DEF Freeing
    <3>. QED  BY <1>2, <2>1, <2>4, <3>1
  <2>5. CASE /\ epoch # announced[t].epoch
             /\ index' = [index EXCEPT ![t] = (index[t] + 1) % 3]
             /\ checked' = [checked EXCEPT ![t] = 0]
    <3>1. /\ index'[t] = (index[t] + 1) % 3 /\ checked'[t] = 0
          /\ \A s \in Thread \ {t} : index'[s] = index[s] /\ checked'[s] = checked[s]
      BY <1>0, <2>5 DEF TypeOK
    <3>2. local[t].epoch + 1 <= epoch
      BY <1>n, <2>3, <2>5
    <3>3. ASSUME NEW u \in Thread PROVE Reach(u)' <= Reach(u) /\ Reach(u)' \in Nat
      <4>1. ~ (u < 0)
        BY DEF Thread
      <4>2. \A s \in Thread : local'[s].epoch = epoch /\ u < checked'[s] => local[s].epoch = epoch /\ u < checked[s]
        BY <2>2, <3>1, <4>1
      <4>. QED  BY <1>n, <2>1, <4>2 DEF Reach
    <3>4. ASSUME NEW s \in Thread, NEW u \in Thread, NEW i \in EpochBag,
                 u \notin signalled, window[u] \cap bags[s][i] # {}, Age(s, i)' >= 1
          PROVE  local'[s].epoch + 2 >= Reach(u)' + Age(s, i)'
      <4>1. Reach(u) \in Nat /\ Reach(u) <= epoch + 1 /\ Age(s, i) \in Nat
        BY <1>0, ReachRange, AgeRange
      <4>2. Reach(u)' <= Reach(u) /\ Reach(u)' \in Nat
        BY <3>3
      <4>3. CASE s # t
        <5>1. Age(s, i)' = Age(s, i)
          BY <2>1, <3>1, <4>3 DEF Age, Freeing
        <5>2. local[s].epoch + 2 >= Reach(u) + Age(s, i)
          BY <1>0, <3>4, <5>1 DEF Aged
        <5>. QED  BY <1>n, <2>2, <4>1, <4>2, <4>3, <5>1, <5>2
      <4>4. CASE s = t
        <5>1. Age(t, i)' = Age(t, i) + 1
          BY <1>0, <2>1, <3>1, <3>4, <4>4, AgeAfterRotation DEF Freeing
        <5>2. CASE Age(t, i) = 0
          BY <1>n, <2>2, <4>1, <4>2, <4>4, <5>1, <5>2
        <5>3. CASE Age(t, i) >= 1
          <6>1. local[t].epoch + 2 >= Reach(u) + Age(t, i)
            BY <1>0, <3>4, <4>4, <5>3 DEF Aged
          <6>. QED  BY <1>n, <2>2, <3>2, <4>1, <4>2, <4>4, <5>1, <6>1
        <5>. QED  BY <4>1, <4>4, <5>2, <5>3
      <4>. QED  BY <4>3, <4>4
    <3>. QED  BY <2>1, <3>4 DEF Aged
  <2>. QED  BY <1>0, <1>3, <2>4, <2>5, ReadEpochFacts
<1>4. ASSUME NEW t \in Thread, Scan(t) PROVE Aged'
  <2>1. /\ UNCHANGED <<window, epoch, announced, bags, index, local>>
        /\ pc[t] = "scan" /\ pc'[t] \in {"advance", "announce"}
        /\ \A u \in Thread \ {t} : pc'[u] = pc[u]
    BY <1>0, <1>4, ScanFacts DEF client, limbo
  <2>2. signalled \subseteq signalled'
    BY <1>0, <1>4, ScanFacts
  <2>3. ASSUME NEW u \in Thread, u \notin signalled', window[u] # {} PROVE Reach(u)' <= Reach(u)
    <3>1. ~announced[u].quiescent
      BY <1>0, <2>3 DEF Phases, Active
    <3>2. Reach(u) \in Nat
      BY <1>0, ReachRange
    <3>3. CASE announced[u].epoch = epoch
      BY <1>n, <2>1, <3>2, <3>3 DEF Reach
    <3>4. CASE announced[u].epoch # epoch
      <4>1. ASSUME NEW s \in Thread, local[s].epoch = epoch, u < checked'[s] PROVE u < checked[s]
        <5>1. CASE checked'[s] = checked[s]
          BY <4>1, <5>1
        <5>2. CASE checked'[s] # checked[s]
          <6>1. s = t /\ checked'[t] = checked[t] + 1
            BY <1>0, <1>4, <5>2, ScanFacts DEF TypeOK
          <6>2. checked[t] # u
            BY <1>0, <1>4, <2>3, <3>1, <3>4, <4>1, <5>2, <6>1, ScanFacts DEF Passes, Thread
          <6>3. checked[t] \in Nat /\ u \in Nat
            BY <1>0 DEF TypeOK, Thread
          <6>. QED  BY <4>1, <6>1, <6>2, <6>3
        <5>. QED  BY <5>1, <5>2
      <4>. QED  BY <1>n, <2>1, <3>2, <3>4, <4>1 DEF Reach
    <3>. QED  BY <3>3, <3>4
  <2>4. \A s \in Thread, i \in EpochBag : Age(s, i)' = Age(s, i)
    BY <2>1 DEF Age, Freeing
  <2>. QED  BY <1>1, <2>1, <2>2, <2>3, <2>4
<1>5. ASSUME NEW t \in Thread, Advance(t) PROVE Aged'
  <2>1. UNCHANGED <<window, announced, signalled, bags, index, checked, local>>
    BY <1>5 DEF Advance, client, limbo
  <2>2. pc[t] = "advance" /\ pc'[t] = "announce" /\ \A u \in Thread \ {t} : pc'[u] = pc[u]
    BY <1>0, <1>5 DEF Advance, Step, TypeOK
  <2>3. \A s \in Thread, i \in EpochBag : Age(s, i)' = Age(s, i)
    BY <2>1, <2>2 DEF Age, Freeing
  <2>4. ASSUME NEW u \in Thread PROVE Reach(u)' <= Reach(u)
    <3>1. CASE epoch' = epoch
      <4>1. Reach(u)' = Reach(u) /\ Reach(u) \in Nat
        BY <1>0, <2>1, <3>1, ReachRange DEF Reach
      <4>. QED  BY <4>1
    <3>2. CASE epoch' # epoch
      <4>1. epoch' = epoch + 1 /\ local[t].epoch = epoch
        BY <1>5, <3>2 DEF Advance
      <4>2. u < checked[t]
        BY <1>0, <2>2 DEF FullScan, Thread, TypeOK
      <4>3. Reach(u) = epoch + 1
        BY <4>1, <4>2 DEF Reach
      <4>4. announced[u].epoch # epoch + 1 /\ \A s \in Thread : local[s].epoch # epoch + 1
        BY <1>0, <1>n DEF Behind
      <4>5. Reach(u)' = epoch + 1
        BY <2>1, <4>1, <4>4 DEF Reach
      <4>. QED  BY <1>n, <4>3, <4>5
    <3>. QED  BY <3>1, <3>2
  <2>. QED  BY <1>1, <2>1, <2>3, <2>4
<1>6. ASSUME NEW t \in Thread, ReadSize(t) PROVE Aged'
  <2>1. /\ UNCHANGED <<window, epoch, announced, signalled, bags, index, checked>>
        /\ pc[t] = "protected" /\ \A u \in Thread \ {t} : pc'[u] = pc[u]
    BY <1>0, <1>6, ReadSizeFacts DEF client, limbo
  <2>2. \A u \in Thread : local'[u].epoch = local[u].epoch
    <3>1. UNCHANGED local \/ \E r : local' = [local EXCEPT ![t].scan = r]
      BY <1>0, <1>6, ReadSizeFacts
    <3>. QED  BY <1>0, <3>1 DEF TypeOK, Local
  <2>. QED  BY <1>2, <2>1, <2>2 DEF Freeing
<1>7. ASSUME NEW t \in Thread, ReadEntry(t) PROVE Aged'
  <2>1. /\ UNCHANGED <<window, epoch, announced, signalled, bags, index, checked>>
        /\ pc[t] = "entry" /\ \A u \in Thread \ {t} : pc'[u] = pc[u]
    BY <1>0, <1>7, ReadEntryFacts DEF client, limbo
  <2>2. \A u \in Thread : local'[u].epoch = local[u].epoch
    <3>1. PICK r \in ListScan : local' = [local EXCEPT ![t].scan = r]
      BY <1>0, <1>7, ReadEntryFacts
    <3>. QED  BY <1>0, <3>1, SetScan DEF TypeOK
  <2>. QED  BY <1>2, <2>1, <2>2 DEF Freeing
<1>8. ASSUME NEW t \in Thread, FreeUnprotected(t) PROVE Aged'
  <2>1. /\ UNCHANGED <<window, epoch, announced, signalled, index, checked>>
        /\ pc'[t] = "scan" /\ \A u \in Thread \ {t} : pc'[u] = pc[u]
    BY <1>0, <1>8, FreeFacts
  <2>2. \A u \in Thread : local'[u].epoch = local[u].epoch
    BY <1>0, <1>8, FreeFacts, SetScan, NoScanType DEF TypeOK
  <2>3. PICK left \in SUBSET CurrentBag(t) : bags' = [bags EXCEPT ![t][index[t]] = left]
    BY <1>0, <1>8, FreeFacts
  <2>4. \A s \in Thread, i \in EpochBag : bags'[s][i] \subseteq bags[s][i]
    BY <1>0, <2>3 DEF TypeOK, CurrentBag
  <2>. QED  BY <1>2, <2>1, <2>2, <2>4 DEF Freeing
<1>9. ASSUME NEW t \in Thread, Announce(t) PROVE Aged'
  <2>1. UNCHANGED <<epoch, signalled, bags, index, checked, local>>
    BY <1>9 DEF Announce, limbo
  <2>2. pc'[t] = "in" /\ \A u \in Thread \ {t} : pc'[u] = pc[u] /\ window'[u] = window[u] /\ announced'[u] = announced[u]
    BY <1>0, <1>9 DEF Announce, Step, TypeOK
  <2>3. window'[t] = linked
    BY <1>0, <1>9 DEF Announce, TypeOK
  <2>. QED  BY <1>2, <1>l, <2>1, <2>2, <2>3 DEF Freeing
<1>10. ASSUME NEW t \in Thread, NEW o \in Obj, Link(t, o) PROVE Aged'
  <2>1. UNCHANGED <<epoch, announced, signalled, bags, index, checked, local>> /\ o \in available
    BY <1>10 DEF Link, reclaimer, limbo
  <2>2. \A u \in Thread : window'[u] \subseteq window[u] \cup {o}
    BY <1>0, <1>10 DEF Link, TypeOK
  <2>3. \A u \in Thread : pc'[u] = pc[u]
    BY <1>0, <1>10 DEF Link, Step, TypeOK
  <2>4. \A s, u \in Thread, i \in EpochBag : window'[u] \cap bags'[s][i] # {} => window[u] \cap bags[s][i] # {}
    BY <1>l, <2>1, <2>2
  <2>. QED  BY <1>2, <2>1, <2>3, <2>4 DEF Freeing
<1>11. ASSUME NEW t \in Thread,
              QProtected(t) \/ Recovered(t) \/ QUnprotectAll(t) \/ \E o \in Obj : Unlink(t, o) \/ QProtect(t, o)
       PROVE  Aged'
  <2>1. UNCHANGED <<window, epoch, announced, signalled, bags, index, checked, local>>
    BY <1>11 DEF QProtected, Recovered, QUnprotectAll, Unlink, QProtect, client, reclaimer, limbo
  <2>2. \A u \in Thread : Freeing(u)' => Freeing(u)
    BY <1>0, <1>11 DEF QProtected, Recovered, QUnprotectAll, Unlink, QProtect, Step, TypeOK, Freeing
  <2>. QED  BY <1>2, <2>1, <2>2
<1>12. ASSUME NEW t \in Thread, EndOp(t) PROVE Aged'
  <2>1. UNCHANGED <<epoch, signalled, bags, index, checked, local>>
    BY <1>12 DEF EndOp, limbo
  <2>2. pc'[t] = "after" /\ \A u \in Thread \ {t} : pc'[u] = pc[u] /\ window'[u] = window[u] /\ announced'[u] = announced[u]
    BY <1>0, <1>12 DEF EndOp, SetQuiescent, Step, TypeOK
  <2>3. window'[t] = {}
    BY <1>0, <1>12 DEF EndOp, SetQuiescent, TypeOK
  <2>. QED  BY <1>2, <2>1, <2>2, <2>3 DEF Freeing
<1>13. ASSUME NEW t \in Thread, Handle(t) PROVE Aged'
  <2>1. UNCHANGED <<epoch, bags, index, checked, local>> /\ signalled' = signalled \ {t}
    BY <1>0, <1>13, HandleFacts DEF limbo
  <2>2. /\ pc'[t] = "recover" /\ window'[t] = {}
        /\ \A u \in Thread \ {t} : pc'[u] = pc[u] /\ window'[u] = window[u] /\ announced'[u] = announced[u]
    BY <1>0, <1>13, HandleFacts DEF TypeOK
  <2>. QED  BY <1>2, <2>1, <2>2 DEF Freeing
<1>14. ASSUME NEW t \in Thread, NEW o \in Obj, Retire(t, o) PROVE Aged'
  <2>1. UNCHANGED <<window, epoch, announced, signalled, index, checked, local>>
    BY <1>14 DEF Retire
  <2>2. pc'[t] = "after" /\ \A u \in Thread \ {t} : pc'[u] = pc[u]
    BY <1>0, <1>14 DEF Retire, Step, TypeOK
  <2>3. \A s \in Thread, i \in EpochBag : bags'[s][i] = bags[s][i] \/ (s = t /\ i = index[t])
    BY <1>0, <1>14 DEF Retire, TypeOK
  <2>4. Age(t, index[t])' = 0
    BY <2>1, <2>2 DEF Age, Freeing
  <2>. QED  BY <1>2, <2>1, <2>2, <2>3, <2>4 DEF Freeing
<1>15. CASE UNCHANGED vars
  BY <1>2, <1>15 DEF vars, client, limbo, Freeing
<1>. QED
  BY <1>3, <1>4, <1>5, <1>6, <1>7, <1>8, <1>9, <1>10, <1>11, <1>12, <1>13, <1>14, <1>15 DEF Next, Running

(* What is freed is in no window of a thread that may go on, and in no     *)
(* list.                                                                   *)
LEMMA HeldStep ==
  ASSUME NUM_PROCESSES \in Nat, MAX_PROTECT_EVEN_IF_QUIESCENT \in Nat, PlusInv, [Next]_vars
  PROVE  HeldNotFreed'
<1>0. TypeOK /\ OnePlace /\ Phases /\ Behind /\ Aged /\ ScanPlace /\ Scanned /\ HeldNotFreed
  BY DEF PlusInv
<1>1. ASSUME available' \subseteq available,
             \A u \in Thread : u \notin signalled' => \/ window'[u] \cap available' = {}
                                                      \/ u \notin signalled /\ window'[u] \subseteq window[u],
             \A u \in Thread : Protected(u)' \cap available \subseteq Protected(u)
      PROVE  HeldNotFreed'
  BY <1>0, <1>1 DEF HeldNotFreed
<1>2. ASSUME NEW t \in Thread,
             ReadEpoch(t) \/ ReadSize(t) \/ ReadEntry(t) \/ Advance(t) \/ Recovered(t)
               \/ \E o \in Obj : Unlink(t, o) \/ Retire(t, o)
      PROVE  HeldNotFreed'
  <2>1. UNCHANGED <<available, window, signalled, protected>>
    BY <1>2 DEF ReadEpoch, ReadSize, ReadEntry, Advance, Recovered, Unlink, Retire, client, reclaimer
  <2>. QED  BY <1>1, <2>1 DEF Protected
<1>3. ASSUME NEW t \in Thread, Scan(t) PROVE HeldNotFreed'
  <2>1. UNCHANGED <<available, window, protected>> /\ signalled \subseteq signalled'
    BY <1>0, <1>3, ScanFacts DEF client
  <2>. QED  BY <1>1, <2>1 DEF Protected
<1>4. ASSUME NEW t \in Thread, FreeUnprotected(t) PROVE HeldNotFreed'
  <2>1. /\ UNCHANGED <<window, signalled, protected>> /\ pc[t] = "free"
        /\ Freeing(t)
    BY <1>0, <1>4, FreeFacts DEF Freeing
  <2>2. PICK left \in SUBSET CurrentBag(t) :
          /\ CurrentBag(t) \cap local[t].scan.comparing \subseteq left
          /\ available' = available \cup (CurrentBag(t) \ left)
    BY <1>0, <1>4, FreeFacts
  <2>3. \A u \in Thread : u \notin signalled => window[u] \cap CurrentBag(t) = {}
    BY <1>0, <2>1, OldIsUnheld
  <2>4. ASSUME NEW u \in Thread PROVE Protected(u) \cap (CurrentBag(t) \ left) = {}
    <3>1. SUFFICES ASSUME NEW i \in 1 .. protected[u].size, protected[u].data[i] \in CurrentBag(t) \ left
                   PROVE  FALSE
      BY DEF Protected
    <3>2. ~Ahead(t, u, i)
      <4>1. local[t].scan.list = NUM_PROCESSES
        BY <1>0, <2>1 DEF ScanPlace
      <4>. QED  BY <4>1 DEF Ahead, Thread
    <3>3. protected[u].data[i] \in local[t].scan.comparing
      BY <1>0, <2>1, <3>1, <3>2 DEF Scanned
    <3>. QED  BY <2>2, <3>1, <3>3
  <2>5. \A u \in Thread : Protected(u)' = Protected(u)
    BY <2>1 DEF Protected
  <2>. QED  BY <1>0, <2>1, <2>2, <2>3, <2>4, <2>5 DEF HeldNotFreed
<1>5. ASSUME NEW t \in Thread, Announce(t) PROVE HeldNotFreed'
  <2>1. UNCHANGED <<available, signalled, protected>>
    BY <1>5 DEF Announce
  <2>2. window'[t] = linked /\ \A u \in Thread \ {t} : window'[u] = window[u]
    BY <1>0, <1>5 DEF Announce, TypeOK
  <2>3. linked \cap available = {}
    BY <1>0 DEF OnePlace
  <2>4. \A u \in Thread : u \notin signalled' => \/ window'[u] \cap available' = {}
                                                 \/ u \notin signalled /\ window'[u] \subseteq window[u]
    BY <2>1, <2>2, <2>3
  <2>. QED  BY <1>1, <2>1, <2>4 DEF Protected
<1>6. ASSUME NEW t \in Thread, NEW o \in Obj, Link(t, o) PROVE HeldNotFreed'
  <2>1. UNCHANGED <<signalled, protected>> /\ available' = available \ {o}
    BY <1>6 DEF Link, reclaimer
  <2>2. \A u \in Thread : window'[u] \subseteq window[u] \cup {o}
    BY <1>0, <1>6 DEF Link, TypeOK
  <2>3. \A u \in Thread : u \notin signalled => window[u] \cap available = {}
    BY <1>0 DEF HeldNotFreed
  <2>4. \A u \in Thread : u \notin signalled' => window'[u] \cap available' = {}
    BY <2>1, <2>2, <2>3
  <2>. QED  BY <1>1, <2>1, <2>4 DEF Protected
<1>7. ASSUME NEW t \in Thread, NEW o \in Obj, QProtect(t, o) PROVE HeldNotFreed'
  <2>1. UNCHANGED <<available, window, signalled>>
    BY <1>7 DEF QProtect, client
  <2>2. \A u \in Thread : /\ protected'[u].size = protected[u].size
                          /\ \A i \in 1 .. protected[u].size : protected'[u].data[i] = protected[u].data[i]
    <3>1. protected[t].size \in Nat /\ protected[t] \in List
      BY <1>0 DEF TypeOK, List
    <3>2. /\ \A u \in Thread \ {t} : protected'[u] = protected[u]
          /\ protected'[t] = [protected[t] EXCEPT !.data[protected[t].size + 1] = o]
      BY <1>0, <1>7 DEF QProtect, TypeOK
    <3>3. /\ protected'[t].size = protected[t].size
          /\ \A i \in 1 .. protected[t].size : protected'[t].data[i] = protected[t].data[i]
      BY <3>1, <3>2 DEF List
    <3>. QED  BY <3>2, <3>3
  <2>3. \A u \in Thread : Protected(u)' \subseteq Protected(u)
    BY <2>2 DEF Protected
  <2>. QED  BY <1>1, <2>1, <2>3
<1>8. ASSUME NEW t \in Thread, QProtected(t) PROVE HeldNotFreed'
  <2>1. UNCHANGED <<available, window, signalled>> /\ t \notin signalled /\ pc[t] = "protect"
    BY <1>8 DEF QProtected, client, Step, Undisturbed
  <2>2. protected[t].size \in Nat
    BY <1>0 DEF TypeOK, List
  <2>3. /\ \A u \in Thread \ {t} : protected'[u] = protected[u]
        /\ protected'[t].size = protected[t].size + 1 /\ protected'[t].data = protected[t].data
    BY <1>0, <1>8 DEF QProtected, TypeOK, List
  <2>4. protected[t].data[protected[t].size + 1] \notin available
    BY <1>0, <2>1 DEF Phases, HeldNotFreed
  <2>5. ASSUME NEW u \in Thread PROVE Protected(u)' \cap available \subseteq Protected(u)
    <3>1. CASE u # t
      BY <2>3, <3>1 DEF Protected
    <3>2. CASE u = t
      <4>1. SUFFICES ASSUME NEW i \in 1 .. protected[t].size + 1, protected[t].data[i] \in available
                     PROVE  protected[t].data[i] \in Protected(t)
        BY <2>3, <3>2 DEF Protected
      <4>2. i \in 1 .. protected[t].size
        BY <2>2, <2>4, <4>1
      <4>. QED  BY <4>2 DEF Protected
    <3>. QED  BY <3>1, <3>2
  <2>. QED  BY <1>1, <2>1, <2>5
<1>9. ASSUME NEW t \in Thread, EndOp(t) \/ Handle(t) PROVE HeldNotFreed'
  <2>1. UNCHANGED <<available, protected>>
    BY <1>9 DEF EndOp, Handle
  <2>2. window'[t] = {} /\ \A u \in Thread \ {t} : window'[u] = window[u] /\ (u \in signalled' <=> u \in signalled)
    <3>1. CASE EndOp(t)
      BY <1>0, <3>1 DEF EndOp, SetQuiescent, TypeOK
    <3>2. CASE Handle(t)
      BY <1>0, <3>2, HandleFacts DEF TypeOK
    <3>. QED  BY <1>9, <3>1, <3>2
  <2>. QED  BY <1>1, <2>1, <2>2 DEF Protected
<1>10. ASSUME NEW t \in Thread, QUnprotectAll(t) PROVE HeldNotFreed'
  <2>1. UNCHANGED <<available, window, signalled>>
    BY <1>10 DEF QUnprotectAll, client
  <2>2. protected'[t].size = 0 /\ \A u \in Thread \ {t} : protected'[u] = protected[u]
    BY <1>0, <1>10 DEF QUnprotectAll, TypeOK, List
  <2>3. \A u \in Thread : Protected(u)' \subseteq Protected(u)
    BY <2>2 DEF Protected
  <2>. QED  BY <1>1, <2>1, <2>3
<1>11. CASE UNCHANGED vars
  BY <1>1, <1>11 DEF vars, client, Protected
<1>. QED
  BY <1>2, <1>3, <1>4, <1>5, <1>6, <1>7, <1>8, <1>9, <1>10, <1>11 DEF Next, Running

(* Nothing is unlinked, and nobody is in an operation.                     *)
LEMMA InitialInvariant ==
  ASSUME NUM_PROCESSES \in Nat, MAX_PROTECT_EVEN_IF_QUIESCENT \in Nat, Init
  PROVE  PlusInv
<1>1. TypeOK
  <2>1. 0 \in EpochBag /\ NoScan \in ListScan
    BY NoScanType DEF EpochBag
  <2>2. [i \in Entry |-> 0] \in [Entry -> Obj \cup {0}] /\ 0 \in 0 .. MAX_PROTECT_EVEN_IF_QUIESCENT
    OBVIOUS
  <2>3. protected \in [Thread -> List]
    BY <2>2 DEF Init, List, Entry
  <2>4. announced \in [Thread -> Announcement] /\ local \in [Thread -> Local]
    BY <2>1 DEF Init, Announcement, Local
  <2>. QED  BY <2>1, <2>3, <2>4 DEF Init, TypeOK, Pcs
<1>2. OnePlace
  BY DEF Init, OnePlace
<1>3. Phases
  BY DEF Init, Phases, Active
<1>4. Behind
  BY DEF Init, Behind
<1>5. FullScan
  BY DEF Init, FullScan
<1>6. Aged
  BY DEF Init, Aged
<1>7. ScanPlace
  BY DEF Init, ScanPlace, Freeing
<1>8. Scanned
  BY DEF Init, Scanned
<1>9. HeldNotFreed
  BY DEF Init, HeldNotFreed, Protected
<1>. QED  BY <1>1, <1>2, <1>3, <1>4, <1>5, <1>6, <1>7, <1>8, <1>9 DEF PlusInv

(* The invariant of DEBRA+, for any number of threads, objects and entries *)
(* of a list, any thresholds and any size of blocks.                       *)
THEOREM PlusInvariance ==
  ASSUME NUM_PROCESSES \in Nat, MAX_PROTECT_EVEN_IF_QUIESCENT \in Nat
  PROVE  Spec => []PlusInv
<1>1. Init => PlusInv
  BY InitialInvariant
<1>2. PlusInv /\ [Next]_vars => PlusInv'
  <2> SUFFICES ASSUME PlusInv, [Next]_vars PROVE PlusInv'
    OBVIOUS
  <2>1. TypeOK'
    BY TypeStep
  <2>. QED
    BY <2>1, OnePlaceStep, PhasesStep, BehindStep, FullScanStep, AgedStep, ScanPlaceStep,
       ScannedStep, HeldStep DEF PlusInv
<1>. QED  BY <1>1, <1>2, PTL DEF Spec

(* reclaimer_debraplus frees nothing that an operation in progress has     *)
(* seen, unless a signal is about to end it, and nothing that a thread has *)
(* protected for its recovery.                                             *)
THEOREM HeldObjectsStay ==
  ASSUME NUM_PROCESSES \in Nat, MAX_PROTECT_EVEN_IF_QUIESCENT \in Nat
  PROVE  Spec => []HeldNotFreed
<1>1. PlusInv => HeldNotFreed
  BY DEF PlusInv
<1>. QED  BY <1>1, PlusInvariance, PTL

-----------------------------------------------------------------------------
(* A hazard pointer protects: for any number of threads and objects, any   *)
(* room for announcements and any threshold, and whatever the order in     *)
(* which objects are unprotected, unless the announcement is lost: moved,  *)
(* and then overwritten where it was, while a scan reads the list.         *)

Scanning == {"size", "entry", "free"}
Stage == {"idle", "add", "grow", "callback", "erase", "shrink"} \cup Scanning

Length == 0 .. MAX_HAZARDPTRS_PER_THREAD - 1

PtrTypeOK ==
  /\ linked \in SUBSET Obj
  /\ pending \in [Hazard!Thread -> SUBSET Obj]
  /\ available \in SUBSET Obj
  /\ size \in [Hazard!Thread -> Length]
  /\ data \in [Hazard!Thread -> [Hazard!Slot -> Obj \cup {None}]]
  /\ held \in [Hazard!Thread -> SUBSET Obj]
  /\ retired \in [Hazard!Thread -> SUBSET Obj]
  /\ comparing \in [Hazard!Thread -> SUBSET (Obj \cup {None})]
  /\ arg \in [Hazard!Thread -> Obj \cup {None}]
  /\ scan \in [Hazard!Thread -> [list : Nat, next : Nat, size : Length]]
  /\ pc \in [Hazard!Thread -> Stage]
  /\ moved \in [Hazard!Thread -> SUBSET Obj]
  /\ lost \in [Hazard!Thread -> SUBSET Obj]

(* An object is in one place.                                              *)
PtrOnePlace ==
  /\ linked \cap available = {}
  /\ \A t \in Hazard!Thread : (pending[t] \cup retired[t]) \cap (linked \cup available) = {}
  /\ \A t, u \in Hazard!Thread : pending[t] \cap retired[u] = {}
  /\ \A t, u \in Hazard!Thread : t # u => pending[t] \cap pending[u] = {} /\ retired[t] \cap retired[u] = {}

(* The entries of t that stay when unprotect, which has moved the last one *)
(* into the gap, drops that one.                                           *)
Settled(t) == IF pc[t] = "shrink" THEN size[t] - 1 ELSE size[t]

(* Every object that t holds is among them.                                *)
Announces(t) ==
  /\ Settled(t) \in Length
  /\ \A o \in held[t] : \E i \in 1 .. Settled(t) : data[t][i] = o

Announced == \A t \in Hazard!Thread : Announces(t)

(* What t is about to protect, or no longer protects, is not held; once    *)
(* entered, it is found.                                                   *)
ArgumentEntered(t) ==
  /\ pc[t] \in {"add", "grow", "callback", "erase"} => arg[t] \notin held[t]
  /\ pc[t] \in {"add", "grow"} => size[t] + 1 \in Length
  /\ pc[t] = "grow" => data[t][size[t] + 1] = arg[t]
  /\ pc[t] \in {"callback", "erase"} => \E i \in 1 .. size[t] : data[t][i] = arg[t]

Argument == \A t \in Hazard!Thread : ArgumentEntered(t)

(* A scan reads the lists in order.                                        *)
ScanRange ==
  \A t \in Hazard!Thread :
    /\ pc[t] \in Scanning => scan[t].list >= 1
    /\ pc[t] = "entry" => scan[t].list \in Hazard!Thread /\ scan[t].next \in 1 .. scan[t].size + 1
    /\ pc[t] = "free" => scan[t].list > NumThreads

(* t will still read an entry of o: one that stays, or the copy that is    *)
(* left where erase has moved o from.                                      *)
PtrAhead(t, u, o) ==
  \E i \in scan[t].next .. scan[t].size : data[u][i] = o /\ (i <= Settled(u) \/ o \in moved[u])

(* A scan has seen every object of its bag that is held, and not lost, in  *)
(* the lists that it has read; in the one that it is reading it has seen   *)
(* it or still will.                                                       *)
PtrScanned ==
  \A t, u \in Hazard!Thread : pc[t] \in Scanning =>
    \A o \in (held[u] \ lost[u]) \cap retired[t] :
      /\ u < scan[t].list => o \in comparing[t]
      /\ u = scan[t].list /\ pc[t] = "entry" => o \in comparing[t] \/ PtrAhead(t, u, o)

HazardInv ==
  /\ PtrTypeOK
  /\ PtrOnePlace
  /\ Announced
  /\ Argument
  /\ ScanRange
  /\ PtrScanned
  /\ Hazard!HeldNotFreed

(* What the proofs assume of the instance.                                 *)
PtrUsage ==
  /\ NumThreads \in Nat
  /\ MAX_HAZARDPTRS_PER_THREAD \in Nat \ {0}
  /\ Reader \subseteq Hazard!Thread
  /\ Writer \subseteq Hazard!Thread

-----------------------------------------------------------------------------
(* protect stores behind the entries, and within the array.                *)
LEMMA Slots ==
  ASSUME PtrUsage
  PROVE  /\ Length \subseteq Nat
         /\ 0 \in Length
         /\ \A n \in Length : n \in Hazard!Slot \cup {0} /\ n + 1 \in Hazard!Slot
         /\ \A n \in Length : n # 0 => n - 1 \in Length
BY DEF PtrUsage, Length, Hazard!Slot

(* What a scan reads next is a number.                                     *)
LEMMA ScanFields ==
  ASSUME NEW f \in [Hazard!Thread -> [list : Nat, next : Nat, size : Length]], NEW t \in Hazard!Thread, NEW n \in Nat
  PROVE  /\ [f EXCEPT ![t].list = n] \in [Hazard!Thread -> [list : Nat, next : Nat, size : Length]]
         /\ [f EXCEPT ![t].next = n] \in [Hazard!Thread -> [list : Nat, next : Nat, size : Length]]
OBVIOUS

(* erase finds the first entry of the object, which t does not hold any    *)
(* longer, and writes the last entry there.                                *)
LEMMA EraseFills ==
  ASSUME PtrUsage, HazardInv, NEW t \in Hazard!Thread, Hazard!Erase(t)
  PROVE  \E g \in 1 .. size[t] :
           /\ data[t][g] = arg[t]
           /\ data' = [data EXCEPT ![t] = [data[t] EXCEPT ![g] = data[t][size[t]]]]
<1> DEFINE R == OpToRel(<, Nat)
           T == {i \in 1 .. size[t] : data[t][i] = arg[t]}
<1>1. pc[t] = "erase" /\ size[t] \in Nat /\ data \in [Hazard!Thread -> [Hazard!Slot -> Obj \cup {None}]]
  BY Slots DEF Hazard!Erase, Hazard!Move, HazardInv, PtrTypeOK
<1>2. T \subseteq Nat /\ T # {}
  BY <1>1 DEF HazardInv, Argument, ArgumentEntered
<1>3. PICK g \in T : \A i \in T : <<i, g>> \notin R
  <2>1. IsWellFoundedOn(R, Nat)
    BY NatLessThanWellFounded
  <2> HIDE DEF R, T
  <2> QED
    BY <1>2, <2>1, WFMin
<1>4. \A i \in T : ~(i < g)
  BY <1>2, <1>3 DEF OpToRel
<1>5. \A i \in 1 .. g - 1 : data[t][i] # arg[t]
  <2> SUFFICES ASSUME NEW i \in 1 .. g - 1, data[t][i] = arg[t] PROVE FALSE
    OBVIOUS
  <2>1. i \in T /\ i < g
    BY <1>1, <1>2
  <2> QED
    BY <1>4, <2>1
<1>6. \A i \in T : (\A j \in 1 .. i - 1 : data[t][j] # arg[t]) => i = g
  BY <1>1, <1>2, <1>4
<1>7. Hazard!GetIndex(t, arg[t]) = g
  BY <1>5, <1>6 DEF Hazard!GetIndex
<1> QED
  BY <1>1, <1>7 DEF Hazard!Erase

-----------------------------------------------------------------------------
(* Every step is well typed; protect does not write behind the array.      *)
LEMMA PtrTypeStep ==
  ASSUME PtrUsage, HazardInv, [Hazard!Next]_Hazard!vars
  PROVE  PtrTypeOK'
<1>1. Reader \subseteq Hazard!Thread /\ Writer \subseteq Hazard!Thread
  BY DEF PtrUsage
<1> USE DEF HazardInv, PtrTypeOK, Stage, Scanning, Hazard!Move, Hazard!objects, Hazard!lists, Hazard!bags, Hazard!history
<1>2. ASSUME NEW t \in Hazard!Thread, NEW o \in Obj, Hazard!Protect(t, o) \/ Hazard!Unprotect(t, o) PROVE PtrTypeOK'
  <2>1. arg' \in [Hazard!Thread -> Obj \cup {None}]
    <3>1. arg' = [arg EXCEPT ![t] = o]
      BY <1>2 DEF Hazard!Protect, Hazard!Unprotect
    <3> QED
      BY <3>1
  <2>3. \A f \in [Hazard!Thread -> SUBSET Obj] : [f EXCEPT ![t] = f[t] \ {o}] \in [Hazard!Thread -> SUBSET Obj]
    OBVIOUS
  <2>4. /\ held' = held \/ held' = [held EXCEPT ![t] = held[t] \ {o}]
        /\ moved' = moved \/ moved' = [moved EXCEPT ![t] = moved[t] \ {o}]
        /\ lost' = lost \/ lost' = [lost EXCEPT ![t] = lost[t] \ {o}]
    BY <1>2 DEF Hazard!Protect, Hazard!Unprotect
  <2>2. pc' \in [Hazard!Thread -> Stage]
    BY <1>2 DEF Hazard!Protect, Hazard!Unprotect
  <2> QED
    <3>1. /\ held' \in [Hazard!Thread -> SUBSET Obj]
          /\ moved' \in [Hazard!Thread -> SUBSET Obj]
          /\ lost' \in [Hazard!Thread -> SUBSET Obj]
      BY <2>3, <2>4
    <3>2. UNCHANGED <<linked, pending, available, size, data, retired, comparing, scan>>
      BY <1>2 DEF Hazard!Protect, Hazard!Unprotect
    <3> QED
      BY <2>1, <2>2, <3>1, <3>2
<1>3. ASSUME NEW t \in Hazard!Thread, Hazard!StoreEntry(t) PROVE PtrTypeOK'
  <2>1. [data[t] EXCEPT ![size[t] + 1] = arg[t]] \in [Hazard!Slot -> Obj \cup {None}]
    OBVIOUS
  <2>2. data' = [data EXCEPT ![t] = [data[t] EXCEPT ![size[t] + 1] = arg[t]]]
    BY <1>3 DEF Hazard!StoreEntry
  <2>3. data' \in [Hazard!Thread -> [Hazard!Slot -> Obj \cup {None}]]
    BY <2>1, <2>2
  <2>4. lost' \in [Hazard!Thread -> SUBSET Obj]
    <3>1. lost[t] \cup (moved[t] \cap {data[t][size[t] + 1]}) \in SUBSET Obj
      OBVIOUS
    <3> QED
      BY <1>3, <3>1 DEF Hazard!StoreEntry
  <2> QED
    BY <1>3, <2>3, <2>4 DEF Hazard!StoreEntry
<1>4. ASSUME NEW t \in Hazard!Thread, Hazard!Grow(t) PROVE PtrTypeOK'
  <2>1. size[t] + 1 \in Length
    BY <1>4 DEF Hazard!Grow, Argument, ArgumentEntered
  <2> QED
    BY <1>4, <2>1 DEF Hazard!Grow
<1>5. ASSUME NEW t \in Hazard!Thread, Hazard!NotRetiredCallback(t) PROVE PtrTypeOK'
  <2>1. arg[t] \in linked => held[t] \cup {arg[t]} \in SUBSET Obj
    OBVIOUS
  <2>2. held' \in [Hazard!Thread -> SUBSET Obj]
    BY SMTT(20), <1>5, <2>1 DEF Hazard!NotRetiredCallback
  <2>3. pc' \in [Hazard!Thread -> Stage]
    BY <1>5 DEF Hazard!NotRetiredCallback
  <2> QED
    BY <1>5, <2>2, <2>3 DEF Hazard!NotRetiredCallback
<1>6. ASSUME NEW t \in Hazard!Thread, Hazard!Erase(t) PROVE PtrTypeOK'
  <2>1. PICK g \in 1 .. size[t] : data' = [data EXCEPT ![t] = [data[t] EXCEPT ![g] = data[t][size[t]]]]
    BY <1>6, EraseFills
  <2>2. size[t] \in Hazard!Slot
    <3>1. size[t] \in Hazard!Slot \cup {0} /\ size[t] # 0 /\ 0 \notin Hazard!Slot
      BY <2>1, Slots DEF Hazard!Slot
    <3> QED
      BY <3>1
  <2>3. data' \in [Hazard!Thread -> [Hazard!Slot -> Obj \cup {None}]]
    <3>1. data[t] \in [Hazard!Slot -> Obj \cup {None}] /\ data[t][size[t]] \in Obj \cup {None}
      BY <2>2
    <3>2. [data[t] EXCEPT ![g] = data[t][size[t]]] \in [Hazard!Slot -> Obj \cup {None}]
      BY <3>1
    <3> QED
      BY <2>1, <3>2
  <2>4. moved' \in [Hazard!Thread -> SUBSET Obj]
    <3>1. moved[t] \cup (held[t] \cap {data[t][size[t]]}) \in SUBSET Obj
      OBVIOUS
    <3> QED
      BY <1>6, <3>1 DEF Hazard!Erase
  <2> QED
    BY <1>6, <2>3, <2>4 DEF Hazard!Erase
<1>7. ASSUME NEW t \in Hazard!Thread, Hazard!Shrink(t) PROVE PtrTypeOK'
  <2>1. size[t] - 1 \in Length
    BY <1>7 DEF Hazard!Shrink, Announced, Announces, Settled
  <2> QED
    BY <1>7, <2>1 DEF Hazard!Shrink
<1>8. ASSUME NEW t \in Hazard!Thread, Hazard!EndOp(t) PROVE PtrTypeOK'
  BY <1>8, Slots DEF Hazard!EndOp
<1>9. ASSUME NEW t \in Hazard!Thread, NEW o \in Obj, Hazard!Link(t, o) \/ Hazard!Unlink(t, o) PROVE PtrTypeOK'
  <2>1. linked' \in SUBSET Obj /\ available' \in SUBSET Obj
    BY <1>9 DEF Hazard!Link, Hazard!Unlink
  <2>2. pending' \in [Hazard!Thread -> SUBSET Obj]
    <3>1. pending[t] \cup {o} \in SUBSET Obj
      OBVIOUS
    <3>2. pending' = pending \/ pending' = [pending EXCEPT ![t] = pending[t] \cup {o}]
      BY <1>9 DEF Hazard!Link, Hazard!Unlink
    <3> QED
      BY <3>1, <3>2
  <2> QED
    BY <1>9, <2>1, <2>2 DEF Hazard!Link, Hazard!Unlink
<1>10. ASSUME NEW t \in Hazard!Thread, NEW o \in Obj, Hazard!Retire(t, o) PROVE PtrTypeOK'
  <2>1. /\ pending' \in [Hazard!Thread -> SUBSET Obj]
        /\ retired' \in [Hazard!Thread -> SUBSET Obj]
    BY <1>10 DEF Hazard!Retire
  <2>2. comparing' \in [Hazard!Thread -> SUBSET (Obj \cup {None})]
    BY <1>10 DEF Hazard!Retire
  <2>3. scan' \in [Hazard!Thread -> [list : Nat, next : Nat, size : Length]]
    <3>1. [list |-> 1, next |-> 0, size |-> 0] \in [list : Nat, next : Nat, size : Length]
      BY Slots
    <3> QED
      BY <1>10, <3>1 DEF Hazard!Retire
  <2>4. pc' \in [Hazard!Thread -> Stage]
    BY <1>10 DEF Hazard!Retire
  <2> QED
    BY <1>10, <2>1, <2>2, <2>3, <2>4 DEF Hazard!Retire
<1>11. ASSUME NEW t \in Hazard!Thread, Hazard!ScanSize(t) PROVE PtrTypeOK'
  <2>1. scan' \in [Hazard!Thread -> [list : Nat, next : Nat, size : Length]]
    <3>1. CASE scan' = scan
      BY <3>1
    <3>2. CASE scan[t].list \in Hazard!Thread /\ scan' = [scan EXCEPT ![t].next = 1, ![t].size = size[scan[t].list]]
      BY <3>2
    <3>3. ~(scan[t].list > NumThreads) => scan[t].list \in Hazard!Thread
      <4>1. scan[t].list \in Nat /\ scan[t].list >= 1 /\ NumThreads \in Nat
        BY <1>11 DEF Hazard!ScanSize, ScanRange, PtrUsage
      <4> QED
        BY <4>1 DEF Hazard!Thread
    <3> QED
      BY <1>11, <3>1, <3>2, <3>3 DEF Hazard!ScanSize
  <2>2. pc' \in [Hazard!Thread -> Stage]
    BY <1>11 DEF Hazard!ScanSize
  <2> QED
    BY <1>11, <2>1, <2>2 DEF Hazard!ScanSize
<1>12. ASSUME NEW t \in Hazard!Thread, Hazard!ScanEntry(t) PROVE PtrTypeOK'
  <2>1. CASE scan[t].next > scan[t].size
    <3>1. scan' = [scan EXCEPT ![t].list = @ + 1] /\ pc' \in [Hazard!Thread -> Stage]
      BY <1>12, <2>1 DEF Hazard!ScanEntry, Hazard!PastLast
    <3>2. scan' \in [Hazard!Thread -> [list : Nat, next : Nat, size : Length]]
      <4>1. scan[t].list + 1 \in Nat
        OBVIOUS
      <4> QED
        BY <3>1, <4>1, ScanFields
    <3> QED
      BY <1>12, <2>1, <3>1, <3>2 DEF Hazard!ScanEntry, Hazard!PastLast
  <2>2. CASE ~(scan[t].next > scan[t].size)
    <3>1. scan[t].list \in Hazard!Thread /\ scan[t].next \in Hazard!Slot
      <4>1. /\ scan[t].next \in 1 .. scan[t].size + 1
            /\ scan[t].size \in Length
            /\ scan[t].list \in Hazard!Thread
        BY <1>12 DEF Hazard!ScanEntry, Hazard!PastLast, ScanRange
      <4>2. scan[t].size \in Nat /\ scan[t].size \in Hazard!Slot \cup {0} /\ scan[t].next \in Nat
        BY <4>1, Slots
      <4>3. scan[t].next <= scan[t].size
        BY <2>2, <4>2
      <4>5. scan[t].size <= MAX_HAZARDPTRS_PER_THREAD - 1
        BY <4>1 DEF Length
      <4>6. 1 <= scan[t].next
        BY <4>1
      <4>4. scan[t].next \in Hazard!Slot
        BY <4>2, <4>3, <4>5, <4>6 DEF Hazard!Slot, PtrUsage
      <4> QED
        BY <4>1, <4>4
    <3>2. data[scan[t].list][scan[t].next] \in Obj \cup {None}
      BY <3>1
    <3>3. comparing' \in [Hazard!Thread -> SUBSET (Obj \cup {None})]
      <4>1. comparing[t] \cup {data[scan[t].list][scan[t].next]} \in SUBSET (Obj \cup {None})
        BY <3>2
      <4> QED
        BY SMTT(20), <1>12, <2>2, <4>1 DEF Hazard!ScanEntry, Hazard!PastLast
    <3>4. scan' = [scan EXCEPT ![t].next = @ + 1]
      BY <1>12, <2>2 DEF Hazard!ScanEntry, Hazard!PastLast
    <3>5. scan' \in [Hazard!Thread -> [list : Nat, next : Nat, size : Length]]
      <4>1. scan[t].next + 1 \in Nat
        OBVIOUS
      <4> QED
        BY <3>4, <4>1, ScanFields
    <3> QED
      BY <1>12, <2>2, <3>3, <3>5 DEF Hazard!ScanEntry, Hazard!PastLast
  <2> QED
    BY <2>1, <2>2
<1>13. ASSUME NEW t \in Hazard!Thread, Hazard!FreeUnprotected(t) PROVE PtrTypeOK'
  BY <1>13 DEF Hazard!FreeUnprotected
<1>14. CASE UNCHANGED Hazard!vars
  BY <1>14 DEF Hazard!vars
<1> QED
  BY <1>1, <1>2, <1>3, <1>4, <1>5, <1>6, <1>7, <1>8, <1>9, <1>10, <1>11, <1>12, <1>13, <1>14 DEF Hazard!Next

(* An object moves from one place to the next.                             *)
LEMMA PtrOnePlaceStep ==
  ASSUME PtrUsage, HazardInv, [Hazard!Next]_Hazard!vars
  PROVE  PtrOnePlace'
<1>1. /\ Reader \subseteq Hazard!Thread /\ Writer \subseteq Hazard!Thread
      /\ pending \in [Hazard!Thread -> SUBSET Obj]
      /\ retired \in [Hazard!Thread -> SUBSET Obj]
      /\ PtrOnePlace
  BY DEF PtrUsage, HazardInv, PtrTypeOK
<1> USE DEF PtrOnePlace
<1>2. ASSUME NEW t \in Hazard!Thread, NEW o \in Obj, Hazard!Link(t, o) PROVE PtrOnePlace'
  BY <1>1, <1>2 DEF Hazard!Link, Hazard!bags
<1>3. ASSUME NEW t \in Hazard!Thread, NEW o \in Obj, Hazard!Unlink(t, o) PROVE PtrOnePlace'
  BY <1>1, <1>3 DEF Hazard!Unlink, Hazard!bags
<1>4. ASSUME NEW t \in Hazard!Thread, NEW o \in Obj, Hazard!Retire(t, o) PROVE PtrOnePlace'
  BY <1>1, <1>4 DEF Hazard!Retire
<1>5. ASSUME NEW t \in Hazard!Thread, Hazard!FreeUnprotected(t) PROVE PtrOnePlace'
  BY <1>1, <1>5 DEF Hazard!FreeUnprotected
<1>6. CASE UNCHANGED <<Hazard!objects, retired>>
  BY <1>1, <1>6 DEF Hazard!objects
<1>7. ASSUME NEW t \in Hazard!Thread,
             \/ \E o \in Obj : Hazard!Protect(t, o) \/ Hazard!Unprotect(t, o)
             \/ Hazard!StoreEntry(t) \/ Hazard!Grow(t) \/ Hazard!NotRetiredCallback(t) \/ Hazard!Erase(t) \/ Hazard!Shrink(t) \/ Hazard!EndOp(t)
             \/ Hazard!ScanSize(t) \/ Hazard!ScanEntry(t)
      PROVE  UNCHANGED <<Hazard!objects, retired>>
  BY <1>7
  DEF Hazard!Protect, Hazard!Unprotect, Hazard!StoreEntry, Hazard!Grow, Hazard!NotRetiredCallback, Hazard!Erase, Hazard!Shrink, Hazard!EndOp, Hazard!ScanSize,
      Hazard!ScanEntry, Hazard!bags
<1>8. CASE UNCHANGED Hazard!vars
  BY <1>6, <1>8 DEF Hazard!vars, Hazard!objects
<1> QED
  BY <1>1, <1>2, <1>3, <1>4, <1>5, <1>6, <1>7, <1>8 DEF Hazard!Next

-----------------------------------------------------------------------------
(* What the steps of one thread leave alone of another's announcements, and *)
(* those of a writer of its own.                                           *)
LEMMA OthersKeepEntries ==
  ASSUME HazardInv, NEW u \in Hazard!Thread,
         UNCHANGED <<size[u], data[u], held[u], arg[u]>>,
         pc'[u] = pc[u] \/ {pc[u], pc'[u]} \subseteq {"idle"} \cup Scanning
  PROVE  Announces(u)' /\ ArgumentEntered(u)' /\ Settled(u)' = Settled(u)
BY DEF HazardInv, Announced, Argument, Announces, ArgumentEntered, Settled, Scanning

(* A writer's steps leave all announcements alone.                         *)
LEMMA WriterKeepsEntries ==
  ASSUME HazardInv, NEW t \in Hazard!Thread,
         \/ \E o \in Obj : Hazard!Link(t, o) \/ Hazard!Unlink(t, o) \/ Hazard!Retire(t, o)
         \/ Hazard!ScanSize(t) \/ Hazard!ScanEntry(t) \/ Hazard!FreeUnprotected(t)
  PROVE  /\ UNCHANGED <<size, data, held, arg, moved, lost>>
         /\ \A u \in Hazard!Thread : pc'[u] = pc[u] \/ {pc[u], pc'[u]} \subseteq {"idle"} \cup Scanning
<1>1. UNCHANGED <<size, data, held, arg, moved, lost>>
  BY DEF Hazard!Link, Hazard!Unlink, Hazard!Retire, Hazard!ScanSize, Hazard!ScanEntry, Hazard!FreeUnprotected, Hazard!lists, Hazard!history
<1>2. pc \in [Hazard!Thread -> Stage]
  BY DEF HazardInv, PtrTypeOK
<1>3. \/ pc' = pc
      \/ \E s \in {"idle", "size", "entry", "free"} :
           pc[t] \in {"idle", "size", "entry", "free"} /\ pc' = [pc EXCEPT ![t] = s]
  BY DEF Hazard!Link, Hazard!Unlink, Hazard!Retire, Hazard!ScanSize, Hazard!ScanEntry, Hazard!FreeUnprotected, Hazard!Move
<1>4. \A u \in Hazard!Thread : pc'[u] = pc[u] \/ {pc[u], pc'[u]} \subseteq {"idle"} \cup Scanning
  BY <1>2, <1>3 DEF Scanning
<1> QED
  BY <1>1, <1>4

(* A reader's steps leave the announcements of the others alone.           *)
LEMMA ReaderKeepsOthers ==
  ASSUME PtrUsage, HazardInv, NEW t \in Hazard!Thread,
         \/ \E o \in Obj : Hazard!Protect(t, o) \/ Hazard!Unprotect(t, o)
         \/ Hazard!StoreEntry(t) \/ Hazard!Grow(t) \/ Hazard!NotRetiredCallback(t) \/ Hazard!Erase(t) \/ Hazard!Shrink(t) \/ Hazard!EndOp(t)
  PROVE  \A u \in Hazard!Thread : u # t => UNCHANGED <<pc[u], size[u], data[u], held[u], arg[u], moved[u], lost[u]>>
BY DEF HazardInv, PtrTypeOK, Hazard!Protect, Hazard!Unprotect, Hazard!StoreEntry, Hazard!Grow, Hazard!NotRetiredCallback, Hazard!Erase, Hazard!Shrink, Hazard!EndOp,
       Hazard!Move, Hazard!lists, Hazard!history

(* protect adds an entry and then holds the object; unprotect lets go of   *)
(* it, writes the last entry into its slot, and then drops the last one.   *)
LEMMA OwnEntries ==
  ASSUME PtrUsage, HazardInv, NEW t \in Hazard!Thread,
         \/ \E o \in Obj : Hazard!Protect(t, o) \/ Hazard!Unprotect(t, o)
         \/ Hazard!StoreEntry(t) \/ Hazard!Grow(t) \/ Hazard!NotRetiredCallback(t) \/ Hazard!Erase(t) \/ Hazard!Shrink(t) \/ Hazard!EndOp(t)
  PROVE  Announces(t)' /\ ArgumentEntered(t)'
<1>1. /\ size \in [Hazard!Thread -> Length] /\ size[t] \in Length /\ size[t] \in Nat
      /\ data \in [Hazard!Thread -> [Hazard!Slot -> Obj \cup {None}]]
      /\ data[t] \in [Hazard!Slot -> Obj \cup {None}]
      /\ held \in [Hazard!Thread -> SUBSET Obj]
      /\ arg \in [Hazard!Thread -> Obj \cup {None}]
      /\ pc \in [Hazard!Thread -> Stage]
  BY Slots DEF HazardInv, PtrTypeOK
<1>2. Announces(t) /\ ArgumentEntered(t)
  BY DEF HazardInv, Announced, Argument
<1>3. /\ Length \subseteq Nat
      /\ 0 \in Length
      /\ \A n \in Length : n + 1 \in Hazard!Slot
      /\ \A n \in Length : n # 0 => n - 1 \in Length
  BY Slots
<1> USE DEF Announces, ArgumentEntered, Settled, Hazard!Move, Hazard!objects, Hazard!lists, Hazard!bags
<1>4. ASSUME NEW o \in Obj, Hazard!Protect(t, o) PROVE Announces(t)' /\ ArgumentEntered(t)'
  <2>1. size[t] + 1 \in Length
    BY <1>1, <1>4 DEF Hazard!Protect, Length, PtrUsage
  <2> QED
    BY <1>1, <1>2, <1>4, <2>1 DEF Hazard!Protect
<1>5. ASSUME NEW o \in Obj, Hazard!Unprotect(t, o) PROVE Announces(t)' /\ ArgumentEntered(t)'
  <2>1. /\ pc[t] = "idle" /\ pc'[t] = "erase"
        /\ o \in held[t] /\ held'[t] = held[t] \ {o} /\ arg'[t] = o
        /\ UNCHANGED <<size, data>>
    BY <1>1, <1>5 DEF Hazard!Unprotect
  <2> QED
    BY <1>1, <1>2, <2>1
<1>6. ASSUME Hazard!StoreEntry(t) PROVE Announces(t)' /\ ArgumentEntered(t)'
  <2>1. /\ pc[t] = "add" /\ pc'[t] = "grow"
        /\ UNCHANGED <<size, held, arg>>
        /\ data'[t] = [data[t] EXCEPT ![size[t] + 1] = arg[t]]
    BY <1>1, <1>6 DEF Hazard!StoreEntry
  <2>2. \A i \in 1 .. size[t] : data'[t][i] = data[t][i]
    BY <1>1, <2>1
  <2>3. data'[t][size[t] + 1] = arg[t]
    BY <1>1, <1>3, <2>1
  <2> QED
    BY <1>2, <2>1, <2>2, <2>3
<1>7. ASSUME Hazard!Grow(t) PROVE Announces(t)' /\ ArgumentEntered(t)'
  <2>1. /\ pc[t] = "grow" /\ pc'[t] = "callback"
        /\ UNCHANGED <<data, held, arg>>
        /\ size'[t] = size[t] + 1
    BY <1>1, <1>7 DEF Hazard!Grow
  <2>2. size[t] + 1 \in 1 .. size[t] + 1 /\ \A i \in 1 .. size[t] : i \in 1 .. size[t] + 1
    BY <1>1
  <2> QED
    BY <1>2, <2>1, <2>2
<1>8. ASSUME Hazard!NotRetiredCallback(t) PROVE Announces(t)' /\ ArgumentEntered(t)'
  <2>1. CASE arg[t] \in linked
    <3>1. /\ pc[t] = "callback" /\ pc'[t] = "idle"
          /\ UNCHANGED <<size, data, arg>>
          /\ held'[t] = held[t] \cup {arg[t]}
      BY <1>1, <1>8, <2>1 DEF Hazard!NotRetiredCallback
    <3> QED
      BY <1>1, <1>2, <3>1
  <2>2. CASE arg[t] \notin linked
    BY <1>1, <1>2, <1>8, <2>2 DEF Hazard!NotRetiredCallback
  <2> QED
    BY <2>1, <2>2
<1>9. ASSUME Hazard!Erase(t) PROVE Announces(t)' /\ ArgumentEntered(t)'
  <2>1. /\ pc[t] = "erase" /\ pc'[t] = "shrink"
        /\ UNCHANGED <<size, held>>
    BY <1>1, <1>9 DEF Hazard!Erase
  <2>2. PICK g \in 1 .. size[t] : data[t][g] = arg[t] /\ data' = [data EXCEPT ![t] = [data[t] EXCEPT ![g] = data[t][size[t]]]]
    BY <1>9, EraseFills
  <2>3. size[t] # 0 /\ g \in Hazard!Slot
    <3>1. size[t] \in Hazard!Slot \cup {0}
      BY <1>1, Slots
    <3> QED
      BY <1>1, <2>2, <3>1 DEF Hazard!Slot, PtrUsage
  <2>4. data'[t][g] = data[t][size[t]] /\ \A i \in Hazard!Slot : i # g => data'[t][i] = data[t][i]
    BY <1>1, <2>2, <2>3
  <2>5. ASSUME NEW o \in held[t] PROVE \E i \in 1 .. size[t] - 1 : data'[t][i] = o
    <3>1. PICK i \in 1 .. size[t] : data[t][i] = o
      BY <1>2, <2>1
    <3>2. i # g
      BY <1>2, <2>1, <2>2, <3>1
    <3>3. CASE i = size[t]
      <4>1. g \in 1 .. size[t] - 1
        <5>1. size[t] \in Nat /\ g # size[t]
          BY <1>1, <3>2, <3>3
        <5> QED
          BY <5>1
      <4> QED
        BY <2>4, <3>1, <3>3, <4>1
    <3>4. CASE i # size[t]
      <4>1. i \in 1 .. size[t] - 1
        <5>1. size[t] \in Nat
          BY <1>1
        <5> QED
          BY <3>4, <5>1
      <4>2. i \in Hazard!Slot
        BY <1>1, <4>1 DEF Length, Hazard!Slot, PtrUsage
      <4> QED
        BY <2>4, <3>1, <3>2, <4>1, <4>2
    <3> QED
      BY <3>3, <3>4
  <2>6. Settled(t)' = size[t] - 1 /\ size[t] - 1 \in Length
    BY <1>1, <1>3, <2>1, <2>3
  <2> QED
    BY <2>1, <2>5, <2>6
<1>10. ASSUME Hazard!Shrink(t) PROVE Announces(t)' /\ ArgumentEntered(t)'
  BY <1>1, <1>2, <1>10 DEF Hazard!Shrink
<1>11. ASSUME Hazard!EndOp(t) PROVE Announces(t)' /\ ArgumentEntered(t)'
  BY <1>1, <1>3, <1>11 DEF Hazard!EndOp
<1> QED
  BY <1>4, <1>5, <1>6, <1>7, <1>8, <1>9, <1>10, <1>11

(* So every thread has entered what it holds.                              *)
LEMMA EntriesStep ==
  ASSUME PtrUsage, HazardInv, [Hazard!Next]_Hazard!vars
  PROVE  Announced' /\ Argument'
<1> SUFFICES ASSUME NEW u \in Hazard!Thread PROVE Announces(u)' /\ ArgumentEntered(u)'
  BY DEF Announced, Argument
<1>1. Reader \subseteq Hazard!Thread /\ Writer \subseteq Hazard!Thread
  BY DEF PtrUsage
<1>2. ASSUME NEW t \in Hazard!Thread,
             \/ \E o \in Obj : Hazard!Protect(t, o) \/ Hazard!Unprotect(t, o)
             \/ Hazard!StoreEntry(t) \/ Hazard!Grow(t) \/ Hazard!NotRetiredCallback(t) \/ Hazard!Erase(t) \/ Hazard!Shrink(t) \/ Hazard!EndOp(t)
      PROVE  Announces(u)' /\ ArgumentEntered(u)'
  <2>1. CASE u = t
    BY <1>2, <2>1, OwnEntries
  <2>2. CASE u # t
    BY <1>2, <2>2, ReaderKeepsOthers, OthersKeepEntries
  <2> QED
    BY <2>1, <2>2
<1>3. ASSUME NEW t \in Hazard!Thread,
             \/ \E o \in Obj : Hazard!Link(t, o) \/ Hazard!Unlink(t, o) \/ Hazard!Retire(t, o)
             \/ Hazard!ScanSize(t) \/ Hazard!ScanEntry(t) \/ Hazard!FreeUnprotected(t)
      PROVE  Announces(u)' /\ ArgumentEntered(u)'
  BY <1>3, WriterKeepsEntries, OthersKeepEntries
<1>4. CASE UNCHANGED Hazard!vars
  BY <1>4, OthersKeepEntries DEF Hazard!vars
<1> QED
  BY <1>1, <1>2, <1>3, <1>4 DEF Hazard!Next

(* What a scan of the list of t may still read of an object that t holds   *)
(* remains, whatever t does, until the object is lost.                     *)
LEMMA EntryStays ==
  ASSUME PtrUsage, HazardInv, NEW t \in Hazard!Thread,
         \/ \E o \in Obj : Hazard!Protect(t, o) \/ Hazard!Unprotect(t, o)
         \/ Hazard!StoreEntry(t) \/ Hazard!Grow(t) \/ Hazard!NotRetiredCallback(t) \/ Hazard!Erase(t) \/ Hazard!Shrink(t) \/ Hazard!EndOp(t),
         NEW o \in held'[t] \ lost'[t], o \notin linked
  PROVE  /\ o \in held[t] \ lost[t]
         /\ Hazard!Read(t) =>
              \A i \in Hazard!Slot : data[t][i] = o /\ (i <= Settled(t) \/ o \in moved[t]) =>
                data'[t][i] = o /\ (i <= Settled(t)' \/ o \in moved'[t])
<1>1. /\ size \in [Hazard!Thread -> Length] /\ size[t] \in Nat
      /\ data \in [Hazard!Thread -> [Hazard!Slot -> Obj \cup {None}]]
      /\ data[t] \in [Hazard!Slot -> Obj \cup {None}]
      /\ held \in [Hazard!Thread -> SUBSET Obj]
      /\ moved \in [Hazard!Thread -> SUBSET Obj]
      /\ lost \in [Hazard!Thread -> SUBSET Obj]
      /\ pc \in [Hazard!Thread -> Stage]
      /\ Hazard!Slot \subseteq Nat
  BY Slots DEF HazardInv, PtrTypeOK, Hazard!Slot
<1> DEFINE Stays ==
      /\ o \in held[t] \ lost[t]
      /\ Hazard!Read(t) =>
           \A i \in Hazard!Slot : data[t][i] = o /\ (i <= Settled(t) \/ o \in moved[t]) =>
             data'[t][i] = o /\ (i <= Settled(t)' \/ o \in moved'[t])
<1> SUFFICES Stays
  OBVIOUS
<1> USE DEF Settled, Hazard!Move, Hazard!objects, Hazard!lists, Hazard!bags, Hazard!history
<1>2. ASSUME NEW p \in Obj, Hazard!Protect(t, p) PROVE Stays
  BY <1>1, <1>2 DEF Hazard!Protect
<1>3. ASSUME NEW p \in Obj, Hazard!Unprotect(t, p) PROVE Stays
  BY <1>1, <1>3 DEF Hazard!Unprotect
<1>4. ASSUME Hazard!StoreEntry(t) PROVE Stays
  <2>1. /\ pc[t] = "add" /\ pc'[t] = "grow" /\ UNCHANGED <<size, held, moved>>
        /\ \A i \in Hazard!Slot : i # size[t] + 1 => data'[t][i] = data[t][i]
        /\ lost[t] \subseteq lost'[t]
        /\ Hazard!Read(t) => moved[t] \cap {data[t][size[t] + 1]} \subseteq lost'[t]
    BY <1>1, <1>4 DEF Hazard!StoreEntry
  <2>2. ASSUME Hazard!Read(t), NEW i \in Hazard!Slot, data[t][i] = o, i <= Settled(t) \/ o \in moved[t] PROVE i # size[t] + 1
    BY <1>1, <2>1, <2>2
  <2> QED
    BY <2>1, <2>2
<1>5. ASSUME Hazard!Grow(t) PROVE Stays
  BY <1>1, <1>5 DEF Hazard!Grow
<1>6. ASSUME Hazard!NotRetiredCallback(t) PROVE Stays
  BY <1>1, <1>6 DEF Hazard!NotRetiredCallback
<1>7. ASSUME Hazard!Erase(t) PROVE Stays
  <2>1. /\ pc[t] = "erase" /\ pc'[t] = "shrink" /\ UNCHANGED <<size, held, lost>>
        /\ Hazard!Read(t) => moved'[t] = moved[t] \cup (held[t] \cap {data[t][size[t]]})
    BY <1>1, <1>7 DEF Hazard!Erase
  <2>2. PICK g \in 1 .. size[t] : data[t][g] = arg[t] /\ data' = [data EXCEPT ![t] = [data[t] EXCEPT ![g] = data[t][size[t]]]]
    BY <1>7, EraseFills
  <2>3. arg[t] \notin held[t]
    BY <2>1 DEF HazardInv, Argument, ArgumentEntered
  <2>4. ASSUME Hazard!Read(t), NEW i \in Hazard!Slot, data[t][i] = o, i <= Settled(t) \/ o \in moved[t]
        PROVE  data'[t][i] = o /\ (i <= Settled(t)' \/ o \in moved'[t])
    <3>1. i # g /\ data'[t][i] = o
      BY <1>1, <2>1, <2>2, <2>3, <2>4
    <3>2. i = size[t] => o \in moved'[t]
      BY <2>1, <2>4
    <3>3. Settled(t) = size[t] /\ Settled(t)' = size[t] - 1
      BY <1>1, <2>1
    <3>4. size[t] \in Nat /\ i \in Nat
      BY <1>1
    <3>5. CASE i <= Settled(t)
      <4>1. i = size[t] \/ i <= size[t] - 1
        BY <3>3, <3>4, <3>5
      <4> QED
        BY <3>1, <3>2, <3>3, <4>1
    <3>6. CASE o \in moved[t]
      BY <2>1, <2>4, <3>1, <3>6
    <3> QED
      BY <2>4, <3>5, <3>6
  <2> QED
    BY <2>1, <2>4
<1>8. ASSUME Hazard!Shrink(t) PROVE Stays
  BY <1>1, <1>8 DEF Hazard!Shrink
<1>9. ASSUME Hazard!EndOp(t) PROVE Stays
  BY <1>1, <1>9 DEF Hazard!EndOp
<1> QED
  BY <1>2, <1>3, <1>4, <1>5, <1>6, <1>7, <1>8, <1>9

(* The counters of a scan stay within what it reads.                       *)
LEMMA ScanRangeStep ==
  ASSUME PtrUsage, HazardInv, [Hazard!Next]_Hazard!vars
  PROVE  ScanRange'
<1>1. /\ Reader \subseteq Hazard!Thread /\ Writer \subseteq Hazard!Thread
      /\ NumThreads \in Nat
      /\ ScanRange
      /\ size \in [Hazard!Thread -> Length]
      /\ scan \in [Hazard!Thread -> [list : Nat, next : Nat, size : Length]]
      /\ pc \in [Hazard!Thread -> Stage]
      /\ Length \subseteq Nat
  BY Slots DEF PtrUsage, HazardInv, PtrTypeOK
<1> USE DEF ScanRange, Scanning, Hazard!Move, Hazard!lists, Hazard!bags
<1>2. ASSUME NEW t \in Hazard!Thread,
             \/ \E o \in Obj : Hazard!Protect(t, o) \/ Hazard!Unprotect(t, o)
             \/ Hazard!StoreEntry(t) \/ Hazard!Grow(t) \/ Hazard!NotRetiredCallback(t) \/ Hazard!Erase(t) \/ Hazard!Shrink(t) \/ Hazard!EndOp(t)
             \/ \E o \in Obj : Hazard!Link(t, o) \/ Hazard!Unlink(t, o)
             \/ Hazard!FreeUnprotected(t)
      PROVE  ScanRange'
  <2>1. /\ UNCHANGED scan
        /\ pc' = pc \/ \E s : s \notin {"size", "entry", "free"} /\ pc' = [pc EXCEPT ![t] = s]
    BY <1>2
    DEF Hazard!Protect, Hazard!Unprotect, Hazard!StoreEntry, Hazard!Grow, Hazard!NotRetiredCallback, Hazard!Erase, Hazard!Shrink, Hazard!EndOp, Hazard!Link, Hazard!Unlink,
        Hazard!FreeUnprotected
  <2> QED
    BY <1>1, <2>1
<1>3. ASSUME NEW t \in Hazard!Thread, NEW o \in Obj, Hazard!Retire(t, o) PROVE ScanRange'
  BY <1>1, <1>3 DEF Hazard!Retire
<1>4. ASSUME NEW t \in Hazard!Thread, Hazard!ScanSize(t) PROVE ScanRange'
  <2>1. CASE scan[t].list > NumThreads
    BY <1>1, <1>4, <2>1 DEF Hazard!ScanSize
  <2>2. CASE ~(scan[t].list > NumThreads)
    <3>1. scan'[t].list = scan[t].list /\ scan'[t].next = 1 /\ scan'[t].size = size[scan[t].list]
      BY <1>1, <1>4, <2>2 DEF Hazard!ScanSize
    <3>2. scan[t].list \in Hazard!Thread
      <4>1. scan[t].list \in Nat /\ scan[t].list >= 1
        BY <1>1, <1>4 DEF Hazard!ScanSize
      <4> QED
        BY <1>1, <2>2, <4>1 DEF Hazard!Thread
    <3> QED
      BY <1>1, <1>4, <2>2, <3>1, <3>2 DEF Hazard!ScanSize
  <2> QED
    BY <2>1, <2>2
<1>5. ASSUME NEW t \in Hazard!Thread, Hazard!ScanEntry(t) PROVE ScanRange'
  <2>1. CASE scan[t].next > scan[t].size
    BY <1>1, <1>5, <2>1 DEF Hazard!ScanEntry, Hazard!PastLast
  <2>2. CASE ~(scan[t].next > scan[t].size)
    <3>1. /\ scan'[t].list = scan[t].list
          /\ scan'[t].next = scan[t].next + 1
          /\ scan'[t].size = scan[t].size
          /\ pc' = pc /\ pc[t] = "entry"
          /\ \A u \in Hazard!Thread : u # t => scan'[u] = scan[u]
      BY <1>1, <1>5, <2>2 DEF Hazard!ScanEntry, Hazard!PastLast
    <3>2. scan[t].next + 1 \in 1 .. scan[t].size + 1
      <4>1. scan[t].next \in Nat /\ scan[t].size \in Nat
        BY <1>1
      <4> QED
        BY <2>2, <4>1
    <3> QED
      BY <1>1, <3>1, <3>2
  <2> QED
    BY <2>1, <2>2
<1>6. CASE UNCHANGED Hazard!vars
  BY <1>1, <1>6 DEF Hazard!vars
<1> QED
  BY <1>1, <1>2, <1>3, <1>4, <1>5, <1>6 DEF Hazard!Next

(* What a reader does meanwhile takes nothing from what a scan has seen or *)
(* will see: what it newly holds is linked, and not in the bag.            *)
LEMMA ReaderKeepsScanned ==
  ASSUME PtrUsage, HazardInv, NEW t \in Hazard!Thread,
         \/ \E o \in Obj : Hazard!Protect(t, o) \/ Hazard!Unprotect(t, o)
         \/ Hazard!StoreEntry(t) \/ Hazard!Grow(t) \/ Hazard!NotRetiredCallback(t) \/ Hazard!Erase(t) \/ Hazard!Shrink(t) \/ Hazard!EndOp(t)
  PROVE  PtrScanned'
<1>1. UNCHANGED <<retired, comparing, scan, linked>>
  BY DEF Hazard!Protect, Hazard!Unprotect, Hazard!StoreEntry, Hazard!Grow, Hazard!NotRetiredCallback, Hazard!Erase, Hazard!Shrink, Hazard!EndOp, Hazard!bags, Hazard!objects
<1>2. pc'[t] \notin Scanning /\ \A w \in Hazard!Thread : w # t => pc'[w] = pc[w]
  BY DEF HazardInv, PtrTypeOK, Hazard!Protect, Hazard!Unprotect, Hazard!StoreEntry, Hazard!Grow, Hazard!NotRetiredCallback, Hazard!Erase, Hazard!Shrink, Hazard!EndOp,
         Hazard!Move, Scanning
<1>3. \A w \in Hazard!Thread : linked \cap retired[w] = {}
  BY DEF HazardInv, PtrOnePlace
<1> SUFFICES ASSUME NEW w \in Hazard!Thread, NEW u \in Hazard!Thread, pc'[w] \in Scanning,
                    NEW o \in (held'[u] \ lost'[u]) \cap retired'[w]
             PROVE  /\ u < scan'[w].list => o \in comparing'[w]
                    /\ u = scan'[w].list /\ pc'[w] = "entry" => o \in comparing'[w] \/ PtrAhead(w, u, o)'
  BY DEF PtrScanned
<1>4. w # t /\ pc'[w] = pc[w]
  BY <1>2
<1>5. o \notin linked
  BY <1>1, <1>3
<1>6. CASE u # t
  <2>1. UNCHANGED <<pc[u], size[u], data[u], held[u], moved[u], lost[u]>>
    BY <1>6, ReaderKeepsOthers
  <2>2. PtrAhead(w, u, o)' <=> PtrAhead(w, u, o)
    BY <1>1, <2>1 DEF PtrAhead, Settled
  <2> QED
    BY <1>1, <1>4, <2>1, <2>2 DEF HazardInv, PtrScanned
<1>7. CASE u = t
  <2>1. o \in held[u] \ lost[u]
    BY <1>5, <1>7, EntryStays
  <2>2. u < scan[w].list => o \in comparing[w]
    BY <1>1, <1>4, <2>1 DEF HazardInv, PtrScanned
  <2>3. ASSUME u = scan[w].list, pc[w] = "entry", o \notin comparing[w] PROVE PtrAhead(w, u, o)'
    <3>1. PICK i \in scan[w].next .. scan[w].size : data[u][i] = o /\ (i <= Settled(u) \/ o \in moved[u])
      BY <1>1, <1>4, <2>1, <2>3 DEF HazardInv, PtrScanned, PtrAhead
    <3>2. Hazard!Read(u)
      BY <2>3 DEF Hazard!Read
    <3>3. i \in Hazard!Slot
      <4>1. scan[w].next \in Nat /\ scan[w].next >= 1 /\ scan[w].size \in Length
        BY <2>3 DEF HazardInv, ScanRange, PtrTypeOK
      <4>2. i \in Int /\ 1 <= i /\ i <= MAX_HAZARDPTRS_PER_THREAD - 1
        BY <4>1 DEF Length, PtrUsage
      <4> QED
        BY <4>2 DEF Hazard!Slot, PtrUsage
    <3>4. data'[u][i] = o /\ (i <= Settled(u)' \/ o \in moved'[u])
      BY <1>5, <1>7, <3>1, <3>2, <3>3, EntryStays
    <3> QED
      BY <1>1, <3>4 DEF PtrAhead
  <2> QED
    BY <1>1, <1>4, <2>2, <2>3
<1> QED
  BY <1>6, <1>7

(* A scan sees the entries in order, and goes to the end that the list had *)
(* when it began to read it.                                               *)
LEMMA WriterKeepsScanned ==
  ASSUME PtrUsage, HazardInv, NEW t \in Hazard!Thread,
         \/ \E o \in Obj : Hazard!Link(t, o) \/ Hazard!Unlink(t, o) \/ Hazard!Retire(t, o)
         \/ Hazard!ScanSize(t) \/ Hazard!ScanEntry(t) \/ Hazard!FreeUnprotected(t)
  PROVE  PtrScanned'
<1>1. /\ UNCHANGED <<size, data, held, moved, lost>>
      /\ \A u \in Hazard!Thread : Settled(u)' = Settled(u)
  BY WriterKeepsEntries, OthersKeepEntries
<1>2. /\ pc \in [Hazard!Thread -> Stage] /\ retired \in [Hazard!Thread -> SUBSET Obj]
      /\ comparing \in [Hazard!Thread -> SUBSET (Obj \cup {None})]
      /\ scan \in [Hazard!Thread -> [list : Nat, next : Nat, size : Length]]
      /\ size \in [Hazard!Thread -> Length]
      /\ Hazard!Thread \subseteq Nat /\ Length \subseteq Nat
      /\ PtrScanned
  BY Slots DEF HazardInv, PtrTypeOK, Hazard!Thread
<1>3. \A w \in Hazard!Thread : w # t => UNCHANGED <<pc[w], retired[w], comparing[w], scan[w]>>
  BY <1>2 DEF Hazard!Link, Hazard!Unlink, Hazard!Retire, Hazard!ScanSize, Hazard!ScanEntry, Hazard!FreeUnprotected, Hazard!Move, Hazard!bags
<1> SUFFICES ASSUME NEW w \in Hazard!Thread, NEW u \in Hazard!Thread, pc'[w] \in Scanning,
                    NEW o \in (held[u] \ lost[u]) \cap retired'[w]
             PROVE  /\ u < scan'[w].list => o \in comparing'[w]
                    /\ u = scan'[w].list /\ pc'[w] = "entry" => o \in comparing'[w] \/ PtrAhead(w, u, o)'
  BY <1>1 DEF PtrScanned
<1>4. ASSUME UNCHANGED <<scan[w].next, scan[w].size>> PROVE PtrAhead(w, u, o)' <=> PtrAhead(w, u, o)
  BY <1>1, <1>4 DEF PtrAhead
<1>5. CASE w # t
  BY <1>2, <1>3, <1>4, <1>5 DEF PtrScanned
<1>6. CASE w = t /\ \E p \in Obj : Hazard!Link(t, p) \/ Hazard!Unlink(t, p)
  <2>1. UNCHANGED <<pc[t], retired[t], comparing[t], scan[t]>>
    BY <1>6 DEF Hazard!Link, Hazard!Unlink, Hazard!bags
  <2> QED
    BY <1>2, <1>4, <1>6, <2>1 DEF PtrScanned
<1>7. ASSUME w = t, NEW p \in Obj, Hazard!Retire(t, p)
      PROVE  ~(u < scan'[w].list) /\ pc'[w] # "entry"
  <2>1. pc'[t] = "size"
    BY <1>2, <1>7 DEF Hazard!Retire, Hazard!Move, Scanning
  <2>2. scan'[t].list = 1
    BY <1>2, <1>7, <2>1 DEF Hazard!Retire, Hazard!Move
  <2>3. ~(u < 1)
    BY DEF Hazard!Thread
  <2> QED
    BY <1>7, <2>1, <2>2, <2>3
<1>8. CASE w = t /\ Hazard!ScanSize(t)
  <2>1. /\ pc[t] = "size" /\ retired' = retired /\ comparing' = comparing
        /\ scan'[t].list = scan[t].list
    BY <1>2, <1>8 DEF Hazard!ScanSize
  <2>2. u < scan[t].list => o \in comparing[t]
    BY <1>2, <1>8, <2>1 DEF PtrScanned, Scanning
  <2>3. pc'[t] = "entry" => scan'[t].next = 1 /\ scan'[t].size = size[scan[t].list]
    BY <1>2, <1>8, <2>1 DEF Hazard!ScanSize, Hazard!Move
  <2>4. PICK i \in 1 .. Settled(u) : data[u][i] = o
    BY DEF HazardInv, Announced, Announces
  <2>5. i \in 1 .. size[u] /\ i <= Settled(u)
    <3>1. size[u] \in Nat /\ Settled(u) \in Nat
      BY <1>2 DEF HazardInv, Announced, Announces
    <3>2. Settled(u) = size[u] \/ Settled(u) = size[u] - 1
      BY DEF Settled
    <3> QED
      BY <3>1, <3>2
  <2>6. u = scan'[t].list /\ pc'[t] = "entry" => PtrAhead(t, u, o)'
    BY <1>1, <2>1, <2>3, <2>4, <2>5 DEF PtrAhead
  <2> QED
    BY <1>8, <2>1, <2>2, <2>6
<1>9. CASE w = t /\ Hazard!ScanEntry(t)
  <2>1. /\ pc[t] = "entry" /\ retired' = retired
        /\ scan[t].next \in Nat /\ scan[t].size \in Nat /\ scan[t].list \in Nat
        /\ u \in Nat
    BY <1>2, <1>9 DEF Hazard!ScanEntry, Hazard!PastLast
  <2>2. /\ u < scan[t].list => o \in comparing[t]
        /\ u = scan[t].list => o \in comparing[t] \/ PtrAhead(t, u, o)
    BY <1>2, <1>9, <2>1 DEF PtrScanned, Scanning
  <2>3. CASE scan[t].next > scan[t].size
    <3>1. pc'[t] = "size" /\ comparing' = comparing /\ scan'[t].list = scan[t].list + 1
      BY <1>2, <1>9, <2>3 DEF Hazard!ScanEntry, Hazard!PastLast, Hazard!Move
    <3>2. ~PtrAhead(t, u, o)
      BY <2>1, <2>3 DEF PtrAhead
    <3>3. u < scan[t].list + 1 => u < scan[t].list \/ u = scan[t].list
      BY <2>1
    <3> QED
      BY <1>9, <2>2, <3>1, <3>2, <3>3
  <2>4. CASE ~(scan[t].next > scan[t].size)
    <3>1. /\ comparing'[t] = comparing[t] \cup {data[scan[t].list][scan[t].next]}
          /\ scan'[t].list = scan[t].list
          /\ scan'[t].size = scan[t].size
          /\ scan'[t].next = scan[t].next + 1
      BY <1>2, <1>9, <2>4 DEF Hazard!ScanEntry, Hazard!PastLast
    <3>2. ASSUME u = scan[t].list, PtrAhead(t, u, o) PROVE o \in comparing'[t] \/ PtrAhead(t, u, o)'
      <4>1. PICK i \in scan[t].next .. scan[t].size : data[u][i] = o /\ (i <= Settled(u) \/ o \in moved[u])
        BY <3>2 DEF PtrAhead
      <4>2. CASE i = scan[t].next
        BY <3>1, <3>2, <4>1, <4>2
      <4>3. CASE i # scan[t].next
        <5>1. i \in scan[t].next + 1 .. scan[t].size
          BY <2>1, <4>3
        <5> QED
          BY <1>1, <3>1, <4>1, <5>1 DEF PtrAhead
      <4> QED
        BY <4>2, <4>3
    <3> QED
      BY <1>9, <2>2, <3>1, <3>2
  <2> QED
    BY <2>3, <2>4
<1>10. CASE w = t /\ Hazard!FreeUnprotected(t)
  BY <1>2, <1>10 DEF Hazard!FreeUnprotected, Hazard!Move, Scanning
<1> QED
  BY <1>5, <1>6, <1>7, <1>8, <1>9, <1>10

(* So do all steps.                                                        *)
LEMMA PtrScannedStep ==
  ASSUME PtrUsage, HazardInv, [Hazard!Next]_Hazard!vars
  PROVE  PtrScanned'
<1>1. Reader \subseteq Hazard!Thread /\ Writer \subseteq Hazard!Thread
  BY DEF PtrUsage
<1>2. CASE UNCHANGED Hazard!vars
  BY <1>2 DEF HazardInv, PtrScanned, PtrAhead, Settled, Hazard!vars
<1> QED
  BY <1>1, <1>2, ReaderKeepsScanned, WriterKeepsScanned DEF Hazard!Next

(* When the scan is over, it has seen every object of its bag that is held *)
(* and not lost.                                                           *)
LEMMA PtrHeldStep ==
  ASSUME PtrUsage, HazardInv, [Hazard!Next]_Hazard!vars
  PROVE  Hazard!HeldNotFreed'
<1>1. /\ Reader \subseteq Hazard!Thread /\ Writer \subseteq Hazard!Thread
      /\ held \in [Hazard!Thread -> SUBSET Obj] /\ lost \in [Hazard!Thread -> SUBSET Obj]
      /\ PtrOnePlace /\ Hazard!HeldNotFreed
  BY DEF PtrUsage, HazardInv, PtrTypeOK
<1> USE DEF Hazard!HeldNotFreed
<1>2. ASSUME NEW t \in Hazard!Thread, Hazard!FreeUnprotected(t) PROVE Hazard!HeldNotFreed'
  <2>1. ASSUME NEW u \in Hazard!Thread, NEW o \in held[u] \ lost[u], o \in retired[t] PROVE o \in comparing[t]
    <3>1. pc[t] = "free" /\ scan[t].list > NumThreads /\ scan[t].list \in Nat
      BY <1>2 DEF Hazard!FreeUnprotected, Hazard!Move, HazardInv, ScanRange, PtrTypeOK
    <3>2. u < scan[t].list
      BY <3>1 DEF Hazard!Thread, PtrUsage
    <3> QED
      BY <2>1, <3>1, <3>2 DEF HazardInv, PtrScanned, Scanning
  <2> QED
    BY <1>1, <1>2, <2>1 DEF Hazard!FreeUnprotected, Hazard!history
<1>3. ASSUME NEW t \in Hazard!Thread, Hazard!NotRetiredCallback(t) PROVE Hazard!HeldNotFreed'
  <2>1. CASE arg[t] \in linked
    BY <1>1, <1>3, <2>1 DEF Hazard!NotRetiredCallback, Hazard!objects, Hazard!history, PtrOnePlace
  <2>2. CASE arg[t] \notin linked
    BY <1>1, <1>3, <2>2 DEF Hazard!NotRetiredCallback, Hazard!objects, Hazard!history
  <2> QED
    BY <2>1, <2>2
<1>4. ASSUME NEW t \in Hazard!Thread,
             \/ \E o \in Obj : Hazard!Protect(t, o) \/ Hazard!Unprotect(t, o)
             \/ Hazard!StoreEntry(t) \/ Hazard!Grow(t) \/ Hazard!Erase(t) \/ Hazard!Shrink(t) \/ Hazard!EndOp(t)
             \/ \E o \in Obj : Hazard!Link(t, o) \/ Hazard!Unlink(t, o) \/ Hazard!Retire(t, o)
             \/ Hazard!ScanSize(t) \/ Hazard!ScanEntry(t)
      PROVE  Hazard!HeldNotFreed'
  <2>1. available' \subseteq available
    BY <1>4
    DEF Hazard!Protect, Hazard!Unprotect, Hazard!StoreEntry, Hazard!Grow, Hazard!Erase, Hazard!Shrink, Hazard!EndOp, Hazard!Link, Hazard!Unlink, Hazard!Retire, Hazard!ScanSize,
        Hazard!ScanEntry, Hazard!objects
  <2>2. \A u \in Hazard!Thread : held'[u] \ lost'[u] \subseteq held[u] \ lost[u]
    BY <1>1, <1>4
    DEF Hazard!Protect, Hazard!Unprotect, Hazard!StoreEntry, Hazard!Grow, Hazard!Erase, Hazard!Shrink, Hazard!EndOp, Hazard!Link, Hazard!Unlink, Hazard!Retire, Hazard!ScanSize,
        Hazard!ScanEntry, Hazard!history
  <2> QED
    BY <1>1, <2>1, <2>2
<1>5. CASE UNCHANGED Hazard!vars
  BY <1>1, <1>5 DEF Hazard!vars
<1> QED
  BY <1>1, <1>2, <1>3, <1>4, <1>5 DEF Hazard!Next

-----------------------------------------------------------------------------
(* Nothing is held, announced or retired.                                  *)
LEMMA PtrInitialInvariant ==
  ASSUME PtrUsage, Hazard!Init
  PROVE  HazardInv
<1>1. PtrTypeOK
  BY Slots DEF Hazard!Init, PtrTypeOK, Stage
<1>2. Announced /\ Argument
  BY Slots DEF Hazard!Init, Announced, Announces, Argument, ArgumentEntered, Settled
<1>3. ScanRange /\ PtrScanned
  BY DEF Hazard!Init, ScanRange, PtrScanned, Scanning
<1>4. PtrOnePlace /\ Hazard!HeldNotFreed
  BY DEF Hazard!Init, PtrOnePlace, Hazard!HeldNotFreed
<1> QED
  BY <1>1, <1>2, <1>3, <1>4 DEF HazardInv

(* What the threads hold is announced, and a scan misses none of it but    *)
(* what is lost, in every reachable state.                                 *)
THEOREM HazardInvariance ==
  ASSUME PtrUsage
  PROVE  Hazard!Spec => []HazardInv
<1>1. Hazard!Init => HazardInv
  BY PtrInitialInvariant
<1>2. HazardInv /\ [Hazard!Next]_Hazard!vars => HazardInv'
  BY PtrTypeStep, PtrOnePlaceStep, EntriesStep, ScanRangeStep, PtrScannedStep, PtrHeldStep DEF HazardInv
<1> QED
  BY <1>1, <1>2, PTL DEF Hazard!Spec

(* An object that a thread has protected, with the callback after the      *)
(* announcement, is not given to the pool before the thread lets go of it, *)
(* although the scan reads the announcements one after the other while     *)
(* they are entered, erased and moved: unless its announcement has been    *)
(* moved, and overwritten where it was, while a scan read the list.        *)
THEOREM ProtectedObjectsStay ==
  ASSUME PtrUsage
  PROVE  Hazard!Spec => []Hazard!HeldNotFreed
<1>1. HazardInv => Hazard!HeldNotFreed
  BY DEF HazardInv
<1> QED
  BY <1>1, HazardInvariance, PTL
=============================================================================
