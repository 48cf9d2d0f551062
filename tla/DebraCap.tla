------------------------------- MODULE DebraCap -------------------------------
(***************************************************************************)
(* The reclaimer reclaimer_debracap: DEBRA, with a scan of all             *)
(* announcements in retire when the current bag has become too large.  One *)
(* action per access to the epoch or to an announcement.                   *)
(*                                                                         *)
(* linked, pending, available, window and inOp say what the threads do     *)
(* with their objects, as in Reclamation.  Only what the reclaimer frees   *)
(* is its own decision.                                                    *)
(***************************************************************************)
EXTENDS Integers, FiniteSets

CONSTANTS
  NUM_PROCESSES,
  Obj,
  BLOCK_SIZE,               (* objects of a block of a bag                 *)
  MIN_OPS_BEFORE_READ,
  MIN_RETIRES_BEFORE_SCAN,  (* 1000 in the code                            *)
  MaxEpoch                  (* bound: no operation starts in it            *)

VARIABLES
  linked, pending, available, window, inOp,
  epoch,
  announced,       (* announced[t]: [epoch |-> n, quiescent |-> b]         *)
  local,           (* local[t]: localvar_announcedEpoch; it is only        *)
                   (* quiescent before the first operation                 *)
  bags, index,     (* bags[t][i]: the epoch bags of t; the current one     *)
  checked, opsSinceRead, timesBagTooLarge,
  pc

client == <<linked, pending, available, window, inOp>>
limbo == <<bags, index>>
counters == <<checked, opsSinceRead, timesBagTooLarge>>
vars == <<client, epoch, announced, local, limbo, counters, pc>>

Thread == 0 .. NUM_PROCESSES - 1
EpochBag == 0 .. 2

Promise == INSTANCE Reclamation

Quiescent(w) == [w EXCEPT !.quiescent = TRUE]

Init ==
  /\ Promise!Init
  /\ epoch = 0
  /\ announced = [t \in Thread |-> [epoch |-> 0, quiescent |-> TRUE]]
  /\ local = announced
  /\ bags = [t \in Thread |-> [i \in EpochBag |-> {}]]
  /\ index = [t \in Thread |-> 0]
  /\ checked = [t \in Thread |-> 0]
  /\ opsSinceRead = [t \in Thread |-> 0]
  /\ timesBagTooLarge = [t \in Thread |-> 0]
  /\ pc = [t \in Thread |-> "idle"]

Move(t, from, to) == pc[t] = from /\ pc' = [pc EXCEPT ![t] = to]
Step(t, from, to) == Move(t, from, to) /\ UNCHANGED client

(* The end of startOp. *)
Enter(t, from) == Move(t, from, "in") /\ Promise!BeginOp(t)

-----------------------------------------------------------------------------
(* startOp announces the epoch before it rotates the bags. *)

ReadEpoch(t) ==
  LET read == [epoch |-> epoch, quiescent |-> FALSE]
  IN  /\ epoch < MaxEpoch
      /\ local' = [local EXCEPT ![t] = read]
      /\ Step(t, "idle", IF local[t] = read THEN "announce" ELSE "announce.rotate")
      /\ UNCHANGED <<epoch, announced, limbo, counters>>

Announce(t) ==
  /\ announced' = [announced EXCEPT ![t] = local[t]]
  /\ \/ Step(t, "announce", "scan")
     \/ Step(t, "announce.rotate", "rotate")
  /\ UNCHANGED <<epoch, local, limbo, counters>>

(* Mutant: the bag that has just been filled is freed, not the oldest one. *)
RotateCurrent(t) ==
  LET next == (index[t] + 1) % 3
  IN  /\ Move(t, "rotate", "scan")
      /\ checked' = [checked EXCEPT ![t] = 0]
      /\ index' = [index EXCEPT ![t] = next]
      /\ available' = available \cup bags[t][index[t]]
      /\ bags' = [bags EXCEPT ![t][index[t]] = {}]
      /\ UNCHANGED <<linked, pending, window, inOp, epoch, announced, local, opsSinceRead, timesBagTooLarge>>

(* Mutant: the scan goes on where it was in the last epoch. *)
RotateKeepsChecked(t) ==
  LET next == (index[t] + 1) % 3
  IN  /\ Move(t, "rotate", "scan")
      /\ index' = [index EXCEPT ![t] = next]
      /\ \E left \in SUBSET bags[t][next] :
           /\ Cardinality(left) = Cardinality(bags[t][next]) % BLOCK_SIZE
           /\ available' = available \cup (bags[t][next] \ left)
           /\ bags' = [bags EXCEPT ![t][next] = left]
      /\ UNCHANGED <<linked, pending, window, inOp, epoch, announced, local, counters>>

(* The full blocks of the oldest bag are freed, and it becomes the current *)
(* one.                                                                    *)
RotateEpochBags(t) ==
  LET next == (index[t] + 1) % 3
  IN  /\ Move(t, "rotate", "scan")
      /\ checked' = [checked EXCEPT ![t] = 0]
      /\ index' = [index EXCEPT ![t] = next]
      /\ \E left \in SUBSET bags[t][next] :
           /\ Cardinality(left) = Cardinality(bags[t][next]) % BLOCK_SIZE
           /\ available' = available \cup (bags[t][next] \ left)
           /\ bags' = [bags EXCEPT ![t][next] = left]
      /\ UNCHANGED <<linked, pending, window, inOp, epoch, announced, local, opsSinceRead, timesBagTooLarge>>

Passes(t, u) == announced[u].epoch = local[t].epoch \/ announced[u].quiescent

SkipScan(t) ==
  /\ opsSinceRead[t] + 1 # MIN_OPS_BEFORE_READ
  /\ Enter(t, "scan")
  /\ opsSinceRead' = [opsSinceRead EXCEPT ![t] = @ + 1]
  /\ UNCHANGED <<epoch, announced, local, limbo, checked, timesBagTooLarge>>

Scan(t) ==
  /\ pc[t] = "scan"
  /\ opsSinceRead[t] + 1 = MIN_OPS_BEFORE_READ
  /\ opsSinceRead' = [opsSinceRead EXCEPT ![t] = 0]
  /\ UNCHANGED <<epoch, announced, local, limbo, timesBagTooLarge>>
  /\ IF ~Passes(t, checked[t]) THEN Enter(t, "scan") /\ UNCHANGED checked
     ELSE /\ checked' = [checked EXCEPT ![t] = @ + 1]
          /\ IF checked[t] + 1 >= NUM_PROCESSES THEN Step(t, "scan", "advance") ELSE Enter(t, "scan")

AdvancedEpoch(t) == IF epoch = local[t].epoch THEN epoch + 1 ELSE epoch

Advance(t) ==
  /\ Enter(t, "advance")
  /\ epoch' = AdvancedEpoch(t)
  /\ UNCHANGED <<announced, local, limbo, counters>>

-----------------------------------------------------------------------------
(* Within an operation. *)

Link(t, o) ==
  /\ pc[t] = "in"
  /\ Promise!Link(t, o)
  /\ UNCHANGED <<epoch, announced, local, limbo, counters, pc>>

Unlink(t, o) ==
  /\ pc[t] = "in"
  /\ Promise!Unlink(t, o)
  /\ UNCHANGED <<epoch, announced, local, limbo, counters, pc>>

(* When the bag has a full block, retire looks at the epoch every so many  *)
(* times.                                                                  *)
Retire(t, o) ==
  LET bag == bags[t][index[t]] \cup {o}
      tooLarge == Cardinality(bag) >= BLOCK_SIZE
      times == (timesBagTooLarge[t] + 1) % MIN_RETIRES_BEFORE_SCAN
  IN  /\ Move(t, "in", IF tooLarge /\ times = 0 THEN "retire.epoch" ELSE "in")
      /\ Promise!Retire(t, o)
      /\ bags' = [bags EXCEPT ![t][index[t]] = bag]
      /\ timesBagTooLarge' = [timesBagTooLarge EXCEPT ![t] = IF tooLarge THEN times ELSE @]
      /\ UNCHANGED <<epoch, announced, local, index, checked, opsSinceRead>>

RetireReadEpoch(t) ==
  /\ Step(t, "retire.epoch", IF epoch = local[t].epoch THEN "retire.scan" ELSE "in")
  /\ UNCHANGED <<epoch, announced, local, limbo, counters>>

(* The threads that are not checked yet, one by one. *)
RetireScan(t) ==
  /\ pc[t] = "retire.scan"
  /\ UNCHANGED <<epoch, announced, local, limbo, opsSinceRead, timesBagTooLarge>>
  /\ IF checked[t] >= NUM_PROCESSES THEN Step(t, "retire.scan", "retire.advance") /\ UNCHANGED checked
     ELSE IF Passes(t, checked[t])
     THEN UNCHANGED <<client, pc>> /\ checked' = [checked EXCEPT ![t] = @ + 1]
     ELSE Step(t, "retire.scan", "in") /\ UNCHANGED checked

RetireAdvance(t) ==
  /\ Step(t, "retire.advance", "in")
  /\ epoch' = AdvancedEpoch(t)
  /\ UNCHANGED <<announced, local, limbo, counters>>

EndOp(t) ==
  /\ Move(t, "in", "idle")
  /\ Promise!EndOp(t)
  /\ announced' = [announced EXCEPT ![t] = Quiescent(local[t])]
  /\ UNCHANGED <<epoch, local, limbo, counters>>

-----------------------------------------------------------------------------
Next ==
  \E t \in Thread :
    \/ ReadEpoch(t) \/ Announce(t) \/ RotateEpochBags(t) \/ SkipScan(t) \/ Scan(t) \/ Advance(t)
    \/ RetireReadEpoch(t) \/ RetireScan(t) \/ RetireAdvance(t) \/ EndOp(t)
    \/ \E o \in Obj : Link(t, o) \/ Unlink(t, o) \/ Retire(t, o)

Spec == Init /\ [][Next]_vars

-----------------------------------------------------------------------------
(* No object is freed while a thread is in an operation that has seen it   *)
(* linked; nothing else goes on than what Reclamation describes.           *)
PromiseKept == Promise!Spec

(* The two scans share their place.  The one in retire leaves it behind    *)
(* the last thread, where the one in startOp must not go on.               *)
ScanInRange == \A t \in Thread : pc[t] = "scan" => checked[t] < NUM_PROCESSES
=============================================================================
