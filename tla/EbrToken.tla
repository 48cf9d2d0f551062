------------------------------- MODULE EbrToken -------------------------------
(***************************************************************************)
(* The reclaimer reclaimer_ebr_token: a token goes around the threads, and *)
(* each passes it on when it starts an operation.  When it comes back,     *)
(* every other thread has started an operation since.                      *)
(*                                                                         *)
(* linked, pending, available, window and inOp say what the threads do     *)
(* with their objects, as in Reclamation.  Only what the reclaimer frees   *)
(* is its own decision.                                                    *)
(***************************************************************************)
EXTENDS Integers, FiniteSets

CONSTANTS
  NUM_PROCESSES,
  Obj,
  BLOCK_SIZE       (* objects of a block of a bag                          *)

VARIABLES
  linked, pending, available, window, inOp,
  token,           (* token[t]: 0 or 1                                     *)
  curr, last,      (* the bags of t                                        *)
  pc

client == <<linked, pending, available, window, inOp>>
vars == <<client, token, curr, last, pc>>

Thread == 0 .. NUM_PROCESSES - 1

Promise == INSTANCE Reclamation

Init ==
  /\ Promise!Init
  /\ token = [t \in Thread |-> IF t = 0 THEN 1 ELSE 0]
  /\ curr = [t \in Thread |-> {}]
  /\ last = [t \in Thread |-> {}]
  /\ pc = [t \in Thread |-> "idle"]

Move(t, from, to) == pc[t] = from /\ pc' = [pc EXCEPT ![t] = to]

-----------------------------------------------------------------------------
(* startOp *)

StartOp(t) ==
  /\ Move(t, "idle", "in")
  /\ token[t] = 0
  /\ Promise!BeginOp(t)
  /\ UNCHANGED <<token, curr, last>>

TakeToken(t) ==
  /\ Move(t, "idle", "pass")
  /\ token[t] = 1
  /\ token' = [token EXCEPT ![t] = 0]
  /\ UNCHANGED <<client, curr, last>>

PassToken(t) ==
  /\ Move(t, "pass", "rotate")
  /\ token' = [token EXCEPT ![(t + 1) % NUM_PROCESSES] = 1]
  /\ UNCHANGED <<client, curr, last>>

(* Mutant: what this thread has retired since the last rotation is freed. *)
RotateCurr(t) ==
  /\ Move(t, "rotate", "enter")
  /\ \E left \in SUBSET curr[t] :
       /\ Cardinality(left) = Cardinality(curr[t]) % BLOCK_SIZE
       /\ available' = available \cup (curr[t] \ left)
       /\ curr' = [curr EXCEPT ![t] = left]
  /\ UNCHANGED <<linked, pending, window, inOp, token, last>>

(* Mutant: the two bags are not exchanged. *)
RotateOnlyFrees(t) ==
  /\ Move(t, "rotate", "enter")
  /\ available' = available \cup last[t]
  /\ last' = [last EXCEPT ![t] = {}]
  /\ UNCHANGED <<linked, pending, window, inOp, token, curr>>

(* rotateEpochBags: the full blocks of last are freed, and the rest of it  *)
(* becomes curr.                                                           *)
RotateEpochBags(t) ==
  /\ Move(t, "rotate", "enter")
  /\ \E left \in SUBSET last[t] :
       /\ Cardinality(left) = Cardinality(last[t]) % BLOCK_SIZE
       /\ available' = available \cup (last[t] \ left)
       /\ curr' = [curr EXCEPT ![t] = left]
       /\ last' = [last EXCEPT ![t] = curr[t]]
  /\ UNCHANGED <<linked, pending, window, inOp, token>>

Enter(t) ==
  /\ Move(t, "enter", "in")
  /\ Promise!BeginOp(t)
  /\ UNCHANGED <<token, curr, last>>

-----------------------------------------------------------------------------
(* Within an operation.  endOp does nothing. *)

Link(t, o) == Promise!Link(t, o) /\ UNCHANGED <<token, curr, last, pc>>

Unlink(t, o) == Promise!Unlink(t, o) /\ UNCHANGED <<token, curr, last, pc>>

Retire(t, o) ==
  /\ Promise!Retire(t, o)
  /\ curr' = [curr EXCEPT ![t] = @ \cup {o}]
  /\ UNCHANGED <<token, last, pc>>

EndOp(t) ==
  /\ Move(t, "in", "idle")
  /\ Promise!EndOp(t)
  /\ UNCHANGED <<token, curr, last>>

-----------------------------------------------------------------------------
(* A thread stops, with or without the token.  deinitThread frees all its  *)
(* objects, which is why its callers wait for all threads to have stopped. *)

Finish(t) ==
  /\ Move(t, "idle", "done")
  /\ UNCHANGED <<client, token, curr, last>>

DeinitThread(t) ==
  /\ \A u \in Thread : pc[u] \in {"done", "gone"}
  /\ Move(t, "done", "gone")
  /\ available' = available \cup curr[t] \cup last[t]
  /\ curr' = [curr EXCEPT ![t] = {}]
  /\ last' = [last EXCEPT ![t] = {}]
  /\ UNCHANGED <<linked, pending, window, inOp, token>>

-----------------------------------------------------------------------------
Starting(t) == StartOp(t) \/ TakeToken(t) \/ PassToken(t) \/ RotateEpochBags(t) \/ Enter(t)

Next ==
  \E t \in Thread :
    \/ Starting(t) \/ EndOp(t) \/ Finish(t) \/ DeinitThread(t)
    \/ \E o \in Obj : Link(t, o) \/ Unlink(t, o) \/ Retire(t, o)

Spec == Init /\ [][Next]_vars

-----------------------------------------------------------------------------
(* No object is freed while a thread is in an operation that has seen it   *)
(* linked; nothing else goes on than what Reclamation describes.           *)
PromiseKept == Promise!Spec
=============================================================================
