----------------------------- MODULE Reclamation -----------------------------
(***************************************************************************)
(* What a memory reclaimer promises to the data structure that calls it    *)
(* (record_manager: startOp, endOp, retire, deallocate).                   *)
(*                                                                         *)
(* An object is owned by the allocator, linked into the structure, taken   *)
(* out of it by a thread that has not retired it yet, or retired.  The     *)
(* window of a thread is the set of objects that were linked at some       *)
(* moment of its current operation: the only ones to which it can hold a   *)
(* pointer.  The promise is in the guard of Reclaim.                       *)
(***************************************************************************)
CONSTANTS Thread, Obj

VARIABLES
  linked,      (* objects reachable in the data structure                  *)
  pending,     (* pending[t]: unlinked by t, not yet retired               *)
  available,   (* objects owned by the allocator                           *)
  window,      (* window[t]: objects linked since t's operation began      *)
  inOp         (* threads inside an operation                              *)

vars == <<linked, pending, available, window, inOp>>

Retired == Obj \ (linked \cup available \cup UNION {pending[t] : t \in Thread})

Init ==
  /\ linked = {}
  /\ pending = [t \in Thread |-> {}]
  /\ available = Obj
  /\ window = [t \in Thread |-> {}]
  /\ inOp = {}

BeginOp(t) ==
  /\ t \notin inOp
  /\ inOp' = inOp \cup {t}
  /\ window' = [window EXCEPT ![t] = linked]
  /\ UNCHANGED <<linked, pending, available>>

EndOp(t) ==
  /\ t \in inOp
  /\ pending[t] = {}
  /\ inOp' = inOp \ {t}
  /\ window' = [window EXCEPT ![t] = {}]
  /\ UNCHANGED <<linked, pending, available>>

Link(t, o) ==
  /\ t \in inOp
  /\ o \in available
  /\ available' = available \ {o}
  /\ linked' = linked \cup {o}
  /\ window' = [u \in Thread |-> IF u \in inOp THEN window[u] \cup {o} ELSE window[u]]
  /\ UNCHANGED <<pending, inOp>>

Unlink(t, o) ==
  /\ t \in inOp
  /\ o \in linked
  /\ linked' = linked \ {o}
  /\ pending' = [pending EXCEPT ![t] = @ \cup {o}]
  /\ UNCHANGED <<available, window, inOp>>

Retire(t, o) ==
  /\ o \in pending[t]
  /\ pending' = [pending EXCEPT ![t] = @ \ {o}]
  /\ UNCHANGED <<linked, available, window, inOp>>

(* Retired objects go back to the allocator only when no operation in      *)
(* progress can hold a pointer to them.                                    *)
Reclaim(S) ==
  /\ S \subseteq Retired
  /\ \A t \in Thread : window[t] \cap S = {}
  /\ available' = available \cup S
  /\ UNCHANGED <<linked, pending, window, inOp>>

Next ==
  \/ \E t \in Thread : BeginOp(t) \/ EndOp(t)
  \/ \E t \in Thread, o \in Obj : Link(t, o) \/ Unlink(t, o) \/ Retire(t, o)
  \/ \E S \in SUBSET Obj : Reclaim(S)

Spec == Init /\ [][Next]_vars
=============================================================================
