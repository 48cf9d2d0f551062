--------------------------------- MODULE Urcu ---------------------------------
(***************************************************************************)
(* Userspace RCU (urcu_impl.h) without time stamps: each thread counts the *)
(* ends of its read-side sections, and synchronize waits for the sections  *)
(* that it finds open.  One action per access to a counter.                *)
(***************************************************************************)
EXTENDS Integers

CONSTANTS
  NumThreads,
  MaxTime,         (* bound: no section begins when the counter is there   *)
  Updater          (* bound: the threads that call synchronize             *)

VARIABLES
  time,            (* time[t]: even while t is in a read-side section      *)
  times,           (* times[t][u]: the counter of u as t has read it       *)
  next,            (* next[t]: the thread that t reads or waits for        *)
  pc,
  before           (* history: before[t] are the threads in a section that *)
                   (* had begun before t called synchronize                *)

vars == <<time, times, next, pc, before>>

Thread == 1 .. NumThreads
Reading(u) == time[u] % 2 = 0

Init ==
  /\ time = [t \in Thread |-> 1]
  /\ times = [t \in Thread |-> time]
  /\ next = [t \in Thread |-> 1]
  /\ pc = [t \in Thread |-> "idle"]
  /\ before = [t \in Thread |-> {}]

Move(t, from, to) == pc[t] = from /\ pc' = [pc EXCEPT ![t] = to]

ReadLock(t) ==
  /\ time[t] < MaxTime
  /\ Move(t, "idle", "reading")
  /\ time' = [time EXCEPT ![t] = @ + 1]
  /\ UNCHANGED <<times, next, before>>

(* The lowest bit is set. *)
ReadUnlock(t) ==
  /\ Move(t, "reading", "idle")
  /\ time' = [time EXCEPT ![t] = @ + 1]
  /\ before' = [u \in Thread |-> before[u] \ {t}]
  /\ UNCHANGED <<times, next>>

Synchronize(t) ==
  /\ Move(t, "idle", "read")
  /\ before' = [before EXCEPT ![t] = {u \in Thread : Reading(u)}]
  /\ UNCHANGED <<time, times, next>>

ReadTime(t) ==
  /\ pc[t] = "read"
  /\ times' = [times EXCEPT ![t][next[t]] = time[next[t]]]
  /\ next' = [next EXCEPT ![t] = (@ % NumThreads) + 1]
  /\ IF next[t] = NumThreads THEN Move(t, "read", "wait") ELSE UNCHANGED pc
  /\ UNCHANGED <<time, before>>

(* Mutant: a section that goes on counts as a new one. *)
PassesOpen(t, u) ==
  \/ times[t][u] % 2 = 1
  \/ time[u] % 2 = 1 \/ time[u] >= times[t][u]

Passes(t, u) ==
  \/ times[t][u] % 2 = 1
  \/ time[u] % 2 = 1 \/ time[u] > times[t][u]

Wait(t) ==
  /\ pc[t] = "wait"
  /\ Passes(t, next[t])
  /\ next' = [next EXCEPT ![t] = (@ % NumThreads) + 1]
  /\ IF next[t] = NumThreads THEN Move(t, "wait", "return") ELSE UNCHANGED pc
  /\ UNCHANGED <<time, times, before>>

Return(t) ==
  /\ Move(t, "return", "idle")
  /\ UNCHANGED <<time, times, next, before>>

Next ==
  \E t \in Thread :
    \/ ReadLock(t) \/ ReadUnlock(t)
    \/ (t \in Updater /\ Synchronize(t)) \/ ReadTime(t) \/ Wait(t) \/ Return(t)

Spec == Init /\ [][Next]_vars

-----------------------------------------------------------------------------
(* When synchronize returns, every section that was open when it was       *)
(* called has ended, whatever others have begun since.                     *)
GracePeriod == \A t \in Thread : pc[t] = "return" => before[t] = {}
=============================================================================
