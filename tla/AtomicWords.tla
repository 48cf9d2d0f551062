----------------------------- MODULE AtomicWords -----------------------------
(***************************************************************************)
(* What KCAS and DCSS promise: an operation on several words compares them *)
(* all and writes them all in one step, between its call and its return,   *)
(* or it has found at some moment in between that one of them differs.  A  *)
(* read returns what the word holds at such a moment.                      *)
(*                                                                         *)
(* Nobody may notice that the write comes some time after the comparison:  *)
(* an operation may reserve the words that it is going to write while its  *)
(* entries match, and until it has written them or given them up no other  *)
(* operation reads or writes them.                                         *)
(***************************************************************************)
EXTENDS Integers

CONSTANTS Thread, Addr, Value, None

VARIABLES
  value,    (* what the words hold                                         *)
  request,  (* the operation of t: the word that it reads, or the set of   *)
            (* its entries                                                 *)
  reserved, (* the threads that keep others from the words they will write *)
  done,     (* the threads whose operation has taken effect                *)
  missed,   (* the threads whose entries have differed since they called   *)
  answer    (* what the last operation of t returned                       *)

vars == <<value, request, reserved, done, missed, answer>>

Entry == [addr : Addr, old : Value, new : Value]
Reading(a) == [op |-> "read", addr |-> a]
Swapping(entries) == [op |-> "swap", entries |-> entries]

Matches(words, entries) == \A e \in entries : words[e.addr] = e.old
Changed(entries) == {e \in entries : e.new # e.old}
Written(words, entries) ==
  [a \in Addr |-> IF \E e \in Changed(entries) : e.addr = a
                  THEN (CHOOSE e \in Changed(entries) : e.addr = a).new ELSE words[a]]

Swaps(r) == r # None /\ r.op = "swap"

(* The words that operations other than that of t have reserved. *)
Taken(t) == UNION {{e.addr : e \in Changed(request[u].entries)} : u \in reserved \ {t}}

(* The operations that have been pending when their entries differed. *)
Missed ==
  {t \in Thread : Swaps(request'[t])
                  /\ (t \in missed \/ ~Matches(value', request'[t].entries))}

(* Words are reserved while the entries match, by one operation at a time, *)
(* and until it has taken effect or is given up.                           *)
Reserve ==
  /\ \A t \in reserved' : /\ Swaps(request'[t])
                          /\ t \notin done'
                          /\ t \in reserved \/ Matches(value', request'[t].entries)
  /\ \A t \in reserved' : \A u \in reserved' \ {t} :
       \A e \in Changed(request'[t].entries), f \in Changed(request'[u].entries) : e.addr # f.addr

Init ==
  /\ value \in [Addr -> Value]
  /\ request = [t \in Thread |-> None]
  /\ reserved = {} /\ done = {} /\ missed = {}
  /\ answer = [t \in Thread |-> None]

Invoke(t) ==
  /\ request[t] = None
  /\ \/ \E a \in Addr : request' = [request EXCEPT ![t] = Reading(a)]
     \/ /\ Swaps(request'[t]) /\ request'[t].entries \subseteq Entry
        /\ request' = [request EXCEPT ![t] = Swapping(request'[t].entries)]
  /\ missed' = Missed
  /\ UNCHANGED <<value, reserved, done, answer>>

(* A plain write, where callers use them, to a word that is not reserved;  *)
(* or nothing but a reservation.                                           *)
Write ==
  /\ UNCHANGED <<request, done, answer>>
  /\ \/ \E a \in Addr, v \in Value : value' = [value EXCEPT ![a] = v] /\ a \notin Taken(None)
     \/ UNCHANGED value
  /\ missed' = Missed
  /\ Reserve

Commit(t) ==
  /\ Swaps(request[t])
  /\ t \notin done
  /\ t \in reserved \/ Matches(value, request[t].entries)
  /\ \A e \in request[t].entries : e.addr \notin Taken(t)
  /\ value' = Written(value, request[t].entries)
  /\ done' = done \cup {t}
  /\ missed' = Missed
  /\ Reserve
  /\ UNCHANGED <<request, answer>>

Return(t) ==
  /\ Swaps(request[t])
  /\ answer' = [answer EXCEPT ![t] = <<"swap", t \in done>>]
  /\ t \in done \cup missed
  /\ request' = [request EXCEPT ![t] = None]
  /\ done' = done \ {t}
  /\ missed' = missed \ {t}
  /\ Reserve
  /\ UNCHANGED value

ReturnRead(t) ==
  /\ request[t] # None /\ request[t].op = "read"
  /\ request[t].addr \notin Taken(t)
  /\ answer' = [answer EXCEPT ![t] = <<"read", value[request[t].addr]>>]
  /\ request' = [request EXCEPT ![t] = None]
  /\ UNCHANGED <<value, reserved, done, missed>>

Next ==
  \/ \E t \in Thread : Invoke(t) \/ Commit(t) \/ Return(t) \/ ReturnRead(t)
  \/ Write

Spec == Init /\ [][Next]_vars
=============================================================================
