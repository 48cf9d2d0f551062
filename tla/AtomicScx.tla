------------------------------ MODULE AtomicScx ------------------------------
(***************************************************************************)
(* What LLX and SCX promise (common/scx_provider.h).  An llx links a node  *)
(* and returns a snapshot of its fields, or says that the node has been    *)
(* finalized, or fails.  An scx on linked nodes takes effect at one point  *)
(* of its execution: it writes one field and finalizes nodes, if none of   *)
(* the nodes has changed since its thread linked it; otherwise it fails.   *)
(* It may fail for no reason, but what it returns is what it did.          *)
(***************************************************************************)
CONSTANTS Thread, Node, Field, Value, Init0, None

VARIABLES
  field,      (* field[n][f]: every value is written at most once          *)
  finalized,  (* nodes that will not change any more                       *)
  link,       (* link[t][n]: the fields of n when t linked it, or None     *)
  request,    (* request[t]: the scx that t executes, or None              *)
  done,       (* threads whose scx has taken effect and not returned yet   *)
  answer      (* answer[t]: what the last call of t returned               *)

vars == <<field, finalized, link, request, done, answer>>

NoLinks == [n \in Node |-> None]

Init ==
  /\ field = [n \in Node |-> [f \in Field |-> Init0]]
  /\ finalized = {}
  /\ link = [t \in Thread |-> NoLinks]
  /\ request = [t \in Thread |-> None]
  /\ done = {}
  /\ answer = [t \in Thread |-> "none"]

Llx(t, n) ==
  /\ request[t] = None
  /\ n \notin finalized
  /\ link' = [link EXCEPT ![t][n] = field[n]]
  /\ answer' = [answer EXCEPT ![t] = "linked"]
  /\ UNCHANGED <<field, finalized, request, done>>

LlxUnsuccessful(t, n, reason) ==
  /\ request[t] = None
  /\ reason = "FINALIZED" => n \in finalized
  /\ link' = [link EXCEPT ![t] = NoLinks]
  /\ answer' = [answer EXCEPT ![t] = reason]
  /\ UNCHANGED <<field, finalized, request, done>>

GiveUp(t) ==
  /\ request[t] = None
  /\ link' = [link EXCEPT ![t] = NoLinks]
  /\ UNCHANGED <<field, finalized, request, done, answer>>

(* The scx is on nodes that t has linked; the field is one of a node that  *)
(* it does not finalize.                                                   *)
Invoke(t) ==
  /\ request[t] = None
  /\ request' # request
  /\ \E nodes \in SUBSET {m \in Node : link[t][m] # None} :
       \E finalize \in SUBSET nodes, n \in nodes, f \in Field, new \in Value :
         /\ n \notin finalize
         /\ request' = [request EXCEPT ![t] =
              [nodes |-> nodes, finalize |-> finalize, node |-> n, field |-> f, new |-> new]]
  /\ UNCHANGED <<field, finalized, link, done, answer>>

Commit(t) ==
  LET r == request[t]
  IN  /\ r # None
      /\ t \notin done
      /\ \A m \in r.nodes : m \notin finalized /\ field[m] = link[t][m]
      /\ field' = [field EXCEPT ![r.node][r.field] = r.new]
      /\ finalized' = finalized \cup r.finalize
      /\ done' = done \cup {t}
      /\ UNCHANGED <<link, request, answer>>

Return(t) ==
  /\ request[t] # None
  /\ answer' = [answer EXCEPT ![t] = IF t \in done THEN "true" ELSE "false"]
  /\ request' = [request EXCEPT ![t] = None]
  /\ link' = [link EXCEPT ![t] = NoLinks]
  /\ done' = done \ {t}
  /\ UNCHANGED <<field, finalized>>

Next ==
  \E t \in Thread :
    \/ GiveUp(t)
    \/ Invoke(t)
    \/ Commit(t)
    \/ Return(t)
    \/ \E n \in Node : Llx(t, n) \/ \E reason \in {"FINALIZED", "FAILED"} : LlxUnsuccessful(t, n, reason)

Spec == Init /\ [][Next]_vars
=============================================================================
