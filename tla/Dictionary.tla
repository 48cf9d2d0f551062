------------------------------ MODULE Dictionary ------------------------------
(***************************************************************************)
(* What the search trees promise to their callers (ds_adapter: find,       *)
(* insertIfAbsent, insert, which replaces a value, and erase).  Each call  *)
(* takes effect at one moment between its invocation and its return.       *)
(*                                                                         *)
(* A call that changes nothing answers for a moment that may be over: seen *)
(* collects the values that its key has had since it was invoked.  Several *)
(* erases of different keys may take effect at once.                       *)
(***************************************************************************)
CONSTANTS Thread, Key, Value, NoValue

VARIABLES
  dict,    (* dict[k]: the value of k, or NoValue                          *)
  call,    (* call[t]: what t executes                                     *)
  seen,    (* seen[t]: the values of its key since then                    *)
  effect,  (* effect[t]: what t's call will return, if it has changed the  *)
           (* dictionary: at most one value                                *)
  answer   (* answer[t]: what the last call of t returned                  *)

vars == <<dict, call, seen, effect, answer>>

NoCall == [op |-> "none"]
Call == [op : {"find", "erase"}, key : Key]
        \cup [op : {"insert", "insertIfAbsent"}, key : Key, value : Value]

(* The calls in progress whose key had the value d[k] at some moment. *)
SeenAlso(d) ==
  [t \in Thread |-> IF call[t] = NoCall THEN {} ELSE seen[t] \cup {d[call[t].key]}]

Init ==
  /\ dict \in [Key -> Value \cup {NoValue}]
  /\ call = [t \in Thread |-> NoCall]
  /\ seen = [t \in Thread |-> {}]
  /\ effect = [t \in Thread |-> {}]
  /\ answer = [t \in Thread |-> NoValue]

Invoke(t, c) ==
  /\ call[t] = NoCall
  /\ call' = [call EXCEPT ![t] = c]
  /\ seen' = [seen EXCEPT ![t] = {dict[c.key]}]
  /\ UNCHANGED <<dict, effect, answer>>

Insert(t) ==
  LET c == call[t]
  IN  /\ c # NoCall /\ c.op \in {"insert", "insertIfAbsent"}
      /\ effect[t] = {}
      /\ c.op = "insertIfAbsent" => dict[c.key] = NoValue
      /\ dict' = [dict EXCEPT ![c.key] = c.value]
      /\ effect' = [effect EXCEPT ![t] = {dict[c.key]}]
      /\ seen' = SeenAlso(dict')
      /\ UNCHANGED <<call, answer>>

Erase(T) ==
  /\ T # {}
  /\ \A t \in T :
       /\ call[t] # NoCall /\ call[t].op = "erase"
       /\ effect[t] = {}
       /\ dict[call[t].key] # NoValue
  /\ \A t \in T : \A u \in T \ {t} : call[u].key # call[t].key
  /\ dict' = [k \in Key |-> IF \E t \in T : call[t].key = k THEN NoValue ELSE dict[k]]
  /\ effect' = [t \in Thread |-> IF t \in T THEN {dict[call[t].key]} ELSE effect[t]]
  /\ seen' = SeenAlso(dict')
  /\ UNCHANGED <<call, answer>>

(* What a call without effect may answer: a find what it has seen, an      *)
(* insertIfAbsent the value in its way, an erase that there was none.      *)
Unchanged(t) ==
  CASE call[t].op = "find"           -> seen[t]
    [] call[t].op = "insertIfAbsent" -> seen[t] \ {NoValue}
    [] call[t].op = "erase"          -> seen[t] \cap {NoValue}
    [] call[t].op = "insert"         -> {}

Return(t, v) ==
  /\ call[t] # NoCall
  /\ v \in IF effect[t] = {} THEN Unchanged(t) ELSE effect[t]
  /\ answer' = [answer EXCEPT ![t] = v]
  /\ call' = [call EXCEPT ![t] = NoCall]
  /\ seen' = [seen EXCEPT ![t] = {}]
  /\ effect' = [effect EXCEPT ![t] = {}]
  /\ UNCHANGED dict

Next ==
  \/ \E t \in Thread :
       \/ \E c \in Call : Invoke(t, c)
       \/ Insert(t)
       \/ \E v \in Value \cup {NoValue} : Return(t, v)
  \/ \E T \in SUBSET Thread : Erase(T)

Spec == Init /\ [][Next]_vars
=============================================================================
