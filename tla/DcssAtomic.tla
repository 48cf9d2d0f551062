------------------------------ MODULE DcssAtomic ------------------------------
(***************************************************************************)
(* Threads that call dcssPtr and readPtr and write addr1 words, and what   *)
(* they may expect: an operation that succeeds changes addr2 at a moment   *)
(* when addr1 holds old1.                                                  *)
(***************************************************************************)
EXTENDS Dcss, Sequences, SequencesExt

CONSTANTS
  Value,
  First,     (* the initial value of all words                             *)
  Scripts    (* bound: the i-th operation of t is in s[t][i], for an s in  *)
             (* Scripts                                                    *)

VARIABLES
  script,    (* the operations that t has still to call                    *)
  matched,   (* history: operations whose tag has been in place while      *)
             (* addr1 held old1                                            *)
  missed     (* history: those whose entries have differed since the call  *)

vars == <<dcssVars, script, matched, missed>>

(* What the words hold for their readers: a tag stands for the old value   *)
(* until the state is decided.                                             *)
Holds(words, descs) ==
  [a \in Addr |->
    LET w == words[a]
    IN  IF ~IsTag(w) THEN w[2]
        ELSE IF descs[w[2]].state = "SUCCEEDED" THEN descs[w[2]].new2 ELSE descs[w[2]].old2]
value == Holds(word, desc)

Swapping(c) == c # None /\ c.op = "dcss"
Entries(c) == {[addr |-> c.addr1, old |-> c.old1, new |-> c.old1],
               [addr |-> c.addr2, old |-> c.old2, new |-> c.new2]}

Note ==
  /\ matched' = {t \in Thread : /\ Swapping(op'[t])
                                /\ word'[op'[t].addr2] = Tag(t, desc'[t].seq)
                                /\ desc'[t].state = "UNDECIDED"
                                /\ t \in matched \/ word'[op'[t].addr1] = Plain(op'[t].old1)}
  /\ missed' = {t \in Thread : /\ Swapping(op'[t])
                               /\ t \in missed \/ \E e \in Entries(op'[t]) :
                                                       Holds(word', desc')[e.addr] # e.old}

Init ==
  /\ word = [a \in Addr |-> Plain(First)]
  /\ DcssInit
  /\ script \in Scripts
  /\ matched = {} /\ missed = {}

(* A call; a plain write is made at once. *)
Call(t, c) ==
  /\ dpc[t] = "idle" /\ script[t] # <<>> /\ c \in Head(script[t])
  /\ script' = [script EXCEPT ![t] = Tail(@)]
  /\ \/ c.op = "dcss" /\ CallDcss(t, c)
     \/ c.op = "read" /\ CallRead(t, c)
     \/ c.op = "write" /\ word' = [word EXCEPT ![c.addr] = Plain(c.new)]
                       /\ UNCHANGED <<desc, dpc, op, help, answer>>

Next ==
  /\ \E t \in Thread : \/ DcssStep(t) /\ UNCHANGED script
                       \/ \E c \in UNION ToSet(script[t]) : Call(t, c)
  /\ Note

Spec == Init /\ [][Next]_vars

-----------------------------------------------------------------------------
(* DCSS is atomic, although its comparison of addr1 and its write of addr2 *)
(* are two steps of possibly different threads: nobody can notice.         *)
Abstract ==
  INSTANCE AtomicWords WITH
    request <- [t \in Thread |->
                  IF op[t] = None THEN None
                  ELSE IF op[t].op = "read" THEN op[t]
                  ELSE [op |-> "swap", entries |-> Entries(op[t])]],
    reserved <- matched,
    done <- {t \in Thread : Swapping(op[t]) /\ desc[t].state = "SUCCEEDED"},
    answer <- [t \in Thread |->
                 IF answer[t] = None \/ answer[t][1] = "read" THEN answer[t]
                 ELSE <<"swap", answer[t][1] = "SUCCESS">>]
AtomicSpec == Abstract!Spec
=============================================================================
