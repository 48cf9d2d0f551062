--------------------------------- MODULE Dcss ---------------------------------
(***************************************************************************)
(* dcssProvider and dcsspProvider: "if addr1 holds old1, change addr2 from *)
(* old2 to new2", over one descriptor per thread that is used again and    *)
(* again.  The owner puts its tag into addr2; then it, or whoever meets    *)
(* the tag, compares addr1, decides the state and takes the tag away.      *)
(* addr1 is a word that is never the addr2 of an operation.                *)
(*                                                                         *)
(* One action per access to a word or to the mutable part of a descriptor. *)
(* The fields of a descriptor are written while its sequence number is     *)
(* even, when nobody can use it: a new operation gets its descriptor in    *)
(* one step.  DCSSP differs by a payload that its callers can look at.     *)
(***************************************************************************)
EXTENDS Integers

CONSTANTS Thread, Addr, None

VARIABLES
  word,    (* the words: a plain value, or the tag of an operation         *)
  desc,    (* desc[t]: t's descriptor                                      *)
  dpc,
  op,      (* the operation of t                                           *)
  help,    (* the operation that t carries out or helps: its tag, a copy   *)
           (* of its descriptor, and what t makes of it                    *)
  answer   (* what the last operation of t returned                        *)

dcssVars == <<word, desc, dpc, op, help, answer>>

Plain(v) == <<"value", v>>
Tag(t, seq) == <<"tag", t, seq>>
IsTag(w) == w[1] = "tag"
OwnTag(t) == Tag(t, desc[t].seq)

NoHelp == [tag |-> None]
NoPayload == <<{}, {}>>
NoOperation ==
  [seq |-> 0, state |-> "UNDECIDED", addr1 |-> None, old1 |-> None,
   addr2 |-> None, old2 |-> None, new2 |-> None, payload |-> NoPayload]

DcssInit ==
  /\ desc = [t \in Thread |-> NoOperation]
  /\ dpc = [t \in Thread |-> "idle"]
  /\ op = [t \in Thread |-> None]
  /\ help = [t \in Thread |-> NoHelp]
  /\ answer = [t \in Thread |-> None]

GoTo(t, from, to) == dpc[t] = from /\ dpc' = [dpc EXCEPT ![t] = to]

Help(tag) == [tag |-> tag, copy |-> None, state |-> None, val1 |-> None]

-----------------------------------------------------------------------------
(* The calls: dcssPtr, readPtr, and helpProcess for the operation that     *)
(* another thread has at this moment.                                      *)
Dcssp(addr1, old1, addr2, old2, new2, payload) ==
  [op |-> "dcss", addr1 |-> addr1, old1 |-> old1, addr2 |-> addr2, old2 |-> old2,
   new2 |-> new2, payload |-> payload]
ReadOf(addr) == [op |-> "read", addr |-> addr]
HelpProcess(u) == [op |-> "help", thread |-> u]

CallDcss(t, c) ==
  /\ GoTo(t, "idle", "cas")
  /\ op' = [op EXCEPT ![t] = c]
  /\ desc' = [desc EXCEPT ![t] =
       [seq |-> @.seq + 1, state |-> "UNDECIDED", addr1 |-> c.addr1, old1 |-> c.old1,
        addr2 |-> c.addr2, old2 |-> c.old2, new2 |-> c.new2, payload |-> c.payload]]
  /\ UNCHANGED <<word, help, answer>>

CallRead(t, c) ==
  /\ GoTo(t, "idle", "read")
  /\ op' = [op EXCEPT ![t] = c]
  /\ UNCHANGED <<word, desc, help, answer>>

CallHelp(t, c) ==
  /\ GoTo(t, "idle", "copy")
  /\ op' = [op EXCEPT ![t] = c]
  /\ help' = [help EXCEPT ![t] = Help(OwnTag(c.thread))]
  /\ UNCHANGED <<word, desc, answer>>

DcssReturn(t, from, ans) ==
  /\ GoTo(t, from, "idle")
  /\ op' = [op EXCEPT ![t] = None]
  /\ help' = [help EXCEPT ![t] = NoHelp]
  /\ answer' = [answer EXCEPT ![t] = ans]

(* After helping, t tries again what it was doing. *)
Resume(t, from) ==
  \/ op[t].op = "help" /\ DcssReturn(t, from, None)
  \/ /\ op[t].op # "help"
     /\ GoTo(t, from, IF op[t].op = "dcss" THEN "cas" ELSE "read")
     /\ help' = [help EXCEPT ![t] = NoHelp]
     /\ UNCHANGED <<op, answer>>

-----------------------------------------------------------------------------
Meet(t, from, tag) ==
  /\ GoTo(t, from, "copy")
  /\ help' = [help EXCEPT ![t] = Help(tag)]
  /\ UNCHANGED <<word, desc, op, answer>>

DcssRead(t) ==
  LET r == word[op[t].addr]
  IN  /\ dpc[t] = "read"
      /\ IF IsTag(r) THEN Meet(t, "read", r)
         ELSE DcssReturn(t, "read", <<"read", r[2]>>) /\ UNCHANGED <<word, desc>>

Cas(t) ==
  LET d == desc[t]
      r == word[d.addr2]
  IN  /\ dpc[t] = "cas"
      /\ \/ IsTag(r) /\ Meet(t, "cas", r)
         \/ /\ r = Plain(d.old2)
            /\ GoTo(t, "cas", "compare")
            /\ word' = [word EXCEPT ![d.addr2] = OwnTag(t)]
            /\ help' = [help EXCEPT ![t] = [Help(OwnTag(t)) EXCEPT !.copy = d]]
            /\ UNCHANGED <<desc, op, answer>>
         \/ /\ ~IsTag(r) /\ r # Plain(d.old2)
            /\ DcssReturn(t, "cas", <<"FAILED_ADDR2", r[2]>>)
            /\ UNCHANGED <<word, desc>>

(* dcssHelpOther: a copy, which is used if the tag is current after it. *)
Copy(t) ==
  /\ GoTo(t, "copy", "check")
  /\ help' = [help EXCEPT ![t].copy = desc[help[t].tag[2]]]
  /\ UNCHANGED <<word, desc, op, answer>>

(* Mutant: the copy is used in any case. *)
CheckNot(t) ==
  /\ GoTo(t, "check", "compare")
  /\ UNCHANGED <<word, desc, op, help, answer>>

Check(t) ==
  /\ dpc[t] = "check"
  /\ UNCHANGED <<word, desc>>
  /\ IF desc[help[t].tag[2]].seq = help[t].tag[3]
     THEN GoTo(t, "check", "compare") /\ UNCHANGED <<op, help, answer>>
     ELSE Resume(t, "check")

-----------------------------------------------------------------------------
(* dcssHelp *)

Compare(t) ==
  LET d == help[t].copy
      val1 == word[d.addr1]
  IN  /\ GoTo(t, "compare", "look")
      /\ help' = [help EXCEPT ![t].val1 = val1[2],
                              ![t].state = IF val1 = Plain(d.old1) THEN "SUCCEEDED" ELSE "FAILED"]
      /\ UNCHANGED <<word, desc, op, answer>>

(* The compare-and-swap of the state: first a look at the sequence number. *)
LookAtSeq(t) ==
  /\ dpc[t] = "look"
  /\ UNCHANGED <<word, desc>>
  /\ IF desc[help[t].tag[2]].seq = help[t].copy.seq
     THEN GoTo(t, "look", "decide") /\ UNCHANGED <<op, help, answer>>
     ELSE Resume(t, "look")

(* Then the swap.  When it fails because the state has been decided, that  *)
(* state counts, even if it is already that of a later operation.          *)
Decide(t) ==
  LET h == help[t]
      u == h.tag[2]
  IN  /\ dpc[t] = "decide"
      /\ UNCHANGED word
      /\ \/ /\ desc[u].seq = h.copy.seq /\ desc[u].state = "UNDECIDED"
            /\ GoTo(t, "decide", "finish")
            /\ desc' = [desc EXCEPT ![u].state = h.state]
            /\ UNCHANGED <<op, help, answer>>
         \/ /\ desc[u].state # "UNDECIDED"
            /\ GoTo(t, "decide", "finish")
            /\ help' = [help EXCEPT ![t].state = desc[u].state]
            /\ UNCHANGED <<desc, op, answer>>
         \/ /\ desc[u].seq # h.copy.seq /\ desc[u].state = "UNDECIDED"
            /\ Resume(t, "decide")
            /\ UNCHANGED desc

Finish(t) ==
  LET h == help[t]
      d == h.copy
      succeeded == h.state = "SUCCEEDED"
  IN  /\ dpc[t] = "finish"
      /\ word' = IF word[d.addr2] = h.tag
                 THEN [word EXCEPT ![d.addr2] = Plain(IF succeeded THEN d.new2 ELSE d.old2)]
                 ELSE word
      /\ UNCHANGED desc
      /\ IF h.tag = OwnTag(t)
         THEN DcssReturn(t, "finish", IF succeeded THEN <<"SUCCESS", 0>> ELSE <<"FAILED_ADDR1", h.val1>>)
         ELSE Resume(t, "finish")

-----------------------------------------------------------------------------
DcssStep(t) ==
  \/ DcssRead(t) \/ Cas(t) \/ Copy(t) \/ Check(t)
  \/ Compare(t) \/ LookAtSeq(t) \/ Decide(t) \/ Finish(t)
=============================================================================
