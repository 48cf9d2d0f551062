--------------------------------- MODULE Kcas ---------------------------------
(***************************************************************************)
(* KCASLockFree: compare-and-swap of several words, over descriptors that  *)
(* each thread uses again and again.  An operation installs its tag in its *)
(* words in the order of their addresses, each with an RDCSS that checks   *)
(* that the operation is still undecided; then its state is decided, and   *)
(* the words are released.  Whoever meets a tag helps first.               *)
(*                                                                         *)
(* One action per access to a word or to the mutable part of a descriptor. *)
(* The fields of a descriptor are written while its sequence number is     *)
(* even; whoever holds an earlier tag finds that out in any case, so a     *)
(* descriptor is made current again in one step.                           *)
(***************************************************************************)
EXTENDS Integers, Sequences, SequencesExt

CONSTANTS
  Thread,
  NumWords,   (* the words are 1 .. NumWords, in the order of addresses    *)
  Value,
  First,      (* the initial value of all words                            *)
  None,
  Scripts,    (* bound: the i-th operation of t is in s[t][i], for an s in *)
              (* Scripts                                                   *)
  MaxRdcss    (* bound on the RDCSSs of a thread                           *)

Addr == 1 .. NumWords

VARIABLES
  word,       (* the words: a plain value, or the tag of an operation      *)
  kcasDesc,   (* kcasDesc[t]: the descriptor of t's operations             *)
  rdcssDesc,  (* rdcssDesc[t]: that of its RDCSSs                          *)
  pc,
  op,         (* the operation of t                                        *)
  frames,     (* the invocations of help, the current one first            *)
  met,        (* the tag that t is about to help                           *)
  rdcss,      (* the RDCSS that t helps, with what it is to write          *)
  script,     (* the operations that t has still to call                   *)
  answer,     (* what the last operation of t returned                     *)
  value,      (* history: what the words hold for their readers            *)
  missed      (* history: the threads whose entries have differed since    *)
              (* they called                                               *)

vars == <<word, kcasDesc, rdcssDesc, pc, op, frames, met, rdcss, script, answer, value, missed>>
history == <<value, missed>>

-----------------------------------------------------------------------------
Plain(v) == <<"value", v>>
KcasTag(t, seq) == <<"kcas", t, seq>>
RdcssTag(t, seq) == <<"rdcss", t, seq>>
IsValue(w) == w[1] = "value"
IsKcas(w) == w[1] = "kcas"
IsRdcss(w) == w[1] = "rdcss"

(* The tag's sequence number is the descriptor's. *)
Current(tag) == kcasDesc[tag[2]].seq = tag[3]
Undecided(tag) == Current(tag) /\ kcasDesc[tag[2]].state = "UNDECIDED"

OwnRdcss(t) == RdcssTag(t, rdcssDesc[t].seq)
Top(t) == Head(frames[t])

NoRdcss == [tag |-> None]

Init ==
  /\ word = [a \in Addr |-> Plain(First)]
  /\ kcasDesc = [t \in Thread |-> [seq |-> 0, state |-> "UNDECIDED", entries |-> <<>>]]
  /\ rdcssDesc = [t \in Thread |-> [seq |-> 0, old1 |-> None, addr2 |-> None, old2 |-> None]]
  /\ pc = [t \in Thread |-> "idle"]
  /\ op = [t \in Thread |-> None]
  /\ frames = [t \in Thread |-> <<>>]
  /\ met = [t \in Thread |-> None]
  /\ rdcss = [t \in Thread |-> NoRdcss]
  /\ script \in Scripts
  /\ answer = [t \in Thread |-> None]
  /\ value = [a \in Addr |-> First]
  /\ missed = {}

GoTo(t, from, to) == pc[t] = from /\ pc' = [pc EXCEPT ![t] = to]

Entries(e) == ToSet(e)
Differ(words, entries) == \E e \in Entries(entries) : words[e.addr] # e.old

(* What the history notes of a step. *)
Note ==
  missed' = {t \in Thread : /\ op'[t] # None /\ op'[t].op = "kcas"
                            /\ t \in missed \/ Differ(value', op'[t].entries)}

-----------------------------------------------------------------------------
InOrder(entries) == SortSeq(entries, LAMBDA x, y : x.addr < y.addr)

(* start, add and the first lines of execute; or a read. *)
Invoke(t, c) ==
  LET seq == kcasDesc[t].seq + 1
      entries == InOrder(c.entries)
  IN  /\ pc[t] = "idle"
      /\ script[t] # <<>> /\ c \in Head(script[t])
      /\ script' = [script EXCEPT ![t] = Tail(@)]
      /\ op' = [op EXCEPT ![t] = c]
      /\ IF c.op = "read"
         THEN GoTo(t, "idle", "read") /\ UNCHANGED <<kcasDesc, frames>>
         ELSE /\ GoTo(t, "idle", "help")
              /\ kcasDesc' = [kcasDesc EXCEPT ![t] =
                   [seq |-> seq, state |-> "UNDECIDED", entries |-> entries]]
              /\ frames' = [frames EXCEPT ![t] =
                   <<[tag |-> KcasTag(t, seq), entries |-> entries, i |-> 1, newstate |-> "SUCCEEDED"]>>]
      /\ UNCHANGED <<word, rdcssDesc, met, rdcss, answer, value>>
      /\ Note

Return(t, from, ans) ==
  /\ GoTo(t, from, "idle")
  /\ answer' = [answer EXCEPT ![t] = ans]
  /\ op' = [op EXCEPT ![t] = None]
  /\ UNCHANGED <<word, kcasDesc, rdcssDesc, met, rdcss, script, value>>
  /\ Note

(* Where t goes on when it has helped another operation: the read starts   *)
(* over, or the entry is tried again, with a new RDCSS.                    *)
Resume(stack) == IF stack = <<>> THEN "read" ELSE "entry"

(* help returns. *)
LeaveHelp(t, from, succeeded) ==
  IF Len(frames[t]) = 1 /\ op[t].op = "kcas"
  THEN Return(t, from, <<"swap", succeeded>>) /\ frames' = [frames EXCEPT ![t] = <<>>]
  ELSE /\ GoTo(t, from, Resume(Tail(frames[t])))
       /\ frames' = [frames EXCEPT ![t] = Tail(@)]
       /\ UNCHANGED <<word, kcasDesc, rdcssDesc, op, met, rdcss, script, answer, history>>

-----------------------------------------------------------------------------
(* readPtr and rdcssRead *)

Meet(t, from, tag) ==
  /\ GoTo(t, from, IF IsRdcss(tag) THEN "rdcss.copy" ELSE "kcas.copy")
  /\ met' = [met EXCEPT ![t] = tag]
  /\ UNCHANGED <<word, kcasDesc, rdcssDesc, op, frames, rdcss, script, answer, history>>

ReadWord(t) ==
  LET r == word[op[t].addr]
  IN  /\ pc[t] = "read"
      /\ IF IsValue(r)
         THEN Return(t, "read", <<"read", r[2]>>) /\ UNCHANGED frames
         ELSE Meet(t, "read", r)

(* rdcssHelpOther: the copy of the descriptor is used if the descriptor    *)
(* still belongs to the tag.                                               *)
CopyRdcss(t) ==
  /\ GoTo(t, "rdcss.copy", "rdcss.check")
  /\ rdcss' = [rdcss EXCEPT ![t] = [rdcssDesc[met[t][2]] EXCEPT !.seq = met[t][3]]]
  /\ UNCHANGED <<word, kcasDesc, rdcssDesc, op, frames, met, script, answer, history>>

CheckRdcss(t) ==
  /\ pc[t] = "rdcss.check"
  /\ IF rdcssDesc[met[t][2]].seq = met[t][3]
     THEN GoTo(t, "rdcss.check", "rdcss.state") /\ UNCHANGED <<met, rdcss>>
     ELSE /\ GoTo(t, "rdcss.check", IF frames[t] = <<>> THEN "read" ELSE "rdcss.cas")
          /\ met' = [met EXCEPT ![t] = None]
          /\ rdcss' = [rdcss EXCEPT ![t] = NoRdcss]
  /\ UNCHANGED <<word, kcasDesc, rdcssDesc, op, frames, script, answer, history>>

(* helpOther *)
CopyKcas(t) ==
  /\ GoTo(t, "kcas.copy", "kcas.check")
  /\ frames' = [frames EXCEPT ![t] =
       <<[tag |-> met[t], entries |-> kcasDesc[met[t][2]].entries, i |-> 2, newstate |-> "SUCCEEDED"]>> \o @]
  /\ UNCHANGED <<word, kcasDesc, rdcssDesc, op, met, rdcss, script, answer, history>>

CheckKcas(t) ==
  /\ pc[t] = "kcas.check"
  /\ met' = [met EXCEPT ![t] = None]
  /\ IF Current(Top(t).tag)
     THEN GoTo(t, "kcas.check", "help") /\ UNCHANGED frames
     ELSE /\ GoTo(t, "kcas.check", Resume(Tail(frames[t])))
          /\ frames' = [frames EXCEPT ![t] = Tail(@)]
  /\ UNCHANGED <<word, kcasDesc, rdcssDesc, op, rdcss, script, answer, history>>

-----------------------------------------------------------------------------
(* help, phase 1 *)

HelpState(t) ==
  LET tag == Top(t).tag
  IN  /\ pc[t] = "help"
      /\ IF ~Current(tag)
         THEN LeaveHelp(t, "help", FALSE)
         ELSE /\ GoTo(t, "help", IF Undecided(tag) THEN "entry" ELSE "phase2")
              /\ UNCHANGED <<word, kcasDesc, rdcssDesc, op, frames, met, rdcss, script, answer, history>>

(* The next entry, with a new RDCSS descriptor. *)
NewRdcss(t) ==
  LET frame == Top(t)
      entry == frame.entries[frame.i]
  IN  /\ GoTo(t, "entry", "rdcss.cas")
      /\ frame.i <= Len(frame.entries)
      /\ rdcssDesc[t].seq < MaxRdcss
      /\ rdcssDesc' = [rdcssDesc EXCEPT ![t] =
           [seq |-> @.seq + 1, old1 |-> frame.tag, addr2 |-> entry.addr, old2 |-> entry.old]]
      /\ UNCHANGED <<word, kcasDesc, op, frames, met, rdcss, script, answer, history>>

(* What help does with what rdcss has returned. *)
NextEntry(t, from) ==
  /\ GoTo(t, from, "entry")
  /\ frames' = [frames EXCEPT ![t][1].i = @ + 1]

(* Mutant: the tag of any operation is taken for that of this one. *)
RdcssCasAnyTag(t) ==
  LET d == rdcssDesc[t]
      r == word[d.addr2]
  IN  /\ pc[t] = "rdcss.cas"
      /\ UNCHANGED <<kcasDesc, rdcssDesc, op, script, answer, history>>
      /\ \/ /\ r = Plain(d.old2)
            /\ GoTo(t, "rdcss.cas", "rdcss.state")
            /\ word' = [word EXCEPT ![d.addr2] = OwnRdcss(t)]
            /\ rdcss' = [rdcss EXCEPT ![t] = d]
            /\ met' = [met EXCEPT ![t] = OwnRdcss(t)]
            /\ UNCHANGED frames
         \/ /\ IsRdcss(r)
            /\ Meet(t, "rdcss.cas", r)
         \/ /\ IsKcas(r)
            /\ NextEntry(t, "rdcss.cas")
            /\ UNCHANGED <<word, met, rdcss>>
         \/ /\ IsValue(r) /\ r # Plain(d.old2)
            /\ GoTo(t, "rdcss.cas", "decide")
            /\ frames' = [frames EXCEPT ![t][1].newstate = "FAILED"]
            /\ UNCHANGED <<word, met, rdcss>>

(* The CAS of rdcss. *)
RdcssCas(t) ==
  LET d == rdcssDesc[t]
      r == word[d.addr2]
  IN  /\ pc[t] = "rdcss.cas"
      /\ UNCHANGED <<kcasDesc, rdcssDesc, op, script, answer, history>>
      /\ \/ /\ r = Plain(d.old2)
            /\ GoTo(t, "rdcss.cas", "rdcss.state")
            /\ word' = [word EXCEPT ![d.addr2] = OwnRdcss(t)]
            /\ rdcss' = [rdcss EXCEPT ![t] = d]
            /\ met' = [met EXCEPT ![t] = OwnRdcss(t)]
            /\ UNCHANGED frames
         \/ /\ IsRdcss(r) \/ (IsKcas(r) /\ r # Top(t).tag)
            /\ Meet(t, "rdcss.cas", r)
         \/ /\ r = Top(t).tag
            /\ NextEntry(t, "rdcss.cas")
            /\ UNCHANGED <<word, met, rdcss>>
         \/ /\ IsValue(r) /\ r # Plain(d.old2)
            /\ GoTo(t, "rdcss.cas", "decide")
            /\ frames' = [frames EXCEPT ![t][1].newstate = "FAILED"]
            /\ UNCHANGED <<word, met, rdcss>>

(* Mutant: the tag is installed without a look at the state. *)
RdcssStateNot(t) ==
  /\ GoTo(t, "rdcss.state", "rdcss.write")
  /\ rdcss' = [rdcss EXCEPT ![t] = [addr2 |-> @.addr2, new |-> @.old1]]
  /\ UNCHANGED <<word, kcasDesc, rdcssDesc, op, frames, met, script, answer, history>>

(* rdcssHelp reads the state of the operation... *)
RdcssState(t) ==
  /\ GoTo(t, "rdcss.state", "rdcss.write")
  /\ rdcss' = [rdcss EXCEPT ![t] =
       [addr2 |-> @.addr2, new |-> IF Undecided(@.old1) THEN @.old1 ELSE Plain(@.old2)]]
  /\ UNCHANGED <<word, kcasDesc, rdcssDesc, op, frames, met, script, answer, history>>

(* ...and replaces the tag of the RDCSS by that of the operation, or by    *)
(* the old value.                                                          *)
RdcssWrite(t) ==
  LET r == rdcss[t]
  IN  /\ pc[t] = "rdcss.write"
      /\ word' = IF word[r.addr2] = met[t] THEN [word EXCEPT ![r.addr2] = r.new] ELSE word
      /\ met' = [met EXCEPT ![t] = None]
      /\ rdcss' = [rdcss EXCEPT ![t] = NoRdcss]
      /\ \/ met[t] = OwnRdcss(t) /\ NextEntry(t, "rdcss.write")
         \/ /\ met[t] # OwnRdcss(t)
            /\ GoTo(t, "rdcss.write", IF frames[t] = <<>> THEN "read" ELSE "rdcss.cas")
            /\ UNCHANGED frames
      /\ UNCHANGED <<kcasDesc, rdcssDesc, op, script, answer, history>>

AllEntries(t) ==
  /\ GoTo(t, "entry", "decide")
  /\ Top(t).i > Len(Top(t).entries)
  /\ UNCHANGED <<word, kcasDesc, rdcssDesc, op, frames, met, rdcss, script, answer, history>>

(* SEQBITS_CAS_FIELD *)
Decide(t) ==
  LET tag == Top(t).tag
  IN  /\ GoTo(t, "decide", "phase2")
      /\ IF Undecided(tag)
         THEN /\ kcasDesc' = [kcasDesc EXCEPT ![tag[2]].state = Top(t).newstate]
              /\ value' = IF Top(t).newstate = "SUCCEEDED"
                          THEN [a \in Addr |->
                                  IF \E e \in Entries(Top(t).entries) : e.addr = a
                                  THEN (CHOOSE e \in Entries(Top(t).entries) : e.addr = a).new
                                  ELSE value[a]]
                          ELSE value
         ELSE UNCHANGED <<kcasDesc, value>>
      /\ UNCHANGED <<word, rdcssDesc, op, frames, met, rdcss, script, answer>>
      /\ Note

-----------------------------------------------------------------------------
(* help, phase 2 *)

ReadOutcome(t) ==
  LET tag == Top(t).tag
  IN  /\ pc[t] = "phase2"
      /\ IF ~Current(tag)
         THEN LeaveHelp(t, "phase2", FALSE)
         ELSE /\ GoTo(t, "phase2", "release")
              /\ frames' = [frames EXCEPT ![t][1].i = 1, ![t][1].newstate = kcasDesc[tag[2]].state]
              /\ UNCHANGED <<word, kcasDesc, rdcssDesc, op, met, rdcss, script, answer, history>>

Release(t) ==
  LET frame == Top(t)
      entry == frame.entries[frame.i]
  IN  /\ GoTo(t, "release", "release")
      /\ frame.i <= Len(frame.entries)
      /\ word' = IF word[entry.addr] = frame.tag
                 THEN [word EXCEPT ![entry.addr] =
                         Plain(IF frame.newstate = "SUCCEEDED" THEN entry.new ELSE entry.old)]
                 ELSE word
      /\ frames' = [frames EXCEPT ![t][1].i = @ + 1]
      /\ UNCHANGED <<kcasDesc, rdcssDesc, op, met, rdcss, script, answer, history>>

HelpDone(t) ==
  /\ pc[t] = "release"
  /\ Top(t).i > Len(Top(t).entries)
  /\ LeaveHelp(t, "release", Top(t).newstate = "SUCCEEDED")

-----------------------------------------------------------------------------
Step(t) ==
  \/ ReadWord(t)
  \/ CopyRdcss(t) \/ CheckRdcss(t) \/ CopyKcas(t) \/ CheckKcas(t)
  \/ HelpState(t) \/ NewRdcss(t) \/ RdcssCas(t) \/ RdcssState(t) \/ RdcssWrite(t) \/ AllEntries(t)
  \/ Decide(t) \/ ReadOutcome(t) \/ Release(t) \/ HelpDone(t)

Next == \E t \in Thread : Step(t) \/ \E c \in UNION ToSet(script[t]) : Invoke(t, c)

Spec == Init /\ [][Next]_vars

(* Every thread runs on. *)
FairSpec == Spec /\ \A t \in Thread : WF_vars(Step(t))

-----------------------------------------------------------------------------
(* A word holds one value for its readers, whoever owns it at the moment:  *)
(* that of a tag is the old value until its operation is decided.          *)
EntryOf(tag, a) == CHOOSE e \in Entries(kcasDesc[tag[2]].entries) : e.addr = a

WordsHold ==
  \A a \in Addr :
    LET w == word[a]
    IN  /\ IsValue(w) => w[2] = value[a]
        /\ IsRdcss(w) => rdcssDesc[w[2]].old2 = value[a]
        /\ IsKcas(w) /\ Current(w) =>
             value[a] = IF kcasDesc[w[2]].state = "SUCCEEDED" THEN EntryOf(w, a).new ELSE EntryOf(w, a).old

(* KCAS is atomic: an operation takes effect when its state is decided, or *)
(* it has failed because a word differed.                                  *)
Abstract ==
  INSTANCE AtomicWords WITH
    request <- [t \in Thread |->
                  IF op[t] = None THEN None
                  ELSE IF op[t].op = "read" THEN [op |-> "read", addr |-> op[t].addr]
                  ELSE [op |-> "swap", entries |-> Entries(op[t].entries)]],
    reserved <- {},
    done <- {t \in Thread : /\ op[t] # None /\ op[t].op = "kcas"
                            /\ kcasDesc[t].state = "SUCCEEDED"}
AtomicSpec == Abstract!Spec

(* execute sorts the entries to guarantee progress: operations end.        *)
SortedProgress == []<>(\A t \in Thread : pc[t] = "idle")
=============================================================================
