------------------------------ MODULE DcssProofs ------------------------------
(***************************************************************************)
(* DCSS implements AtomicWords, for any number of threads and words, any   *)
(* values and any operations, if no word is compared by one operation and  *)
(* changed by another.                                                     *)
(*                                                                         *)
(* The argument.  The tag of an operation is in place until it is decided  *)
(* (Stays), and a helper that may still decide it has compared addr1 while *)
(* it was in place (View).  So an operation that is to succeed has matched *)
(* since its tag was there, and nobody could use addr2 in the meantime;    *)
(* one that is to fail has missed.  What a late helper does with a         *)
(* descriptor that has been used again changes nothing, because its tag is *)
(* in no word.                                                             *)
(***************************************************************************)
EXTENDS DcssAtomic, TLAPS

(* The operations that the threads call, and the words that these change.  *)
Called == UNION {UNION ToSet(s[t]) : s \in Scripts, t \in Thread}
Target == {c.addr2 : c \in {d \in Called : d.op = "dcss"}}

IsDcss(c) ==
  /\ c = Dcssp(c.addr1, c.old1, c.addr2, c.old2, c.new2, c.payload)
  /\ c.addr1 \in Addr \ Target /\ c.addr2 \in Addr
  /\ c.old1 \in Value /\ c.old2 \in Value /\ c.new2 \in Value
IsRead(c) == c = ReadOf(c.addr) /\ c.addr \in Addr
IsWrite(c) ==
  /\ c = [op |-> "write", addr |-> c.addr, new |-> c.new]
  /\ c.addr \in Addr \ Target /\ c.new \in Value

(* How DCSS is used: addr1 words are not addr2 words, and only they are    *)
(* written without a DCSS.  None is something else than what it stands in  *)
(* for.                                                                    *)
Usage ==
  /\ First \in Value
  /\ Scripts \subseteq [Thread -> Seq(SUBSET Called)]
  /\ \A c \in Called : c # None /\ (IsDcss(c) \/ IsRead(c) \/ IsWrite(c))
  /\ \A k, v : None # <<k, v>>
  /\ \A entries : None # [op |-> "swap", entries |-> entries]

-----------------------------------------------------------------------------
Stage == {"idle", "read", "cas", "copy", "check", "compare", "look", "decide", "finish"}
Decided == {"SUCCEEDED", "FAILED"}
State == Decided \cup {"UNDECIDED"}

Tags == {Tag(u, n) : u \in Thread, n \in Nat \ {0}}
Words == {Plain(v) : v \in Value} \cup Tags
Operation ==
  [seq : Nat \ {0}, state : State, addr1 : Addr \ Target, old1 : Value, addr2 : Target,
   old2 : Value, new2 : Value, payload : {c.payload : c \in {d \in Called : d.op = "dcss"}}]
HelpRecord ==
  [tag : Tags, copy : Operation \cup {None}, state : State \cup {None}, val1 : Value \cup {None}]
Answer == {"read", "SUCCESS", "FAILED_ADDR1", "FAILED_ADDR2"} \X (Value \cup {0, None})

TypeOK ==
  /\ word \in [Addr -> Words]
  /\ desc \in [Thread -> Operation \cup {NoOperation}]
  /\ dpc \in [Thread -> Stage]
  /\ op \in [Thread -> Called \cup {None}]
  /\ help \in [Thread -> HelpRecord \cup {NoHelp}]
  /\ answer \in [Thread -> Answer \cup {None}]
  /\ script \in [Thread -> Seq(SUBSET Called)]
  /\ matched \in SUBSET Thread
  /\ missed \in SUBSET Thread

(* t carries out its own operation, or helps one that it has met.          *)
Helping(t) == dpc[t] \in {"copy", "check", "compare", "look", "decide", "finish"}
Pending(t) == Swapping(op[t])

(* The tag of t's operation has been put into its word; the operation has  *)
(* returned.                                                               *)
Placed(t) == Pending(t) /\ Helping(t) /\ help[t].tag = OwnTag(t)
Over(t) == ~Pending(t) /\ desc[t].state \in Decided

SameOperation(d, e) ==
  /\ d.seq = e.seq /\ d.addr1 = e.addr1 /\ d.old1 = e.old1
  /\ d.addr2 = e.addr2 /\ d.old2 = e.old2 /\ d.new2 = e.new2

(* The descriptor and the stage of a thread fit its operation.             *)
Phases ==
  \A t \in Thread :
    /\ dpc[t] = "idle" <=> op[t] = None
    /\ dpc[t] = "read" => op[t].op = "read"
    /\ dpc[t] = "cas" => op[t].op = "dcss"
    /\ op[t] # None => op[t].op \in {"dcss", "read"}
    /\ Helping(t) => help[t] \in HelpRecord
    /\ Helping(t) /\ help[t].tag = OwnTag(t) => Pending(t) /\ dpc[t] \notin {"copy", "check"}
    /\ Pending(t) => /\ desc[t] \in Operation
                     /\ desc[t].addr1 = op[t].addr1 /\ desc[t].old1 = op[t].old1
                     /\ desc[t].addr2 = op[t].addr2 /\ desc[t].old2 = op[t].old2
                     /\ desc[t].new2 = op[t].new2
    /\ Pending(t) /\ ~Placed(t) => desc[t].state = "UNDECIDED"

(* A tag in a word is that of an operation in progress on that word.       *)
InPlace ==
  \A a \in Addr : IsTag(word[a]) =>
    \E u \in Thread : word[a] = OwnTag(u) /\ Placed(u) /\ desc[u].addr2 = a

(* Nobody takes it away before the operation is decided.                   *)
Stays == \A u \in Thread : Placed(u) /\ desc[u].state = "UNDECIDED" => word[desc[u].addr2] = OwnTag(u)

(* What t knows of the operation that it helps, if that is still the last  *)
(* one of its thread: it has been placed; the copy is its descriptor; what *)
(* t is to make of it is right, and what it has made of it is what counts. *)
View(t) ==
  LET h == help[t]
      u == h.tag[2]
      current == h.tag[3] = desc[u].seq
  IN  /\ h.tag[3] <= desc[u].seq
      /\ current => Placed(u) \/ Over(u)
      /\ dpc[t] # "copy" =>
           /\ h.copy \in Operation /\ h.tag[3] <= h.copy.seq /\ h.copy.seq <= desc[u].seq
           /\ h.copy.seq = desc[u].seq => SameOperation(h.copy, desc[u])
      /\ dpc[t] \notin {"copy", "check"} => h.copy.seq = h.tag[3]
      /\ dpc[t] \in {"look", "decide", "finish"} => h.state \in Decided
      /\ dpc[t] \in {"look", "decide"} /\ current /\ desc[u].state = "UNDECIDED" =>
           IF h.state = "SUCCEEDED" THEN u \in matched ELSE u \in missed
      /\ dpc[t] = "finish" /\ current => desc[u].state = h.state

Views == \A t \in Thread : Helping(t) => View(t)

(* The operations that have matched are in place and not decided; one that *)
(* matches is among them, one that differs among those that have missed.   *)
Matched ==
  \A u \in Thread :
    /\ u \in matched => Placed(u) /\ desc[u].state = "UNDECIDED"
    /\ Placed(u) /\ desc[u].state = "UNDECIDED" /\ word[desc[u].addr1] = Plain(desc[u].old1)
         => u \in matched

Missed ==
  \A u \in Thread :
    /\ u \in missed => Pending(u)
    /\ Pending(u) /\ (value[desc[u].addr1] # desc[u].old1 \/ value[desc[u].addr2] # desc[u].old2)
         => u \in missed
    /\ Pending(u) /\ desc[u].state = "FAILED" => u \in missed

DcssInv == TypeOK /\ Phases /\ InPlace /\ Stays /\ Views /\ Matched /\ Missed

-----------------------------------------------------------------------------
(* A word is a value or a tag, and says which.                             *)
LEMMA WordForm ==
  /\ \A u, n : IsTag(Tag(u, n)) /\ Tag(u, n)[2] = u /\ Tag(u, n)[3] = n
  /\ \A v : ~IsTag(Plain(v)) /\ Plain(v)[2] = v
  /\ \A w \in Tags : w[2] \in Thread /\ w[3] \in Nat \ {0} /\ w = Tag(w[2], w[3])
  /\ \A w \in Words : (IsTag(w) <=> w \in Tags)
  /\ \A w \in Words : (~IsTag(w) => w[2] \in Value /\ w = Plain(w[2]))
BY DEF Tag, Plain, IsTag, Tags, Words

(* Two operations have different tags.                                     *)
LEMMA OwnTags ==
  ASSUME NEW t, NEW u, OwnTag(t) = OwnTag(u)
  PROVE  t = u
BY DEF OwnTag, Tag

(* No tag gets into a word that operations only compare.                   *)
LEMMA PlainWords ==
  ASSUME TypeOK, Phases, InPlace, NEW a \in Addr \ Target
  PROVE  word[a][2] \in Value /\ word[a] = Plain(word[a][2])
<1>1. ASSUME IsTag(word[a]) PROVE FALSE
  <2>1. PICK u \in Thread : Placed(u) /\ desc[u].addr2 = a
    BY <1>1 DEF InPlace
  <2>2. desc[u] \in Operation
    BY <2>1 DEF Placed, Phases
  <2>. QED  BY <2>1, <2>2 DEF Operation
<1>. QED  BY <1>1, WordForm DEF TypeOK

(* What is called is one of the three operations, and only a DCSS has two  *)
(* addresses.                                                              *)
LEMMA CallForm ==
  ASSUME Usage, NEW c \in Called
  PROVE  /\ c # None
         /\ c.op = "dcss" => IsDcss(c) /\ c.addr2 \in Target
         /\ c.op = "read" => IsRead(c)
         /\ c.op = "write" => IsWrite(c)
         /\ c.op \in {"dcss", "read", "write"}
<1>1. c # None /\ (IsDcss(c) \/ IsRead(c) \/ IsWrite(c))
  BY DEF Usage
<1>2. IsDcss(c) => c.op = "dcss"
  BY DEF IsDcss, Dcssp
<1>3. IsRead(c) => c.op = "read"
  BY DEF IsRead, ReadOf
<1>4. IsWrite(c) => c.op = "write"
  BY DEF IsWrite
<1>. QED  BY <1>1, <1>2, <1>3, <1>4 DEF Target

(* The stages in which t is about to do something with its help record     *)
(* are those in which it has one.                                          *)
LEMMA ResumeFacts ==
  ASSUME TypeOK, Phases, NEW t \in Thread, NEW from \in Stage \ {"idle"}, Resume(t, from)
  PROVE  /\ op[t].op # "help" /\ UNCHANGED <<op, answer>>
         /\ dpc[t] = from
         /\ dpc' = [dpc EXCEPT ![t] = IF op[t].op = "dcss" THEN "cas" ELSE "read"]
         /\ help' = [help EXCEPT ![t] = NoHelp]
<1>1. op[t] # None => op[t].op # "help"
  BY DEF Phases
<1>2. dpc[t] = from
  BY DEF Resume, GoTo, DcssReturn
<1>3. op[t] # None
  BY <1>2 DEF Phases
<1>. QED  BY <1>1, <1>2, <1>3 DEF Resume, GoTo

(* Every step is well typed.                                               *)
LEMMA TypeStep ==
  ASSUME Usage, TypeOK, Phases, InPlace, Views, [Next]_vars
  PROVE  TypeOK'
<1>1. CASE UNCHANGED vars
  BY <1>1 DEF vars, dcssVars, TypeOK
<1>2. CASE Next
  <2>1. matched' \in SUBSET Thread /\ missed' \in SUBSET Thread
    BY <1>2 DEF Next, Note
  <2>2. ASSUME NEW t \in Thread, DcssStep(t), UNCHANGED script
        PROVE  /\ word' \in [Addr -> Words]
               /\ desc' \in [Thread -> Operation \cup {NoOperation}]
               /\ dpc' \in [Thread -> Stage]
               /\ op' \in [Thread -> Called \cup {None}]
               /\ help' \in [Thread -> HelpRecord \cup {NoHelp}]
               /\ answer' \in [Thread -> Answer \cup {None}]
    <3>1. ASSUME NEW from, NEW ans \in Answer, DcssReturn(t, from, ans)
          PROVE  /\ dpc' \in [Thread -> Stage]
                 /\ op' \in [Thread -> Called \cup {None}]
                 /\ help' \in [Thread -> HelpRecord \cup {NoHelp}]
                 /\ answer' \in [Thread -> Answer \cup {None}]
      BY <3>1 DEF TypeOK, DcssReturn, GoTo, Stage
    <3>2. ASSUME NEW from \in Stage \ {"idle"}, Resume(t, from)
          PROVE  /\ dpc' \in [Thread -> Stage]
                 /\ op' \in [Thread -> Called \cup {None}]
                 /\ help' \in [Thread -> HelpRecord \cup {NoHelp}]
                 /\ answer' \in [Thread -> Answer \cup {None}]
      BY <3>2, ResumeFacts DEF TypeOK, Stage
    <3>3. ASSUME NEW from, NEW tag \in Tags, Meet(t, from, tag)
          PROVE  /\ dpc' \in [Thread -> Stage]
                 /\ help' \in [Thread -> HelpRecord \cup {NoHelp}]
                 /\ UNCHANGED <<word, desc, op, answer>>
      <4>1. Help(tag) \in HelpRecord
        BY <3>3 DEF Help, HelpRecord
      <4>. QED  BY <3>3, <4>1 DEF TypeOK, Meet, GoTo, Stage
    <3>4. CASE DcssRead(t)
      <4>1. IsRead(op[t])
        BY <3>4, CallForm DEF DcssRead, TypeOK, Phases
      <4>2. word[op[t].addr] \in Words
        BY <4>1 DEF TypeOK, IsRead
      <4>3. CASE IsTag(word[op[t].addr])
        BY <3>3, <3>4, <4>2, <4>3, WordForm DEF DcssRead, TypeOK
      <4>4. CASE ~IsTag(word[op[t].addr])
        <5>1. <<"read", word[op[t].addr][2]>> \in Answer
          BY <4>2, <4>4, WordForm DEF Answer
        <5>. QED  BY <3>1, <3>4, <4>4, <5>1 DEF DcssRead, TypeOK
      <4>. QED  BY <4>3, <4>4
    <3>5. CASE Cas(t)
      <4>1. desc[t] \in Operation
        BY <3>5 DEF Cas, Phases, Pending, Swapping
      <4>2. word[desc[t].addr2] \in Words
        <5>1. desc[t].addr2 \in Addr
          BY <4>1, CallForm DEF Operation, Target, IsDcss
        <5>. QED  BY <5>1 DEF TypeOK
      <4>3. CASE IsTag(word[desc[t].addr2]) /\ Meet(t, "cas", word[desc[t].addr2])
        BY <3>3, <4>2, <4>3, WordForm DEF TypeOK
      <4>4. CASE /\ GoTo(t, "cas", "compare")
                 /\ word' = [word EXCEPT ![desc[t].addr2] = OwnTag(t)]
                 /\ help' = [help EXCEPT ![t] = [Help(OwnTag(t)) EXCEPT !.copy = desc[t]]]
                 /\ UNCHANGED <<desc, op, answer>>
        <5>1. OwnTag(t) \in Tags
          BY <4>1 DEF OwnTag, Tags, Operation
        <5>2. [Help(OwnTag(t)) EXCEPT !.copy = desc[t]] \in HelpRecord
          BY <4>1, <5>1 DEF Help, HelpRecord
        <5>3. word' \in [Addr -> Words]
          BY <4>4, <5>1 DEF TypeOK, Words
        <5>. QED  BY <4>4, <5>2, <5>3 DEF TypeOK, GoTo, Stage
      <4>5. CASE /\ ~IsTag(word[desc[t].addr2])
                 /\ DcssReturn(t, "cas", <<"FAILED_ADDR2", word[desc[t].addr2][2]>>)
                 /\ UNCHANGED <<word, desc>>
        <5>1. <<"FAILED_ADDR2", word[desc[t].addr2][2]>> \in Answer
          BY <4>2, <4>5, WordForm DEF Answer
        <5>. QED  BY <3>1, <4>5, <5>1 DEF TypeOK
      <4>. QED  BY <3>5, <4>3, <4>4, <4>5 DEF Cas
    <3>6. CASE Copy(t)
      <4>1. help[t] \in HelpRecord /\ View(t)
        BY <3>6 DEF Copy, GoTo, Helping, Phases, Views
      <4>2. desc[help[t].tag[2]] \in Operation
        BY <4>1, WordForm DEF TypeOK, HelpRecord, View, NoOperation
      <4>3. [help[t] EXCEPT !.copy = desc[help[t].tag[2]]] \in HelpRecord
        BY <4>1, <4>2 DEF HelpRecord
      <4>4. help' = [help EXCEPT ![t] = [help[t] EXCEPT !.copy = desc[help[t].tag[2]]]]
        BY <3>6 DEF Copy
      <4>. QED  BY <3>6, <4>3, <4>4 DEF Copy, GoTo, TypeOK, Stage
    <3>7. CASE Check(t)
      BY <3>2, <3>7 DEF Check, GoTo, TypeOK, Stage
    <3>8. CASE Compare(t)
      <4>1. help[t] \in HelpRecord /\ View(t)
        BY <3>8 DEF Compare, GoTo, Helping, Phases, Views
      <4>2. help[t].copy.addr1 \in Addr \ Target
        BY <3>8, <4>1 DEF View, Compare, GoTo, Operation
      <4>3. PICK s \in State, v \in Value :
              help' = [help EXCEPT ![t] = [[help[t] EXCEPT !.val1 = v] EXCEPT !.state = s]]
        <5>1. word[help[t].copy.addr1][2] \in Value
          BY <4>2, PlainWords
        <5>2. "SUCCEEDED" \in State /\ "FAILED" \in State
          BY DEF State, Decided
        <5>3. help' = [help EXCEPT
                 ![t].val1 = word[help[t].copy.addr1][2],
                 ![t].state = IF word[help[t].copy.addr1] = Plain(help[t].copy.old1) THEN "SUCCEEDED" ELSE "FAILED"]
          BY <3>8 DEF Compare
        <5>. QED  BY <5>1, <5>2, <5>3
      <4>4. [[help[t] EXCEPT !.val1 = v] EXCEPT !.state = s] \in HelpRecord
        BY <4>1 DEF HelpRecord
      <4>5. help' \in [Thread -> HelpRecord \cup {NoHelp}]
        BY <4>3, <4>4 DEF TypeOK
      <4>. QED  BY <3>8, <4>5 DEF Compare, GoTo, TypeOK, Stage
    <3>9. CASE LookAtSeq(t)
      BY <3>2, <3>9 DEF LookAtSeq, GoTo, TypeOK, Stage
    <3>10. CASE Decide(t)
      <4>1. help[t] \in HelpRecord /\ View(t) /\ help[t].tag[2] \in Thread
        BY <3>10, WordForm DEF Decide, Helping, Phases, Views, HelpRecord
      <4> DEFINE u == help[t].tag[2]
      <4>2. CASE /\ desc[u].seq = help[t].copy.seq
                 /\ GoTo(t, "decide", "finish")
                 /\ desc' = [desc EXCEPT ![u].state = help[t].state]
                 /\ UNCHANGED <<op, help, answer>>
        <5>1. help[t].state \in State /\ desc[u] \in Operation
          <6>1. help[t].copy \in Operation /\ help[t].state \in Decided
            BY <3>10, <4>1 DEF Decide, View
          <6>2. desc[u].seq # 0 /\ desc[u] \in Operation \cup {NoOperation}
            BY <4>1, <4>2, <6>1 DEF Operation, TypeOK
          <6>. QED  BY <6>1, <6>2 DEF State, NoOperation
        <5>2. [desc[u] EXCEPT !.state = help[t].state] \in Operation
          BY <5>1 DEF Operation
        <5>3. desc' \in [Thread -> Operation \cup {NoOperation}]
          BY <4>1, <4>2, <5>2 DEF TypeOK
        <5>. QED  BY <3>10, <4>2, <5>3 DEF Decide, GoTo, TypeOK, Stage
      <4>3. CASE /\ GoTo(t, "decide", "finish")
                 /\ help' = [help EXCEPT ![t].state = desc[u].state]
                 /\ UNCHANGED <<desc, op, answer>>
        <5>1. desc[u].state \in State
          BY <4>1 DEF TypeOK, Operation, NoOperation, State
        <5>2. [help[t] EXCEPT !.state = desc[u].state] \in HelpRecord
          BY <4>1, <5>1 DEF HelpRecord
        <5>. QED  BY <3>10, <4>3, <5>2 DEF Decide, GoTo, TypeOK, Stage
      <4>4. CASE Resume(t, "decide") /\ UNCHANGED desc
        BY <3>2, <3>10, <4>4 DEF Decide, TypeOK, Stage
      <4>. QED  BY <3>10, <4>2, <4>3, <4>4 DEF Decide
    <3>11. CASE Finish(t)
      <4>1. help[t] \in HelpRecord /\ View(t) /\ help[t].copy \in Operation
        BY <3>11 DEF Finish, Helping, Phases, Views, View
      <4>2. word' \in [Addr -> Words]
        <5>1. help[t].copy.new2 \in Value /\ help[t].copy.old2 \in Value
          BY <4>1 DEF Operation
        <5>. QED  BY <3>11, <5>1 DEF Finish, TypeOK, Words
      <4>3. CASE \E ans \in Answer : DcssReturn(t, "finish", ans)
        BY <3>1, <3>11, <4>2, <4>3 DEF Finish, TypeOK
      <4>4. CASE Resume(t, "finish")
        BY <3>2, <3>11, <4>2, <4>4 DEF Finish, TypeOK, Stage
      <4>5. <<"SUCCESS", 0>> \in Answer /\ <<"FAILED_ADDR1", help[t].val1>> \in Answer
        BY <4>1 DEF Answer, HelpRecord
      <4>. QED  BY <3>11, <4>3, <4>4, <4>5 DEF Finish
    <3>. QED
      BY <2>2, <3>4, <3>5, <3>6, <3>7, <3>8, <3>9, <3>10, <3>11 DEF DcssStep
  <2>3. ASSUME NEW t \in Thread, NEW c, Call(t, c) PROVE TypeOK'
    <3>1. script[t] \in Seq(SUBSET Called) /\ script[t] # <<>>
      BY <2>3 DEF TypeOK, Call
    <3>2. c \in Called /\ script' \in [Thread -> Seq(SUBSET Called)]
      BY <2>3, <3>1 DEF TypeOK, Call
    <3>3. CASE c.op = "dcss" /\ CallDcss(t, c)
      <4> DEFINE d == [seq |-> desc[t].seq + 1, state |-> "UNDECIDED", addr1 |-> c.addr1, old1 |-> c.old1,
                       addr2 |-> c.addr2, old2 |-> c.old2, new2 |-> c.new2, payload |-> c.payload]
      <4>1. desc[t].seq \in Nat
        BY DEF TypeOK, Operation, NoOperation
      <4>2. /\ c.addr1 \in Addr \ Target /\ c.old1 \in Value /\ c.addr2 \in Target
            /\ c.old2 \in Value /\ c.new2 \in Value
            /\ c.payload \in {e.payload : e \in {e \in Called : e.op = "dcss"}}
        BY <3>2, <3>3, CallForm DEF IsDcss
      <4>3. d \in Operation
        BY <4>1, <4>2 DEF Operation, State
      <4>4. desc' = [desc EXCEPT ![t] = d]
        BY <3>3 DEF CallDcss
      <4>5. desc' \in [Thread -> Operation \cup {NoOperation}]
        BY <4>3, <4>4 DEF TypeOK
      <4>. QED  BY <2>1, <3>2, <3>3, <4>5 DEF CallDcss, GoTo, TypeOK, Stage
    <3>4. CASE c.op = "read" /\ CallRead(t, c)
      BY <2>1, <3>2, <3>4 DEF CallRead, GoTo, TypeOK, Stage
    <3>5. CASE c.op = "write" /\ word' = [word EXCEPT ![c.addr] = Plain(c.new)]
                 /\ UNCHANGED <<desc, dpc, op, help, answer>>
      <4>1. c.new \in Value
        BY <3>2, <3>5, CallForm DEF IsWrite
      <4>. QED  BY <2>1, <3>2, <3>5, <4>1 DEF TypeOK, Words
    <3>. QED  BY <2>3, <3>3, <3>4, <3>5 DEF Call
  <2>. QED
    BY <1>2, <2>1, <2>2, <2>3 DEF Next, TypeOK
<1>. QED  BY <1>1, <1>2

-----------------------------------------------------------------------------
(* What the steps do.                                                      *)

(* A step of t leaves the others where they are.                           *)
Alone(t) ==
  /\ DOMAIN dpc' = Thread /\ DOMAIN op' = Thread /\ DOMAIN help' = Thread /\ DOMAIN answer' = Thread
  /\ \A u \in Thread \ {t} : dpc'[u] = dpc[u] /\ op'[u] = op[u] /\ help'[u] = help[u] /\ answer'[u] = answer[u]

(* t meets the operation of another thread; it resumes its own after       *)
(* helping; it returns.                                                    *)
Met(t, u) ==
  /\ u # t /\ Placed(u)
  /\ dpc'[t] = "copy" /\ help'[t] = Help(OwnTag(u)) /\ help'[t] \in HelpRecord
  /\ UNCHANGED <<op, answer>>
Resumed(t) ==
  /\ help[t].tag # OwnTag(t)
  /\ dpc'[t] = (IF op[t].op = "dcss" THEN "cas" ELSE "read") /\ help'[t] = NoHelp
  /\ UNCHANGED <<op, answer>>
Returned(t) == dpc'[t] = "idle" /\ op'[t] = None /\ help'[t] = NoHelp

(* A tag that t finds when it is not in place is that of another thread.   *)
LEMMA MeetFacts ==
  ASSUME DcssInv, NEW t \in Thread, dpc[t] \in {"read", "cas"}, NEW a \in Addr, IsTag(word[a]),
         Meet(t, dpc[t], word[a])
  PROVE  Alone(t) /\ UNCHANGED <<word, desc>> /\ \E u \in Thread : Met(t, u)
<1>1. PICK u \in Thread : word[a] = OwnTag(u) /\ Placed(u)
  BY DEF DcssInv, InPlace
<1>2. u # t
  BY <1>1 DEF Placed, Helping
<1>3. Help(word[a]) \in HelpRecord
  BY WordForm DEF Help, HelpRecord, DcssInv, TypeOK
<1>. QED  BY <1>1, <1>2, <1>3 DEF Meet, GoTo, Met, Alone, DcssInv, TypeOK

(* readPtr                                                                 *)
LEMMA ReadFacts ==
  ASSUME Usage, DcssInv, NEW t \in Thread, DcssRead(t)
  PROVE  /\ dpc[t] = "read" /\ op[t] = ReadOf(op[t].addr) /\ op[t].addr \in Addr
         /\ Alone(t) /\ UNCHANGED <<word, desc>>
         /\ \/ \E u \in Thread : Met(t, u)
            \/ /\ Returned(t)
               /\ ~IsTag(word[op[t].addr]) /\ answer'[t] = <<"read", word[op[t].addr][2]>>
<1>1. dpc[t] = "read" /\ IsRead(op[t])
  BY CallForm DEF DcssRead, DcssInv, TypeOK, Phases
<1>2. CASE IsTag(word[op[t].addr])
  BY <1>1, <1>2, MeetFacts DEF DcssRead, IsRead
<1>3. CASE ~IsTag(word[op[t].addr])
  BY <1>1, <1>3 DEF DcssRead, DcssReturn, GoTo, Returned, Alone, DcssInv, TypeOK, IsRead
<1>. QED  BY <1>1, <1>2, <1>3 DEF IsRead

(* The compare-and-swap that puts the tag in place.                        *)
LEMMA CasFacts ==
  ASSUME Usage, DcssInv, NEW t \in Thread, Cas(t)
  PROVE  /\ dpc[t] = "cas" /\ Pending(t) /\ ~Placed(t)
         /\ desc[t] \in Operation /\ desc[t].state = "UNDECIDED" /\ desc[t].addr2 \in Addr
         /\ Alone(t) /\ UNCHANGED desc
         /\ \/ UNCHANGED word /\ \E u \in Thread : Met(t, u)
            \/ /\ word[desc[t].addr2] = Plain(desc[t].old2)
               /\ word' = [word EXCEPT ![desc[t].addr2] = OwnTag(t)]
               /\ dpc'[t] = "compare" /\ help'[t] \in HelpRecord
               /\ help'[t].tag = OwnTag(t) /\ help'[t].copy = desc[t]
               /\ UNCHANGED <<op, answer>>
            \/ /\ ~IsTag(word[desc[t].addr2]) /\ word[desc[t].addr2] # Plain(desc[t].old2)
               /\ answer'[t] = <<"FAILED_ADDR2", word[desc[t].addr2][2]>>
               /\ UNCHANGED word /\ Returned(t)
<1>1. dpc[t] = "cas" /\ Pending(t) /\ ~Placed(t)
  BY DEF Cas, DcssInv, Phases, Pending, Swapping, Placed, Helping
<1>2. desc[t] \in Operation /\ desc[t].state = "UNDECIDED"
  BY <1>1 DEF DcssInv, Phases
<1>3. desc[t].addr2 \in Addr
  BY <1>2, CallForm DEF Operation, Target, IsDcss
<1>4. CASE IsTag(word[desc[t].addr2]) /\ Meet(t, "cas", word[desc[t].addr2])
  BY <1>1, <1>2, <1>3, <1>4, MeetFacts
<1>5. CASE /\ word[desc[t].addr2] = Plain(desc[t].old2)
           /\ GoTo(t, "cas", "compare")
           /\ word' = [word EXCEPT ![desc[t].addr2] = OwnTag(t)]
           /\ help' = [help EXCEPT ![t] = [Help(OwnTag(t)) EXCEPT !.copy = desc[t]]]
           /\ UNCHANGED <<desc, op, answer>>
  <2> DEFINE h == [Help(OwnTag(t)) EXCEPT !.copy = desc[t]]
  <2>1. OwnTag(t) \in Tags
    BY <1>2 DEF OwnTag, Tags, Operation
  <2>2. h \in HelpRecord /\ h.tag = OwnTag(t) /\ h.copy = desc[t]
    BY <1>2, <2>1 DEF Help, HelpRecord
  <2>3. help'[t] = h /\ Alone(t) /\ dpc'[t] = "compare"
    BY <1>5 DEF GoTo, Alone, DcssInv, TypeOK
  <2>. QED  BY <1>1, <1>2, <1>3, <1>5, <2>2, <2>3
<1>6. CASE /\ ~IsTag(word[desc[t].addr2]) /\ word[desc[t].addr2] # Plain(desc[t].old2)
           /\ DcssReturn(t, "cas", <<"FAILED_ADDR2", word[desc[t].addr2][2]>>)
           /\ UNCHANGED <<word, desc>>
  BY <1>1, <1>2, <1>3, <1>6 DEF DcssReturn, GoTo, Returned, Alone, DcssInv, TypeOK
<1>. QED  BY <1>4, <1>5, <1>6 DEF Cas

(* Whoever helps has a record of it, and a copy after the first step; only *)
(* one that helps another goes through the first two.                      *)
LEMMA HelperFacts ==
  ASSUME DcssInv, NEW t \in Thread, Helping(t)
  PROVE  /\ help[t] \in HelpRecord /\ View(t) /\ op[t] # None
         /\ help[t].tag[2] \in Thread /\ help[t].tag[3] \in Nat \ {0}
         /\ help[t].tag = Tag(help[t].tag[2], help[t].tag[3])
         /\ dpc[t] # "copy" => help[t].copy \in Operation
         /\ help[t].tag = OwnTag(t) <=> help[t].tag[2] = t /\ help[t].tag[3] = desc[t].seq
         /\ help[t].tag = OwnTag(t) => Placed(t)
<1>1. help[t] \in HelpRecord /\ View(t) /\ op[t] # None
  BY DEF DcssInv, Phases, Views, Helping
<1>2. help[t].tag \in Tags
  BY <1>1 DEF HelpRecord
<1>3. help[t].tag = OwnTag(t) => help[t].tag[2] = t /\ help[t].tag[3] = desc[t].seq
  BY DEF OwnTag, Tag
<1>4. help[t].tag = OwnTag(t) => Placed(t)
  BY DEF DcssInv, Phases, Placed
<1>. QED  BY <1>1, <1>2, <1>3, <1>4, WordForm DEF View, OwnTag

(* t gives up helping.                                                     *)
LEMMA GiveUpFacts ==
  ASSUME DcssInv, NEW t \in Thread, Helping(t), Resume(t, dpc[t]), help[t].tag # OwnTag(t)
  PROVE  Alone(t) /\ Resumed(t)
<1>1. dpc[t] \in Stage \ {"idle"}
  BY DEF Stage, Helping
<1>. QED  BY <1>1, ResumeFacts DEF Resumed, Alone, DcssInv, TypeOK

(* dcssHelpOther, up to the comparison: the record keeps its tag.          *)
LEMMA CopyFacts ==
  ASSUME DcssInv, NEW t \in Thread, Copy(t)
  PROVE  /\ dpc[t] = "copy" /\ dpc'[t] = "check" /\ help'[t] \in HelpRecord
         /\ help'[t].tag = help[t].tag /\ help'[t].copy = desc[help[t].tag[2]]
         /\ Alone(t) /\ UNCHANGED <<word, desc, op, answer>>
<1>1. dpc[t] = "copy" /\ help[t] \in HelpRecord /\ View(t)
  BY HelperFacts DEF Copy, GoTo, Helping
<1>2. desc[help[t].tag[2]] \in Operation
  BY <1>1, HelperFacts DEF Helping, View, DcssInv, TypeOK, NoOperation
<1> DEFINE h == [help[t] EXCEPT !.copy = desc[help[t].tag[2]]]
<1>3. h \in HelpRecord /\ h.tag = help[t].tag /\ h.copy = desc[help[t].tag[2]]
  BY <1>1, <1>2 DEF HelpRecord
<1>4. help'[t] = h /\ dpc'[t] = "check" /\ Alone(t)
  BY DEF Copy, GoTo, Alone, DcssInv, TypeOK
<1>. QED  BY <1>1, <1>3, <1>4 DEF Copy

LEMMA CheckFacts ==
  ASSUME DcssInv, NEW t \in Thread, Check(t)
  PROVE  /\ dpc[t] = "check" /\ help[t].tag # OwnTag(t)
         /\ Alone(t) /\ UNCHANGED <<word, desc>>
         /\ \/ /\ desc[help[t].tag[2]].seq = help[t].tag[3]
               /\ dpc'[t] = "compare" /\ UNCHANGED <<op, help, answer>>
            \/ Resumed(t)
<1>1. dpc[t] = "check"
  BY DEF Check, GoTo, Resume, DcssReturn
<1>2. help[t].tag # OwnTag(t)
  BY <1>1 DEF DcssInv, Phases, Helping
<1>3. CASE desc[help[t].tag[2]].seq = help[t].tag[3] /\ GoTo(t, "check", "compare") /\ UNCHANGED <<op, help, answer>>
  BY <1>1, <1>2, <1>3 DEF Check, GoTo, Alone, DcssInv, TypeOK
<1>4. CASE Resume(t, "check")
  BY <1>1, <1>2, <1>4, GiveUpFacts DEF Check, Helping
<1>. QED  BY <1>1, <1>2, <1>3, <1>4 DEF Check

(* The comparison of addr1.                                                *)
LEMMA CompareFacts ==
  ASSUME DcssInv, NEW t \in Thread, Compare(t)
  PROVE  /\ dpc[t] = "compare" /\ dpc'[t] = "look" /\ help'[t] \in HelpRecord
         /\ help'[t].tag = help[t].tag /\ help'[t].copy = help[t].copy
         /\ help'[t].state = IF word[help[t].copy.addr1] = Plain(help[t].copy.old1) THEN "SUCCEEDED" ELSE "FAILED"
         /\ Alone(t) /\ UNCHANGED <<word, desc, op, answer>>
<1>1. dpc[t] = "compare" /\ help[t] \in HelpRecord /\ help[t].copy \in Operation
  BY HelperFacts DEF Compare, GoTo, Helping
<1>2. word[help[t].copy.addr1][2] \in Value
  BY <1>1, PlainWords DEF DcssInv, Operation
<1> DEFINE s == IF word[help[t].copy.addr1] = Plain(help[t].copy.old1) THEN "SUCCEEDED" ELSE "FAILED"
           h == [[help[t] EXCEPT !.val1 = word[help[t].copy.addr1][2]] EXCEPT !.state = s]
<1>3. h \in HelpRecord /\ h.tag = help[t].tag /\ h.copy = help[t].copy /\ h.state = s
  BY <1>1, <1>2 DEF HelpRecord, State, Decided
<1>4. help'[t] = h /\ dpc'[t] = "look" /\ Alone(t)
  BY DEF Compare, GoTo, Alone, DcssInv, TypeOK
<1>. QED  BY <1>1, <1>3, <1>4 DEF Compare

(* The compare-and-swap of the state, in its two steps.  An operation in   *)
(* progress keeps its descriptor, so its owner never gives up.             *)
LEMMA LookFacts ==
  ASSUME DcssInv, NEW t \in Thread, LookAtSeq(t)
  PROVE  /\ dpc[t] = "look" /\ Alone(t) /\ UNCHANGED <<word, desc>>
         /\ \/ dpc'[t] = "decide" /\ UNCHANGED <<op, help, answer>>
            \/ Resumed(t)
<1>1. dpc[t] = "look" /\ View(t)
  BY HelperFacts DEF LookAtSeq, GoTo, Resume, DcssReturn, Helping
<1>2. CASE GoTo(t, "look", "decide") /\ UNCHANGED <<op, help, answer>>
  BY <1>1, <1>2 DEF LookAtSeq, GoTo, Alone, DcssInv, TypeOK
<1>3. CASE desc[help[t].tag[2]].seq # help[t].copy.seq /\ Resume(t, "look")
  <2>1. help[t].tag # OwnTag(t)
    BY <1>1, <1>3, HelperFacts DEF View, Helping
  <2>. QED  BY <1>1, <1>3, <2>1, GiveUpFacts DEF LookAtSeq, Helping
<1>. QED  BY <1>2, <1>3 DEF LookAtSeq

StateSet(t, u) == desc' = [desc EXCEPT ![u].state = help[t].state]

LEMMA DecideFacts ==
  ASSUME DcssInv, NEW t \in Thread, Decide(t), NEW u, u = help[t].tag[2]
  PROVE  /\ dpc[t] = "decide" /\ Alone(t) /\ UNCHANGED word
         /\ \/ /\ desc[u].seq = help[t].tag[3] /\ desc[u].state = "UNDECIDED" /\ help[t].state \in Decided
               /\ u \in Thread /\ Placed(u)
               /\ StateSet(t, u)
               /\ SameOperation(desc'[u], desc[u]) /\ desc'[u].state = help[t].state
               /\ dpc'[t] = "finish" /\ UNCHANGED <<op, help, answer>>
            \/ /\ desc[u].state \in Decided
               /\ dpc'[t] = "finish" /\ help'[t] \in HelpRecord
               /\ help'[t].tag = help[t].tag /\ help'[t].copy = help[t].copy /\ help'[t].state = desc[u].state
               /\ UNCHANGED <<desc, op, answer>>
            \/ UNCHANGED desc /\ Resumed(t)
<1>1. /\ dpc[t] = "decide" /\ help[t] \in HelpRecord /\ View(t) /\ u \in Thread
      /\ help[t].copy.seq = help[t].tag[3] /\ help[t].state \in Decided /\ help[t].tag[3] # 0
  BY HelperFacts DEF Decide, Helping, View
<1>2. desc[u] \in Operation \cup {NoOperation}
  BY <1>1 DEF DcssInv, TypeOK
<1>3. CASE /\ desc[u].seq = help[t].copy.seq /\ desc[u].state = "UNDECIDED"
           /\ GoTo(t, "decide", "finish")
           /\ desc' = [desc EXCEPT ![u].state = help[t].state]
           /\ UNCHANGED <<op, help, answer>>
  <2>1. desc'[u] = [desc[u] EXCEPT !.state = help[t].state]
    BY <1>1, <1>3 DEF DcssInv, TypeOK
  <2>2. SameOperation(desc'[u], desc[u]) /\ desc'[u].state = help[t].state
    BY <1>2, <2>1 DEF SameOperation, Operation, NoOperation
  <2>3. Placed(u)
    BY <1>1, <1>3 DEF View, Over, Decided
  <2>4. Alone(t) /\ dpc'[t] = "finish"
    BY <1>3 DEF Alone, GoTo, DcssInv, TypeOK
  <2>5. StateSet(t, u)
    BY <1>3 DEF StateSet
  <2>. QED  BY <1>1, <1>3, <2>2, <2>3, <2>4, <2>5 DEF Decide
<1>4. CASE /\ desc[u].state # "UNDECIDED"
           /\ GoTo(t, "decide", "finish")
           /\ help' = [help EXCEPT ![t].state = desc[u].state]
           /\ UNCHANGED <<desc, op, answer>>
  <2> DEFINE h == [help[t] EXCEPT !.state = desc[u].state]
  <2>1. desc[u].state \in Decided
    BY <1>2, <1>4 DEF Operation, NoOperation, State
  <2>2. h \in HelpRecord /\ h.tag = help[t].tag /\ h.copy = help[t].copy /\ h.state = desc[u].state
    BY <1>1, <2>1 DEF HelpRecord, State
  <2>3. help'[t] = h /\ Alone(t) /\ dpc'[t] = "finish"
    BY <1>4 DEF Alone, GoTo, DcssInv, TypeOK
  <2>. QED  BY <1>1, <1>4, <2>1, <2>2, <2>3 DEF Decide
<1>5. CASE desc[u].seq # help[t].copy.seq /\ Resume(t, "decide") /\ UNCHANGED desc
  <2>1. help[t].tag # OwnTag(t)
    BY <1>1, <1>5, HelperFacts DEF Helping
  <2>. QED  BY <1>1, <1>5, <2>1, GiveUpFacts DEF Decide, Helping
<1>. QED  BY <1>3, <1>4, <1>5 DEF Decide

(* The compare-and-swap that takes the tag away, if it is still there.     *)
TagTaken(u) ==
  /\ desc[u].addr2 \in Addr /\ word[desc[u].addr2] = OwnTag(u)
  /\ word' = [word EXCEPT ![desc[u].addr2] =
                 Plain(IF desc[u].state = "SUCCEEDED" THEN desc[u].new2 ELSE desc[u].old2)]

LEMMA FinishFacts ==
  ASSUME Usage, DcssInv, NEW t \in Thread, Finish(t), NEW u, u = help[t].tag[2]
  PROVE  /\ dpc[t] = "finish" /\ Alone(t) /\ UNCHANGED desc
         /\ \/ /\ help[t].tag = OwnTag(u) /\ u \in Thread /\ Placed(u) /\ desc[u].state = help[t].state
               /\ help[t].state \in Decided
               /\ TagTaken(u)
            \/ /\ UNCHANGED word
               /\ \A a \in Addr : word[a] # help[t].tag
         /\ \/ /\ u = t /\ Placed(t) /\ desc[t].state = help[t].state /\ Returned(t)
               /\ answer'[t] = IF desc[t].state = "SUCCEEDED" THEN <<"SUCCESS", 0>>
                               ELSE <<"FAILED_ADDR1", help[t].val1>>
            \/ Resumed(t)
<1>1. /\ dpc[t] = "finish" /\ help[t] \in HelpRecord /\ View(t) /\ u \in Thread /\ help[t].copy \in Operation
      /\ help[t].copy.seq = help[t].tag[3] /\ help[t].state \in Decided
      /\ help[t].tag = Tag(u, help[t].tag[3])
  BY HelperFacts DEF Finish, Helping, View
<1>2. desc[u].seq = help[t].tag[3] => desc[u].state = help[t].state /\ SameOperation(help[t].copy, desc[u])
  BY <1>1 DEF View
<1>3. /\ Alone(t) /\ UNCHANGED desc
      /\ \/ /\ help[t].tag = OwnTag(t) /\ Returned(t)
            /\ answer'[t] = IF help[t].state = "SUCCEEDED" THEN <<"SUCCESS", 0>>
                            ELSE <<"FAILED_ADDR1", help[t].val1>>
         \/ Resumed(t)
  <2>1. CASE /\ help[t].tag = OwnTag(t)
             /\ DcssReturn(t, "finish", IF help[t].state = "SUCCEEDED" THEN <<"SUCCESS", 0>>
                                        ELSE <<"FAILED_ADDR1", help[t].val1>>)
    BY <2>1 DEF Finish, DcssReturn, GoTo, Alone, Returned, DcssInv, TypeOK
  <2>2. CASE help[t].tag # OwnTag(t) /\ Resume(t, "finish")
    BY <1>1, <2>2, GiveUpFacts DEF Finish, Helping
  <2>. QED  BY <2>1, <2>2 DEF Finish
<1>4. help[t].tag = OwnTag(t) => u = t /\ Placed(t) /\ desc[t].seq = help[t].tag[3]
  BY <1>1, HelperFacts DEF Helping
<1>5. ASSUME NEW a \in Addr, word[a] = help[t].tag
      PROVE  help[t].tag = OwnTag(u) /\ Placed(u) /\ desc[u].addr2 = a /\ desc[u].seq = help[t].tag[3]
  <2>1. IsTag(word[a])
    BY <1>1, <1>5, WordForm
  <2>2. PICK v \in Thread : word[a] = OwnTag(v) /\ Placed(v) /\ desc[v].addr2 = a
    BY <2>1 DEF DcssInv, InPlace
  <2>3. v = u /\ desc[u].seq = help[t].tag[3]
    BY <1>1, <1>5, <2>2, WordForm DEF OwnTag
  <2>. QED  BY <1>5, <2>2, <2>3
<1>6. \/ /\ help[t].tag = OwnTag(u) /\ Placed(u) /\ desc[u].state = help[t].state
         /\ TagTaken(u)
      \/ /\ UNCHANGED word
         /\ \A a \in Addr : word[a] # help[t].tag
  <2>1. help[t].copy.addr2 \in Addr
    BY <1>1, CallForm DEF Operation, Target, IsDcss
  <2>2. CASE word[help[t].copy.addr2] = help[t].tag
    <3>1. /\ help[t].tag = OwnTag(u) /\ Placed(u) /\ desc[u].addr2 = help[t].copy.addr2
          /\ desc[u].state = help[t].state /\ SameOperation(help[t].copy, desc[u])
      BY <1>2, <1>5, <2>1, <2>2
    <3>2. TagTaken(u)
      BY <2>1, <2>2, <3>1 DEF Finish, SameOperation, TagTaken
    <3>. QED  BY <3>1, <3>2
  <2>3. CASE word[help[t].copy.addr2] # help[t].tag
    <3>1. \A a \in Addr : word[a] # help[t].tag
      BY <1>2, <1>5, <2>3 DEF SameOperation
    <3>. QED  BY <2>3, <3>1 DEF Finish
  <2>. QED  BY <2>2, <2>3
<1>. QED  BY <1>1, <1>2, <1>3, <1>4, <1>6

(* A call: of a DCSS, with a descriptor that is new to everybody else, or  *)
(* of a read; or a write.                                                  *)
LEMMA CallFacts ==
  ASSUME Usage, DcssInv, NEW t \in Thread, NEW c, Call(t, c)
  PROVE  /\ dpc[t] = "idle" /\ op[t] = None /\ Alone(t) /\ UNCHANGED <<help, answer>>
         /\ \/ /\ c.op = "dcss" /\ c # None /\ IsDcss(c) /\ dpc'[t] = "cas" /\ op'[t] = c
               /\ \A u \in Thread \ {t} : desc'[u] = desc[u]
               /\ desc'[t] \in Operation /\ desc'[t].state = "UNDECIDED" /\ desc'[t].seq = desc[t].seq + 1
               /\ desc'[t].addr1 = c.addr1 /\ desc'[t].old1 = c.old1 /\ desc'[t].addr2 = c.addr2
               /\ desc'[t].old2 = c.old2 /\ desc'[t].new2 = c.new2
               /\ UNCHANGED word
            \/ /\ c # None /\ IsRead(c) /\ dpc'[t] = "read" /\ op'[t] = c
               /\ UNCHANGED <<word, desc>>
            \/ /\ c.addr \in Addr \ Target /\ c.new \in Value
               /\ word' = [word EXCEPT ![c.addr] = Plain(c.new)]
               /\ UNCHANGED <<desc, dpc, op>>
<1>1. script[t] \in Seq(SUBSET Called) /\ script[t] # <<>>
  BY DEF DcssInv, TypeOK, Call
<1>2. c \in Called
  BY <1>1 DEF Call
<1>3. dpc[t] = "idle" /\ op[t] = None
  BY DEF Call, DcssInv, Phases
<1>4. CASE c.op = "dcss" /\ CallDcss(t, c)
  <2> DEFINE d == [seq |-> desc[t].seq + 1, state |-> "UNDECIDED", addr1 |-> c.addr1, old1 |-> c.old1,
                   addr2 |-> c.addr2, old2 |-> c.old2, new2 |-> c.new2, payload |-> c.payload]
  <2>1. desc[t].seq \in Nat
    BY DEF DcssInv, TypeOK, Operation, NoOperation
  <2>2. /\ c.addr1 \in Addr \ Target /\ c.old1 \in Value /\ c.addr2 \in Target
        /\ c.old2 \in Value /\ c.new2 \in Value
        /\ c.payload \in {e.payload : e \in {e \in Called : e.op = "dcss"}}
    BY <1>2, <1>4, CallForm DEF IsDcss
  <2>3. d \in Operation
    BY <2>1, <2>2 DEF Operation, State
  <2>4. desc' = [desc EXCEPT ![t] = d]
    BY <1>4 DEF CallDcss
  <2>5. desc'[t] = d /\ \A u \in Thread \ {t} : desc'[u] = desc[u]
    BY <2>4 DEF DcssInv, TypeOK
  <2>6. Alone(t) /\ dpc'[t] = "cas" /\ op'[t] = c /\ UNCHANGED <<word, help, answer>>
    BY <1>4 DEF CallDcss, GoTo, Alone, DcssInv, TypeOK
  <2>7. IsDcss(c) /\ c # None
    BY <1>2, <1>4, CallForm
  <2>. QED  BY <1>3, <1>4, <2>3, <2>5, <2>6, <2>7
<1>5. CASE c.op = "read" /\ CallRead(t, c)
  <2>1. IsRead(c) /\ c # None
    BY <1>2, <1>5, CallForm
  <2>. QED  BY <1>3, <1>5, <2>1 DEF CallRead, GoTo, Alone, DcssInv, TypeOK
<1>6. CASE c.op = "write" /\ word' = [word EXCEPT ![c.addr] = Plain(c.new)]
             /\ UNCHANGED <<desc, dpc, op, help, answer>>
  <2>1. IsWrite(c)
    BY <1>2, <1>6, CallForm
  <2>. QED  BY <1>3, <1>6, <2>1 DEF IsWrite, Alone, DcssInv, TypeOK
<1>. QED  BY <1>4, <1>5, <1>6 DEF Call

-----------------------------------------------------------------------------
(* What a thread has in place stays its own when others move.              *)
LEMMA OthersPlaced ==
  ASSUME NEW t \in Thread, Alone(t), NEW u \in Thread \ {t}, desc'[u].seq = desc[u].seq
  PROVE  /\ Pending(u)' <=> Pending(u)
         /\ Helping(u)' <=> Helping(u)
         /\ Placed(u)' <=> Placed(u)
BY DEF Alone, Pending, Swapping, Helping, Placed, OwnTag

(* Who meets, resumes or returns has nothing in place any more.            *)
LEMMA Unplaced ==
  ASSUME NEW t, (\E u : Met(t, u)) \/ Resumed(t) \/ Returned(t), desc'[t].seq = desc[t].seq
  PROVE  ~Placed(t)'
<1>1. CASE \E u : Met(t, u)
  <2>1. PICK u : Met(t, u)
    BY <1>1
  <2>2. help'[t].tag = OwnTag(u) /\ u # t
    BY <2>1 DEF Met, Help
  <2>. QED  BY <2>2 DEF Placed, OwnTag, Tag
<1>2. CASE Resumed(t)
  BY <1>2 DEF Resumed, Placed, Helping
<1>3. CASE Returned(t)
  BY <1>3 DEF Returned, Placed, Helping
<1>. QED  BY <1>1, <1>2, <1>3

(* What only t changes changes for t.                                      *)
LEMMA PhasesFrame ==
  ASSUME Phases, NEW t \in Thread, Alone(t),
         \A u \in Thread \ {t} : desc'[u] = desc[u],
         /\ dpc'[t] = "idle" <=> op'[t] = None
         /\ dpc'[t] = "read" => op'[t].op = "read"
         /\ dpc'[t] = "cas" => op'[t].op = "dcss"
         /\ op'[t] # None => op'[t].op \in {"dcss", "read"}
         /\ Helping(t)' => help'[t] \in HelpRecord
         /\ Helping(t)' /\ help'[t].tag = OwnTag(t)' => Pending(t)' /\ dpc'[t] \notin {"copy", "check"}
         /\ Pending(t)' => /\ desc'[t] \in Operation
                           /\ desc'[t].addr1 = op'[t].addr1 /\ desc'[t].old1 = op'[t].old1
                           /\ desc'[t].addr2 = op'[t].addr2 /\ desc'[t].old2 = op'[t].old2
                           /\ desc'[t].new2 = op'[t].new2
         /\ Pending(t)' /\ ~Placed(t)' => desc'[t].state = "UNDECIDED"
  PROVE  Phases'
<1> SUFFICES ASSUME NEW u \in Thread \ {t}
             PROVE  /\ dpc'[u] = "idle" <=> op'[u] = None
                    /\ dpc'[u] = "read" => op'[u].op = "read"
                    /\ dpc'[u] = "cas" => op'[u].op = "dcss"
                    /\ op'[u] # None => op'[u].op \in {"dcss", "read"}
                    /\ Helping(u)' => help'[u] \in HelpRecord
                    /\ Helping(u)' /\ help'[u].tag = OwnTag(u)' => Pending(u)' /\ dpc'[u] \notin {"copy", "check"}
                    /\ Pending(u)' => /\ desc'[u] \in Operation
                                      /\ desc'[u].addr1 = op'[u].addr1 /\ desc'[u].old1 = op'[u].old1
                                      /\ desc'[u].addr2 = op'[u].addr2 /\ desc'[u].old2 = op'[u].old2
                                      /\ desc'[u].new2 = op'[u].new2
                    /\ Pending(u)' /\ ~Placed(u)' => desc'[u].state = "UNDECIDED"
  BY DEF Phases
<1>1. dpc'[u] = dpc[u] /\ op'[u] = op[u] /\ help'[u] = help[u] /\ desc'[u] = desc[u]
  BY DEF Alone
<1>2. /\ Pending(u)' <=> Pending(u)
      /\ Helping(u)' <=> Helping(u)
      /\ Placed(u)' <=> Placed(u)
      /\ OwnTag(u)' = OwnTag(u)
  BY <1>1, OthersPlaced DEF OwnTag
<1>. QED  BY <1>1, <1>2 DEF Phases

(* The descriptor and the stage of a thread go with its operation.         *)
LEMMA PhasesStep ==
  ASSUME Usage, DcssInv, [Next]_vars
  PROVE  Phases'
<1>0. Phases
  BY DEF DcssInv
<1>f. ASSUME NEW t \in Thread, Alone(t), UNCHANGED desc,
             \/ (\E u \in Thread : Met(t, u)) /\ dpc[t] \in {"read", "cas"}
             \/ Resumed(t) /\ Helping(t)
             \/ Returned(t)
      PROVE  Phases'
  <2>1. ~Placed(t)'
    BY <1>f, Unplaced
  <2>2. CASE \E u \in Thread : Met(t, u) /\ dpc[t] \in {"read", "cas"}
    <3>1. PICK u \in Thread : Met(t, u)
      BY <2>2
    <3>2. help'[t].tag # OwnTag(t)'
      BY <1>f, <3>1 DEF Met, Help, OwnTag, Tag
    <3>3. ~Placed(t)
      BY <2>2 DEF Placed, Helping
    <3>4. op[t] # None
      BY <1>0, <2>2 DEF Phases
    <3>. QED
      BY <1>0, <1>f, <2>1, <3>1, <3>2, <3>3, <3>4, PhasesFrame DEF Met, Phases, Pending, Swapping, Helping
  <2>3. CASE Resumed(t) /\ Helping(t)
    <3>1. ~Placed(t) /\ op[t] # None
      BY <1>0, <2>3 DEF Resumed, Placed, Phases, Helping
    <3>. QED
      BY <1>0, <1>f, <2>1, <2>3, <3>1, PhasesFrame DEF Resumed, Phases, Pending, Swapping, Helping
  <2>4. CASE Returned(t)
    BY <1>0, <1>f, <2>4, PhasesFrame DEF Returned, Pending, Swapping, Helping
  <2>. QED  BY <1>f, <2>2, <2>3, <2>4
<1>1. ASSUME NEW t \in Thread, DcssRead(t) PROVE Phases'
  BY <1>1, <1>f, ReadFacts
<1>2. ASSUME NEW t \in Thread, Cas(t) PROVE Phases'
  <2>1. CASE /\ dpc'[t] = "compare" /\ help'[t] \in HelpRecord
             /\ help'[t].tag = OwnTag(t) /\ UNCHANGED op
    <3>1. Placed(t)' /\ Pending(t)'
      BY <1>2, <2>1, CasFacts DEF Placed, Pending, Swapping, Helping, OwnTag
    <3>. QED
      BY <1>0, <1>2, <2>1, <3>1, CasFacts, PhasesFrame DEF Phases, Pending, Swapping, Helping
  <2>. QED  BY <1>2, <1>f, <2>1, CasFacts
<1>3. ASSUME NEW t \in Thread, Alone(t), UNCHANGED <<desc, op>>, Helping(t), dpc[t] # "finish",
             dpc'[t] \in {"check", "compare", "look", "decide", "finish"},
             dpc[t] = "copy" <=> dpc'[t] = "check",
             help'[t] \in HelpRecord, help'[t].tag = help[t].tag
      PROVE  Phases'
  <2>1. Placed(t)' <=> Placed(t)
    BY <1>3 DEF Placed, Pending, Swapping, Helping, OwnTag
  <2>2. OwnTag(t)' = OwnTag(t)
    BY <1>3 DEF OwnTag
  <2>3. op[t] # None
    BY <1>0, <1>3 DEF Phases, Helping
  <2>. QED
    BY <1>0, <1>3, <2>1, <2>2, <2>3, PhasesFrame DEF Phases, Pending, Swapping, Helping
<1>4. ASSUME NEW t \in Thread, Copy(t) \/ Check(t) \/ Compare(t) \/ LookAtSeq(t) PROVE Phases'
  <2>1. Helping(t) /\ help[t] \in HelpRecord
    BY <1>4, HelperFacts, CopyFacts, CheckFacts, CompareFacts, LookFacts DEF Helping
  <2>. QED
    BY <1>3, <1>4, <1>f, <2>1, CopyFacts, CheckFacts, CompareFacts, LookFacts
<1>5. ASSUME NEW t \in Thread, Decide(t) PROVE Phases'
  <2>1. Helping(t) /\ help[t] \in HelpRecord /\ dpc[t] = "decide"
    BY <1>5, HelperFacts, DecideFacts DEF Helping
  <2>2. PICK u : u = help[t].tag[2]
    OBVIOUS
  <2>3. CASE /\ u \in Thread /\ Placed(u)
             /\ StateSet(t, u)
             /\ SameOperation(desc'[u], desc[u])
             /\ dpc'[t] = "finish" /\ UNCHANGED <<op, help, answer>>
    <3>1. Alone(t) /\ desc' \in [Thread -> Operation \cup {NoOperation}]
      BY <1>5, DecideFacts, TypeStep DEF DcssInv, TypeOK
    <3> SUFFICES ASSUME NEW v \in Thread
                 PROVE  /\ dpc'[v] = "idle" <=> op'[v] = None
                        /\ dpc'[v] = "read" => op'[v].op = "read"
                        /\ dpc'[v] = "cas" => op'[v].op = "dcss"
                        /\ op'[v] # None => op'[v].op \in {"dcss", "read"}
                        /\ Helping(v)' => help'[v] \in HelpRecord
                        /\ Helping(v)' /\ help'[v].tag = OwnTag(v)' => Pending(v)' /\ dpc'[v] \notin {"copy", "check"}
                        /\ Pending(v)' => /\ desc'[v] \in Operation
                                          /\ desc'[v].addr1 = op'[v].addr1 /\ desc'[v].old1 = op'[v].old1
                                          /\ desc'[v].addr2 = op'[v].addr2 /\ desc'[v].old2 = op'[v].old2
                                          /\ desc'[v].new2 = op'[v].new2
                        /\ Pending(v)' /\ ~Placed(v)' => desc'[v].state = "UNDECIDED"
      BY DEF Phases
    <3>2. dpc'[v] = dpc[v] \/ (v = t /\ dpc'[v] = "finish")
      BY <2>3, <3>1 DEF Alone
    <3>3. SameOperation(desc'[v], desc[v]) /\ (v # u => desc'[v] = desc[v])
      BY <2>3 DEF StateSet, SameOperation, DcssInv, TypeOK
    <3>4. Pending(v)' <=> Pending(v)
      BY <2>3 DEF Pending, Swapping
    <3>5. Helping(v)' <=> Helping(v)
      BY <2>1, <3>2 DEF Helping
    <3>6. OwnTag(v)' = OwnTag(v)
      BY <3>3 DEF OwnTag, SameOperation
    <3>7. Placed(v)' <=> Placed(v)
      BY <2>3, <3>4, <3>5, <3>6 DEF Placed
    <3>8. Pending(v) => desc'[v] \in Operation
      <4>1. ASSUME Pending(v) PROVE desc'[v].seq # 0
        BY <1>0, <3>3, <4>1 DEF Phases, SameOperation, Operation
      <4>. QED  BY <3>1, <4>1 DEF NoOperation
    <3>9. Pending(v)' /\ ~Placed(v)' => desc'[v].state = "UNDECIDED"
      BY <1>0, <2>3, <3>3, <3>4, <3>7 DEF Phases
    <3>. QED
      BY <1>0, <2>1, <2>3, <3>2, <3>3, <3>4, <3>5, <3>6, <3>8, <3>9 DEF Phases, SameOperation
  <2>4. CASE /\ dpc'[t] = "finish" /\ help'[t] \in HelpRecord
             /\ help'[t].tag = help[t].tag /\ UNCHANGED <<desc, op>>
    BY <1>3, <1>5, <2>1, <2>2, <2>4, DecideFacts
  <2>5. CASE UNCHANGED desc /\ Resumed(t)
    BY <1>5, <1>f, <2>1, <2>2, <2>5, DecideFacts
  <2>. QED  BY <1>5, <2>2, <2>3, <2>4, <2>5, DecideFacts
<1>6. ASSUME NEW t \in Thread, Finish(t) PROVE Phases'
  <2>1. Helping(t)
    BY <1>6, FinishFacts DEF Helping
  <2>. QED  BY <1>6, <1>f, <2>1, FinishFacts
<1>7. ASSUME NEW t \in Thread, NEW c, Call(t, c) PROVE Phases'
  <2>1. CASE /\ c.op = "dcss" /\ c # None /\ dpc'[t] = "cas" /\ op'[t] = c
    <3>1. Pending(t)' /\ ~Placed(t)' /\ ~Helping(t)'
      BY <2>1 DEF Pending, Swapping, Placed, Helping
    <3>. QED  BY <1>0, <1>7, <2>1, <3>1, CallFacts, PhasesFrame
  <2>2. CASE c # None /\ IsRead(c) /\ dpc'[t] = "read" /\ op'[t] = c /\ UNCHANGED desc
    <3>1. ~Pending(t)' /\ ~Helping(t)' /\ c.op = "read"
      BY <2>2 DEF Pending, Swapping, Helping, IsRead, ReadOf
    <3>. QED  BY <1>0, <1>7, <2>2, <3>1, CallFacts, PhasesFrame
  <2>3. CASE UNCHANGED <<desc, dpc, op, help>>
    BY <1>0, <2>3 DEF Phases, Placed, Pending, Swapping, Helping, OwnTag
  <2>. QED  BY <1>7, <2>1, <2>2, <2>3, CallFacts
<1>8. CASE UNCHANGED vars
  BY <1>0, <1>8 DEF vars, dcssVars, Phases, Placed, Pending, Swapping, Helping, OwnTag
<1>. QED
  BY <1>1, <1>2, <1>4, <1>5, <1>6, <1>7, <1>8 DEF Next, DcssStep

-----------------------------------------------------------------------------
(* An operation is put in place by its owner, which takes it back only     *)
(* when it is decided.  A descriptor stays as it is, with its outcome,     *)
(* until it is used for another operation, by a thread that has none.      *)
Places(u) == Cas(u) /\ dpc'[u] = "compare" /\ help'[u].tag = OwnTag(u)
Ends(u) == Finish(u) /\ help[u].tag = OwnTag(u)

Evolves(u) ==
  /\ Placed(u) => (Placed(u)' /\ SameOperation(desc'[u], desc[u])) \/ (Ends(u) /\ Over(u)' /\ UNCHANGED desc)
  /\ Placed(u)' => Placed(u) \/ Places(u)
  /\ Pending(u)' => Pending(u) \/ desc'[u].state = "UNDECIDED"
  /\ desc[u].seq <= desc'[u].seq
  /\ desc'[u].seq = desc[u].seq =>
       /\ SameOperation(desc'[u], desc[u])
       /\ desc[u].state \in Decided => desc'[u].state = desc[u].state
       /\ Over(u) => Over(u)'
  /\ desc'[u].seq # desc[u].seq => op[u] = None

LEMMA Evolution ==
  ASSUME Usage, DcssInv, [Next]_vars, NEW u \in Thread
  PROVE  Evolves(u)
<1>0. desc[u].seq \in Nat
  BY DEF DcssInv, TypeOK, Operation, NoOperation
<1>o. ASSUME NEW t \in Thread \ {u}, Alone(t), desc'[u] = desc[u] PROVE Evolves(u)
  <2>1. /\ Pending(u)' <=> Pending(u)
        /\ Placed(u)' <=> Placed(u)
    BY <1>o, OthersPlaced
  <2>. QED  BY <1>0, <1>o, <2>1 DEF Evolves, SameOperation, Over
<1>f. ASSUME Alone(u), UNCHANGED desc, ~Placed(u),
             (\E v \in Thread : Met(u, v)) \/ Resumed(u) \/ Returned(u)
      PROVE  Evolves(u)
  <2>1. ~Placed(u)'
    BY <1>f, Unplaced
  <2>2. Pending(u)' => Pending(u)
    BY <1>f DEF Met, Resumed, Returned, Pending, Swapping
  <2>. QED  BY <1>0, <1>f, <2>1, <2>2 DEF Evolves, SameOperation, Over
<1>h. ASSUME Alone(u), UNCHANGED <<desc, op>>, Helping(u), Helping(u)', help'[u].tag = help[u].tag
      PROVE  Evolves(u)
  <2>1. /\ Pending(u)' <=> Pending(u)
        /\ Placed(u)' <=> Placed(u)
    BY <1>h DEF Pending, Swapping, Placed, OwnTag
  <2>. QED  BY <1>0, <1>h, <2>1 DEF Evolves, SameOperation, Over
<1>r. Resumed(u) => ~Placed(u)
  BY DEF Resumed, Placed
<1>1. ASSUME NEW t \in Thread, DcssRead(t) PROVE Evolves(u)
  <2>1. dpc[t] = "read" /\ Alone(t) /\ UNCHANGED desc
    BY <1>1, ReadFacts
  <2>2. ~Placed(t)
    BY <2>1 DEF Placed, Helping
  <2>. QED  BY <1>1, <1>o, <1>f, <2>1, <2>2, ReadFacts
<1>2. ASSUME NEW t \in Thread, Cas(t) PROVE Evolves(u)
  <2>1. CASE t = u /\ dpc'[u] = "compare" /\ help'[u].tag = OwnTag(u) /\ UNCHANGED op
    <3>1. Pending(u)' <=> Pending(u)
      BY <2>1 DEF Pending, Swapping
    <3>2. ~Placed(u) /\ UNCHANGED desc
      BY <1>2, <2>1, CasFacts
    <3>. QED  BY <1>0, <1>2, <2>1, <3>1, <3>2 DEF Evolves, Places, SameOperation, Over
  <2>. QED  BY <1>2, <1>o, <1>f, <2>1, CasFacts
<1>4. ASSUME NEW t \in Thread, Copy(t) \/ Check(t) \/ Compare(t) \/ LookAtSeq(t) PROVE Evolves(u)
  <2>1. Helping(t) /\ Alone(t) /\ UNCHANGED desc
    BY <1>4, CopyFacts, CheckFacts, CompareFacts, LookFacts DEF Helping
  <2>2. \/ help'[t].tag = help[t].tag /\ Helping(t)' /\ UNCHANGED op
        \/ Resumed(t)
    BY <1>4, CopyFacts, CheckFacts, CompareFacts, LookFacts DEF Helping
  <2>. QED  BY <1>o, <1>f, <1>h, <1>r, <2>1, <2>2
<1>5. ASSUME NEW t \in Thread, Decide(t) PROVE Evolves(u)
  <2>1. PICK v : v = help[t].tag[2]
    OBVIOUS
  <2>2. Helping(t) /\ Alone(t)
    BY <1>5, <2>1, DecideFacts DEF Helping
  <2>3. CASE /\ v \in Thread /\ Placed(v) /\ desc[v].state = "UNDECIDED"
             /\ StateSet(t, v)
             /\ SameOperation(desc'[v], desc[v])
             /\ dpc'[t] = "finish" /\ UNCHANGED <<op, help, answer>>
    <3>1. SameOperation(desc'[u], desc[u]) /\ (u # v => desc'[u] = desc[u])
      BY <2>3 DEF StateSet, SameOperation, DcssInv, TypeOK
    <3>2. OwnTag(u)' = OwnTag(u) /\ desc'[u].seq = desc[u].seq
      BY <3>1 DEF OwnTag, SameOperation
    <3>3. Pending(u)' <=> Pending(u)
      BY <2>3 DEF Pending, Swapping
    <3>4. Placed(u)' <=> Placed(u)
      BY <2>2, <2>3, <3>2, <3>3 DEF Placed, Helping, Alone
    <3>5. u = v => Pending(u) /\ desc[u].state \notin Decided
      BY <2>3 DEF Placed, Decided
    <3>. QED  BY <1>0, <3>1, <3>2, <3>3, <3>4, <3>5 DEF Evolves, Over
  <2>4. CASE /\ dpc'[t] = "finish" /\ help'[t].tag = help[t].tag /\ UNCHANGED <<desc, op>>
    BY <1>o, <1>h, <2>2, <2>4 DEF Helping
  <2>5. CASE UNCHANGED desc /\ Resumed(t)
    BY <1>o, <1>f, <1>r, <2>2, <2>5
  <2>. QED  BY <1>5, <2>1, <2>3, <2>4, <2>5, DecideFacts
<1>6. ASSUME NEW t \in Thread, Finish(t) PROVE Evolves(u)
  <2>1. PICK v : v = help[t].tag[2]
    OBVIOUS
  <2>2. dpc[t] = "finish" /\ Alone(t) /\ UNCHANGED desc
    BY <1>6, <2>1, FinishFacts
  <2>3. CASE t = u /\ v = t /\ Placed(t) /\ desc[t].state = help[t].state /\ Returned(t)
    <3>1. help[t].state \in Decided
      BY <2>2, HelperFacts DEF Helping, View
    <3>2. ~Pending(u)' /\ ~Placed(u)'
      BY <2>3 DEF Returned, Pending, Swapping, Placed
    <3>3. Over(u)' /\ Ends(u)
      BY <1>6, <2>2, <2>3, <3>1, <3>2 DEF Over, Ends, Placed
    <3>. QED  BY <1>0, <2>2, <3>2, <3>3 DEF Evolves, SameOperation, Over
  <2>. QED  BY <1>6, <1>o, <1>f, <1>r, <2>1, <2>2, <2>3, FinishFacts
<1>7. ASSUME NEW t \in Thread, NEW c, Call(t, c) PROVE Evolves(u)
  <2>1. dpc[t] = "idle" /\ op[t] = None /\ Alone(t)
    BY <1>7, CallFacts
  <2>2. ~Pending(t) /\ ~Placed(t)
    BY <2>1 DEF Pending, Swapping, Placed
  <2>3. CASE t = u /\ dpc'[t] = "cas" /\ desc'[t].state = "UNDECIDED" /\ desc'[t].seq = desc[t].seq + 1
    <3>1. ~Placed(t)'
      BY <2>3 DEF Placed, Helping
    <3>. QED  BY <1>0, <2>1, <2>2, <2>3, <3>1 DEF Evolves
  <2>4. CASE t = u /\ IsRead(c) /\ op'[t] = c /\ UNCHANGED desc
    <3>1. ~Placed(t)' /\ ~Pending(t)'
      BY <2>4 DEF Placed, Pending, Swapping, IsRead, ReadOf
    <3>. QED  BY <1>0, <2>1, <2>2, <2>4, <3>1 DEF Evolves, SameOperation, Over
  <2>5. CASE UNCHANGED <<desc, dpc, op, help>>
    BY <1>0, <2>5 DEF Evolves, SameOperation, Over, Placed, Pending, Swapping, Helping, OwnTag
  <2>. QED  BY <1>7, <1>o, <2>1, <2>3, <2>4, <2>5, CallFacts
<1>8. CASE UNCHANGED vars
  BY <1>0, <1>8 DEF vars, dcssVars, Evolves, SameOperation, Over, Placed, Pending, Swapping, Helping, OwnTag
<1>. QED
  BY <1>1, <1>2, <1>4, <1>5, <1>6, <1>7, <1>8 DEF Next, DcssStep

-----------------------------------------------------------------------------
(* What may happen to a word: a tag is put in, or taken away when its      *)
(* operation is decided, or it is written and operations only compare it.  *)
PutIn(a, t) ==
  /\ Places(t) /\ Placed(t)' /\ UNCHANGED <<desc, op>> /\ a = desc[t].addr2
  /\ word[a] = Plain(desc[t].old2) /\ word'[a] = OwnTag(t)
TakenAway(a, u) ==
  /\ Placed(u) /\ desc[u].state \in Decided /\ UNCHANGED desc /\ a = desc[u].addr2
  /\ word[a] = OwnTag(u)
  /\ word'[a] = Plain(IF desc[u].state = "SUCCEEDED" THEN desc[u].new2 ELSE desc[u].old2)
PlainWrite(a) ==
  /\ a \notin Target /\ UNCHANGED <<desc, dpc, op, help, answer>>
  /\ \E v \in Value : word'[a] = Plain(v)

LEMMA WordChanges ==
  ASSUME Usage, DcssInv, [Next]_vars, NEW a \in Addr
  PROVE  \/ word'[a] = word[a]
         \/ \E u \in Thread : PutIn(a, u) \/ TakenAway(a, u)
         \/ PlainWrite(a)
<1>1. ASSUME NEW t \in Thread, Cas(t), word'[a] # word[a] PROVE PutIn(a, t)
  <2>1. /\ word[desc[t].addr2] = Plain(desc[t].old2) /\ UNCHANGED <<desc, op>>
        /\ word' = [word EXCEPT ![desc[t].addr2] = OwnTag(t)]
        /\ dpc'[t] = "compare" /\ help'[t].tag = OwnTag(t) /\ Pending(t)
    BY <1>1, CasFacts
  <2>2. a = desc[t].addr2 /\ word'[a] = OwnTag(t)
    BY <1>1, <2>1 DEF DcssInv, TypeOK
  <2>3. Placed(t)'
    BY <2>1 DEF Placed, Pending, Swapping, Helping, OwnTag
  <2>. QED  BY <1>1, <2>1, <2>2, <2>3 DEF PutIn, Places
<1>2. ASSUME NEW t \in Thread, Finish(t), word'[a] # word[a] PROVE \E u \in Thread : TakenAway(a, u)
  <2>1. PICK u : u = help[t].tag[2]
    OBVIOUS
  <2>2. ~UNCHANGED word
    BY <1>2
  <2>3. u \in Thread /\ Placed(u) /\ desc[u].state = help[t].state /\ help[t].state \in Decided /\ TagTaken(u)
    BY <1>2, <2>1, <2>2, FinishFacts
  <2>4. UNCHANGED desc
    BY <1>2, <2>1, FinishFacts
  <2>5. a = desc[u].addr2
    BY <1>2, <2>3 DEF TagTaken, DcssInv, TypeOK
  <2>. QED  BY <2>3, <2>4, <2>5 DEF TagTaken, TakenAway, DcssInv, TypeOK
<1>3. ASSUME NEW t \in Thread, NEW c, Call(t, c), word'[a] # word[a] PROVE PlainWrite(a)
  <2>1. /\ c.addr \in Addr \ Target /\ c.new \in Value /\ word' = [word EXCEPT ![c.addr] = Plain(c.new)]
        /\ UNCHANGED <<desc, dpc, op, help, answer>>
    BY <1>3, CallFacts
  <2>. QED  BY <1>3, <2>1 DEF PlainWrite, DcssInv, TypeOK
<1>4. ASSUME NEW t \in Thread,
             DcssRead(t) \/ Copy(t) \/ Check(t) \/ Compare(t) \/ LookAtSeq(t) \/ Decide(t)
      PROVE  UNCHANGED word
  BY <1>4, ReadFacts, CopyFacts, CheckFacts, CompareFacts, LookFacts, DecideFacts
<1>5. CASE UNCHANGED vars
  BY <1>5 DEF vars, dcssVars
<1>. QED
  BY <1>1, <1>2, <1>3, <1>4, <1>5 DEF Next, DcssStep

(* No tag is left behind.                                                  *)
LEMMA EndsClean ==
  ASSUME Usage, DcssInv, NEW u \in Thread, Ends(u), NEW a \in Addr
  PROVE  word'[a] # OwnTag(u)
<1>1. PICK v : v = help[u].tag[2]
  OBVIOUS
<1>2. Helping(u) /\ v = u
  BY <1>1, FinishFacts, HelperFacts DEF Ends, Helping
<1>3. CASE UNCHANGED word /\ \A b \in Addr : word[b] # help[u].tag
  BY <1>3 DEF Ends
<1>4. CASE TagTaken(u)
  <2>1. CASE a = desc[u].addr2
    <3>1. ~IsTag(word'[a])
      BY <1>4, <2>1, WordForm DEF TagTaken, DcssInv, TypeOK
    <3>. QED  BY <3>1, WordForm DEF OwnTag
  <2>2. CASE a # desc[u].addr2
    <3>1. ASSUME word[a] = OwnTag(u) PROVE FALSE
      <4>1. IsTag(word[a])
        BY <3>1, WordForm DEF OwnTag
      <4>2. PICK w \in Thread : word[a] = OwnTag(w) /\ desc[w].addr2 = a
        BY <4>1 DEF DcssInv, InPlace
      <4>. QED  BY <2>2, <3>1, <4>2, OwnTags
    <3>. QED  BY <1>4, <2>2, <3>1 DEF TagTaken, DcssInv, TypeOK
  <2>. QED  BY <2>1, <2>2
<1>. QED  BY <1>1, <1>2, <1>3, <1>4, FinishFacts DEF Ends

(* A tag in a word is still that of an operation in progress.              *)
LEMMA InPlaceStep ==
  ASSUME Usage, DcssInv, [Next]_vars
  PROVE  InPlace'
<1> SUFFICES ASSUME NEW a \in Addr, IsTag(word'[a])
             PROVE  \E u \in Thread : word'[a] = OwnTag(u)' /\ Placed(u)' /\ desc'[u].addr2 = a
  BY DEF InPlace
<1>1. CASE word'[a] = word[a]
  <2>1. PICK u \in Thread : word[a] = OwnTag(u) /\ Placed(u) /\ desc[u].addr2 = a
    BY <1>1 DEF DcssInv, InPlace
  <2>2. ~Ends(u)
    BY <1>1, <2>1, EndsClean
  <2>3. Placed(u)' /\ SameOperation(desc'[u], desc[u])
    BY <2>1, <2>2, Evolution DEF Evolves
  <2>. QED  BY <1>1, <2>1, <2>3 DEF SameOperation, OwnTag
<1>2. ASSUME NEW t \in Thread, PutIn(a, t)
      PROVE  \E u \in Thread : word'[a] = OwnTag(u)' /\ Placed(u)' /\ desc'[u].addr2 = a
  BY <1>2 DEF PutIn, OwnTag
<1>3. ASSUME NEW u \in Thread, TakenAway(a, u) PROVE FALSE
  BY <1>3, WordForm DEF TakenAway
<1>4. CASE PlainWrite(a)
  BY <1>4, WordForm DEF PlainWrite
<1>. QED  BY <1>1, <1>2, <1>3, <1>4, WordChanges

(* Before an operation is decided nobody takes its tag away.               *)
LEMMA StaysStep ==
  ASSUME Usage, DcssInv, [Next]_vars
  PROVE  Stays'
<1> SUFFICES ASSUME NEW u \in Thread, Placed(u)', desc'[u].state = "UNDECIDED"
             PROVE  word'[desc'[u].addr2] = OwnTag(u)'
  BY DEF Stays
<1>1. CASE Placed(u)
  <2>1. SameOperation(desc'[u], desc[u])
    <3>1. ~Over(u)'
      BY DEF Over, Decided
    <3>. QED  BY <1>1, <3>1, Evolution DEF Evolves
  <2>2. desc[u].state = "UNDECIDED"
    <3>1. desc[u].state \in State
      BY DEF DcssInv, TypeOK, Operation, NoOperation, State
    <3>. QED  BY <2>1, <3>1, Evolution DEF Evolves, SameOperation, State, Decided
  <2> DEFINE a == desc[u].addr2
  <2>3. word[a] = OwnTag(u)
    BY <1>1, <2>2 DEF DcssInv, Stays
  <2>4. a \in Target /\ a \in Addr
    <3>1. a \in Target
      BY <1>1 DEF DcssInv, Phases, Placed, Operation
    <3>. QED  BY <3>1, CallForm DEF Target, IsDcss
  <2>5. ASSUME NEW t \in Thread PROVE ~PutIn(a, t)
    BY <2>3, WordForm DEF PutIn, OwnTag
  <2>6. ASSUME NEW v \in Thread PROVE ~TakenAway(a, v)
    BY <2>2, <2>3, OwnTags DEF TakenAway, Decided
  <2>7. ~PlainWrite(a)
    BY <2>4 DEF PlainWrite
  <2>8. word'[a] = word[a]
    BY <2>4, <2>5, <2>6, <2>7, WordChanges
  <2>. QED  BY <2>1, <2>3, <2>8 DEF SameOperation, OwnTag
<1>2. CASE ~Placed(u)
  <2>1. Places(u)
    BY <1>2, Evolution DEF Evolves
  <2>2. /\ word' = [word EXCEPT ![desc[u].addr2] = OwnTag(u)]
        /\ desc[u].addr2 \in Addr /\ UNCHANGED desc
    BY <2>1, CasFacts DEF Places, Met, Returned
  <2>. QED  BY <2>2 DEF OwnTag, DcssInv, TypeOK
<1>. QED  BY <1>1, <1>2

-----------------------------------------------------------------------------
(* An operation is decided while it is in place, by a thread whose view of *)
(* it is right.                                                            *)
LEMMA Decisions ==
  ASSUME Usage, DcssInv, [Next]_vars, NEW u \in Thread,
         Placed(u), desc[u].state = "UNDECIDED", desc'[u].state \in Decided
  PROVE  \/ desc'[u].state = "SUCCEEDED" /\ u \in matched
         \/ desc'[u].state = "FAILED" /\ u \in missed
<1>1. ASSUME NEW t \in Thread, Decide(t)
      PROVE  \/ desc'[u].state = "SUCCEEDED" /\ u \in matched
             \/ desc'[u].state = "FAILED" /\ u \in missed
  <2>1. PICK v : v = help[t].tag[2]
    OBVIOUS
  <2>2. ~UNCHANGED desc
    BY DEF Decided
  <2>3. /\ desc[v].seq = help[t].tag[3] /\ v \in Thread
        /\ StateSet(t, v) /\ desc'[v].state = help[t].state
        /\ dpc[t] = "decide"
    BY <1>1, <2>1, <2>2, DecideFacts
  <2>4. v = u
    BY <2>3 DEF StateSet, DcssInv, TypeOK, Decided
  <2>5. View(t)
    BY <2>3, HelperFacts DEF Helping
  <2>. QED  BY <2>1, <2>3, <2>4, <2>5 DEF View, Decided
<1>2. ASSUME NEW t \in Thread, NEW c, Call(t, c) PROVE FALSE
  <2>1. t # u
    BY <1>2, CallFacts DEF Placed, Helping
  <2>2. desc'[u] = desc[u]
    BY <1>2, <2>1, CallFacts
  <2>. QED  BY <2>2 DEF Decided
<1>3. ASSUME NEW t \in Thread,
             DcssRead(t) \/ Cas(t) \/ Copy(t) \/ Check(t) \/ Compare(t) \/ LookAtSeq(t) \/ Finish(t)
      PROVE  UNCHANGED desc
  BY <1>3, ReadFacts, CasFacts, CopyFacts, CheckFacts, CompareFacts, LookFacts, FinishFacts
<1>4. CASE UNCHANGED vars
  BY <1>4 DEF vars, dcssVars, Decided
<1>. QED
  BY <1>1, <1>2, <1>3, <1>4 DEF Next, DcssStep, Decided

(* The words of an operation in progress.                                  *)
LEMMA PendingForm ==
  ASSUME Usage, TypeOK, Phases, NEW u \in Thread, Pending(u)
  PROVE  /\ op[u] \in Called /\ op[u].op = "dcss" /\ IsDcss(op[u])
         /\ desc[u].addr1 = op[u].addr1 /\ desc[u].old1 = op[u].old1
         /\ desc[u].addr2 = op[u].addr2 /\ desc[u].old2 = op[u].old2 /\ desc[u].new2 = op[u].new2
         /\ desc[u].addr1 \in Addr \ Target /\ desc[u].addr2 \in Addr \cap Target
         /\ desc[u].state \in State
<1>1. op[u] \in Called /\ op[u].op = "dcss"
  BY DEF TypeOK, Pending, Swapping
<1>. QED  BY <1>1, CallForm DEF Phases, Operation, IsDcss

LEMMA PendingNext ==
  ASSUME Usage, DcssInv, [Next]_vars, NEW u \in Thread, Pending(u)'
  PROVE  /\ op'[u] \in Called /\ op'[u].op = "dcss" /\ IsDcss(op'[u])
         /\ desc'[u].addr1 = op'[u].addr1 /\ desc'[u].old1 = op'[u].old1
         /\ desc'[u].addr2 = op'[u].addr2 /\ desc'[u].old2 = op'[u].old2 /\ desc'[u].new2 = op'[u].new2
         /\ desc'[u].addr1 \in Addr \ Target /\ desc'[u].addr2 \in Addr \cap Target
         /\ desc'[u].state \in State
<1>0. TypeOK' /\ Phases'
  BY TypeStep, PhasesStep DEF DcssInv
<1>1. op'[u] \in Called /\ op'[u].op = "dcss"
  BY <1>0 DEF TypeOK, Pending, Swapping
<1>. QED  BY <1>0, <1>1, CallForm DEF Phases, Operation, IsDcss

(* What the words hold.                                                    *)
LEMMA HoldsFacts ==
  ASSUME NEW words, NEW descs, NEW a \in Addr
  PROVE  /\ ~IsTag(words[a]) => Holds(words, descs)[a] = words[a][2]
         /\ \A u, n : words[a] = Tag(u, n) =>
              Holds(words, descs)[a] = IF descs[u].state = "SUCCEEDED" THEN descs[u].new2 ELSE descs[u].old2
BY WordForm DEF Holds

(* The history of matches.                                                 *)
LEMMA MatchedStep ==
  ASSUME Usage, DcssInv, [Next]_vars
  PROVE  Matched'
<1>1. CASE UNCHANGED vars
  BY <1>1 DEF vars, dcssVars, DcssInv, Matched, Placed, Pending, Swapping, Helping, OwnTag
<1>2. CASE Next
  <2> SUFFICES ASSUME NEW u \in Thread
               PROVE  /\ u \in matched' => Placed(u)' /\ desc'[u].state = "UNDECIDED"
                      /\ Placed(u)' /\ desc'[u].state = "UNDECIDED" /\ word'[desc'[u].addr1] = Plain(desc'[u].old1)
                           => u \in matched'
    BY DEF Matched
  <2>1. u \in matched' <=> /\ Pending(u)' /\ word'[op'[u].addr2] = OwnTag(u)'
                           /\ desc'[u].state = "UNDECIDED"
                           /\ u \in matched \/ word'[op'[u].addr1] = Plain(op'[u].old1)
    BY <1>2 DEF Next, Note, Pending, OwnTag
  <2>2. ASSUME u \in matched' PROVE Placed(u)'
    <3>1. op'[u].addr2 \in Addr /\ IsTag(word'[op'[u].addr2])
      BY <2>1, <2>2, PendingNext, WordForm DEF OwnTag
    <3>2. PICK v \in Thread : word'[op'[u].addr2] = OwnTag(v)' /\ Placed(v)'
      BY <3>1, InPlaceStep DEF InPlace
    <3>3. v = u
      BY <2>1, <2>2, <3>2 DEF OwnTag, Tag
    <3>. QED  BY <3>2, <3>3
  <2>3. ASSUME Placed(u)', desc'[u].state = "UNDECIDED", word'[desc'[u].addr1] = Plain(desc'[u].old1)
        PROVE  u \in matched'
    <3>1. word'[desc'[u].addr2] = OwnTag(u)'
      BY <2>3, StaysStep DEF Stays
    <3>2. Pending(u)'
      BY <2>3 DEF Placed
    <3>. QED  BY <2>1, <2>3, <3>1, <3>2, PendingNext
  <2>. QED  BY <2>1, <2>2, <2>3
<1>. QED  BY <1>1, <1>2

(* It keeps those that have matched until they are decided; that of        *)
(* misses, until they return.                                              *)
LEMMA HistoryKept ==
  ASSUME Usage, DcssInv, [Next]_vars, NEW u \in Thread
  PROVE  /\ u \in matched /\ Placed(u)' /\ desc'[u].state = "UNDECIDED" => u \in matched'
         /\ u \in missed /\ Pending(u)' => u \in missed'
<1>1. CASE UNCHANGED vars
  BY <1>1 DEF vars
<1>2. CASE Next
  <2>1. ASSUME u \in matched, Placed(u)', desc'[u].state = "UNDECIDED" PROVE u \in matched'
    <3>1. word'[desc'[u].addr2] = OwnTag(u)' /\ Pending(u)'
      BY <2>1, StaysStep DEF Stays, Placed
    <3>2. word'[op'[u].addr2] = Tag(u, desc'[u].seq)
      BY <3>1, PendingNext DEF OwnTag
    <3>. QED  BY <1>2, <2>1, <3>1, <3>2 DEF Next, Note, Pending
  <2>. QED  BY <1>2, <2>1 DEF Next, Note, Pending
<1>. QED  BY <1>1, <1>2

LEMMA MissedStep ==
  ASSUME Usage, DcssInv, [Next]_vars
  PROVE  Missed'
<1>1. CASE UNCHANGED vars
  BY <1>1 DEF vars, dcssVars, DcssInv, Missed, Pending, Swapping, value
<1>2. CASE Next
  <2> SUFFICES ASSUME NEW u \in Thread
               PROVE  /\ u \in missed' => Pending(u)'
                      /\ Pending(u)' /\ (value'[desc'[u].addr1] # desc'[u].old1 \/ value'[desc'[u].addr2] # desc'[u].old2)
                           => u \in missed'
                      /\ Pending(u)' /\ desc'[u].state = "FAILED" => u \in missed'
    BY DEF Missed
  <2>1. u \in missed' <=> /\ Pending(u)'
                          /\ u \in missed \/ \E e \in Entries(op'[u]) : value'[e.addr] # e.old
    BY <1>2 DEF Next, Note, Pending, value
  <2>2. ASSUME Pending(u)', value'[desc'[u].addr1] # desc'[u].old1 \/ value'[desc'[u].addr2] # desc'[u].old2
        PROVE  u \in missed'
    BY <2>1, <2>2, PendingNext DEF Entries
  <2>3. ASSUME Pending(u)', desc'[u].state = "FAILED" PROVE u \in missed'
    <3>1. Pending(u) /\ desc'[u].seq = desc[u].seq
      BY <2>3, Evolution DEF Evolves, Pending, Swapping
    <3>2. CASE desc[u].state \in Decided
      BY <2>1, <2>3, <3>1, <3>2, Evolution DEF Evolves, DcssInv, Missed
    <3>3. CASE desc[u].state = "UNDECIDED"
      <4>1. Placed(u)'
        BY <2>3, PhasesStep DEF Phases
      <4>2. Placed(u)
        <5>1. ~Places(u)
          BY <2>3, <3>3, CasFacts DEF Places
        <5>. QED  BY <4>1, <5>1, Evolution DEF Evolves
      <4>. QED  BY <2>1, <2>3, <3>3, <4>2, Decisions DEF Decided
    <3>. QED  BY <3>1, <3>2, <3>3, PendingForm DEF DcssInv, State
  <2>. QED  BY <2>1, <2>2, <2>3
<1>. QED  BY <1>1, <1>2

-----------------------------------------------------------------------------
(* A step is one of t's own, or leaves t and its record where they are.    *)
LEMMA Moves ==
  ASSUME Usage, DcssInv, [Next]_vars, NEW t \in Thread, Helping(t)'
  PROVE  DcssStep(t) \/ (dpc'[t] = dpc[t] /\ help'[t] = help[t])
<1>1. ASSUME NEW u \in Thread \ {t}, Alone(u) PROVE dpc'[t] = dpc[t] /\ help'[t] = help[t]
  BY <1>1 DEF Alone
<1>2. ASSUME NEW u \in Thread, DcssStep(u) PROVE Alone(u)
  BY <1>2, ReadFacts, CasFacts, CopyFacts, CheckFacts, CompareFacts, LookFacts, DecideFacts, FinishFacts
  DEF DcssStep
<1>3. ASSUME NEW u \in Thread, NEW c, Call(u, c) PROVE dpc'[t] = dpc[t] /\ help'[t] = help[t]
  BY <1>1, <1>3, CallFacts DEF Helping
<1>4. CASE UNCHANGED vars
  BY <1>4 DEF vars, dcssVars
<1>. QED  BY <1>1, <1>2, <1>3, <1>4 DEF Next

(* What a helper knows of the operation remains true while it keeps its    *)
(* tag.                                                                    *)
LEMMA TagKept ==
  ASSUME Usage, DcssInv, [Next]_vars, NEW t \in Thread, Helping(t), NEW u, u = help[t].tag[2]
  PROVE  /\ u \in Thread
         /\ desc[u].seq \in Nat /\ desc'[u].seq \in Nat /\ help[t].tag[3] \in Nat
         /\ help[t].tag[3] <= desc[u].seq /\ desc[u].seq <= desc'[u].seq
         /\ desc'[u].seq = desc[u].seq => SameOperation(desc'[u], desc[u])
         /\ help[t].tag[3] = desc'[u].seq =>
              /\ desc'[u].seq = desc[u].seq
              /\ Placed(u)' \/ Over(u)'
              /\ desc[u].state \in Decided => desc'[u].state = desc[u].state
              /\ desc'[u].state = "UNDECIDED" =>
                   /\ desc[u].state = "UNDECIDED" /\ Placed(u)
                   /\ u \in matched => u \in matched'
                   /\ u \in missed => u \in missed'
<1>1. u \in Thread /\ View(t) /\ help[t].tag[3] \in Nat
  BY HelperFacts
<1>2. desc[u].seq \in Nat /\ desc'[u].seq \in Nat /\ desc[u].state \in State
  <2>1. TypeOK /\ TypeOK'
    BY TypeStep DEF DcssInv
  <2>2. desc[u] \in Operation \cup {NoOperation} /\ desc'[u] \in Operation \cup {NoOperation}
    BY <1>1, <2>1 DEF TypeOK
  <2>. QED  BY <2>2 DEF Operation, NoOperation, State
<1>3. Evolves(u)
  BY <1>1, Evolution
<1>4. help[t].tag[3] <= desc[u].seq /\ desc[u].seq <= desc'[u].seq
  BY <1>1, <1>3 DEF View, Evolves
<1>5. ASSUME help[t].tag[3] = desc'[u].seq
      PROVE  /\ desc'[u].seq = desc[u].seq
             /\ Placed(u)' \/ Over(u)'
             /\ desc[u].state \in Decided => desc'[u].state = desc[u].state
  <2>1. desc'[u].seq = desc[u].seq
    BY <1>1, <1>2, <1>4, <1>5
  <2>2. Placed(u) \/ Over(u)
    BY <1>1, <1>5, <2>1 DEF View
  <2>. QED  BY <1>3, <2>1, <2>2 DEF Evolves
<1>6. ASSUME help[t].tag[3] = desc'[u].seq, desc'[u].state = "UNDECIDED"
      PROVE  /\ desc[u].state = "UNDECIDED" /\ Placed(u)
             /\ u \in matched => u \in matched'
             /\ u \in missed => u \in missed'
  <2>1. desc[u].state = "UNDECIDED"
    BY <1>2, <1>5, <1>6 DEF State, Decided
  <2>2. Placed(u) /\ Placed(u)'
    BY <1>1, <1>5, <1>6, <2>1 DEF View, Over, Decided
  <2>3. Pending(u)'
    BY <2>2 DEF Placed
  <2>. QED  BY <1>1, <1>6, <2>1, <2>2, <2>3, HistoryKept
<1>. QED  BY <1>1, <1>2, <1>3, <1>4, <1>5, <1>6 DEF Evolves

(* What every thread knows is still true.                                  *)
LEMMA ViewsStep ==
  ASSUME Usage, DcssInv, [Next]_vars
  PROVE  Views'
<1> SUFFICES ASSUME NEW t \in Thread, Helping(t)' PROVE View(t)'
  BY DEF Views
<1>1. CASE dpc'[t] = dpc[t] /\ help'[t] = help[t]
  <2>1. Helping(t)
    BY <1>1 DEF Helping
  <2>2. View(t)
    BY <2>1, HelperFacts
  <2>3. PICK u : u = help[t].tag[2]
    OBVIOUS
  <2>4. ASSUME dpc[t] # "copy"
        PROVE  /\ help[t].copy.seq <= desc'[u].seq
               /\ help[t].copy.seq = desc'[u].seq => SameOperation(help[t].copy, desc'[u])
    <3>1. help[t].copy.seq \in Nat
      BY <2>1, <2>4, HelperFacts DEF Operation
    <3>. QED  BY <2>1, <2>2, <2>3, <2>4, <3>1, TagKept DEF View, SameOperation
  <2>. QED  BY <1>1, <2>1, <2>2, <2>3, <2>4, TagKept DEF View
<1>2. CASE DcssRead(t) \/ Cas(t)
  <2>1. PICK u \in Thread : Met(t, u) \/ (u = t /\ Cas(t) /\ dpc'[t] = "compare")
    BY <1>2, ReadFacts, CasFacts DEF Helping, Returned
  <2>2. UNCHANGED desc /\ Alone(t)
    BY <1>2, ReadFacts, CasFacts
  <2>3. desc[u].seq \in Nat
    BY DEF DcssInv, TypeOK, Operation, NoOperation
  <2>4. CASE Met(t, u)
    <3>1. Placed(u)'
      BY <2>2, <2>4, OthersPlaced DEF Met
    <3>2. help'[t].tag[2] = u /\ help'[t].tag[3] = desc[u].seq /\ dpc'[t] = "copy"
      BY <2>4, WordForm DEF Met, Help, OwnTag
    <3>. QED  BY <2>2, <2>3, <3>1, <3>2 DEF View
  <2>5. CASE u = t /\ Cas(t) /\ dpc'[t] = "compare"
    <3>1. help'[t].tag = OwnTag(t) /\ help'[t].copy = desc[t] /\ Pending(t) /\ desc[t] \in Operation /\ UNCHANGED op
      BY <2>5, CasFacts DEF Met, Returned
    <3>2. help'[t].tag[2] = t /\ help'[t].tag[3] = desc[t].seq
      BY <3>1, WordForm DEF OwnTag
    <3>3. Placed(t)'
      BY <2>2, <3>1 DEF Placed, Pending, Swapping, OwnTag
    <3>. QED  BY <2>2, <2>3, <2>5, <3>1, <3>2, <3>3 DEF View, SameOperation
  <2>. QED  BY <2>1, <2>4, <2>5
<1>3. CASE Copy(t)
  <2>1. PICK u : u = help[t].tag[2]
    OBVIOUS
  <2>2. /\ Helping(t) /\ UNCHANGED desc /\ dpc'[t] = "check"
        /\ help'[t].tag = help[t].tag /\ help'[t].copy = desc[u]
    BY <1>3, <2>1, CopyFacts DEF Helping
  <2>3. help'[t].copy \in Operation
    <3>1. u \in Thread /\ help[t].tag[3] \in Nat \ {0} /\ help[t].tag[3] <= desc[u].seq
      BY <2>1, <2>2, HelperFacts DEF View
    <3>2. desc[u] \in Operation \cup {NoOperation}
      BY <3>1 DEF DcssInv, TypeOK
    <3>3. desc[u] # NoOperation
      BY <3>1 DEF NoOperation
    <3>. QED  BY <2>2, <3>2, <3>3
  <2>. QED  BY <2>1, <2>2, <2>3, TagKept DEF View, SameOperation
<1>4. CASE Check(t)
  <2>1. PICK u : u = help[t].tag[2]
    OBVIOUS
  <2>2. /\ dpc[t] = "check" /\ Helping(t) /\ UNCHANGED desc
        /\ desc[u].seq = help[t].tag[3] /\ dpc'[t] = "compare" /\ UNCHANGED help
    BY <1>4, <2>1, CheckFacts DEF Helping, Resumed
  <2>3. View(t) /\ help[t].copy.seq \in Nat
    BY <2>2, HelperFacts DEF Operation
  <2>. QED  BY <2>1, <2>2, <2>3, TagKept DEF View
<1>5. CASE Compare(t)
  <2>1. PICK u : u = help[t].tag[2]
    OBVIOUS
  <2> DEFINE d == help[t].copy
  <2>2. /\ dpc[t] = "compare" /\ Helping(t) /\ UNCHANGED <<word, desc>> /\ dpc'[t] = "look"
        /\ help'[t].tag = help[t].tag /\ help'[t].copy = d
        /\ help'[t].state = IF word[d.addr1] = Plain(d.old1) THEN "SUCCEEDED" ELSE "FAILED"
    BY <1>5, CompareFacts DEF Helping
  <2>3. View(t) /\ d.seq = help[t].tag[3] /\ d \in Operation
    BY <2>2, HelperFacts DEF View
  <2>4. ASSUME help[t].tag[3] = desc'[u].seq, desc'[u].state = "UNDECIDED"
        PROVE  IF help'[t].state = "SUCCEEDED" THEN u \in matched' ELSE u \in missed'
    <3>1. u \in Thread /\ desc[u].state = "UNDECIDED" /\ Placed(u) /\ SameOperation(d, desc[u])
      BY <2>1, <2>2, <2>3, <2>4, TagKept DEF View
    <3>2. CASE word[d.addr1] = Plain(d.old1)
      <4>1. u \in matched
        BY <3>1, <3>2 DEF DcssInv, Matched, SameOperation
      <4>. QED  BY <2>1, <2>2, <2>4, <3>2, <4>1, TagKept
    <3>3. CASE word[d.addr1] # Plain(d.old1)
      <4>1. d.addr1 \in Addr \ Target /\ d.addr1 = desc[u].addr1 /\ d.old1 = desc[u].old1
        BY <2>3, <3>1 DEF Operation, SameOperation
      <4>2. word[d.addr1] = Plain(word[d.addr1][2])
        BY <4>1, PlainWords DEF DcssInv
      <4>3. value[d.addr1] = word[d.addr1][2]
        BY <4>1, <4>2, HoldsFacts, WordForm DEF value
      <4>4. value[desc[u].addr1] # desc[u].old1
        BY <3>3, <4>1, <4>2, <4>3
      <4>5. u \in missed
        BY <3>1, <4>4 DEF DcssInv, Missed, Placed
      <4>. QED  BY <2>1, <2>2, <2>4, <3>3, <4>5, TagKept
    <3>. QED  BY <3>2, <3>3
  <2>5. help'[t].state \in Decided
    BY <2>2 DEF Decided
  <2>. QED  BY <2>1, <2>2, <2>3, <2>4, <2>5, TagKept DEF View
<1>6. CASE LookAtSeq(t)
  <2>1. PICK u : u = help[t].tag[2]
    OBVIOUS
  <2>2. dpc[t] = "look" /\ Helping(t) /\ UNCHANGED desc /\ dpc'[t] = "decide" /\ UNCHANGED help
    BY <1>6, LookFacts DEF Helping, Resumed
  <2>3. View(t)
    BY <2>2, HelperFacts
  <2>. QED  BY <2>1, <2>2, <2>3, TagKept DEF View
<1>7. CASE Decide(t)
  <2>1. PICK u : u = help[t].tag[2]
    OBVIOUS
  <2>2. dpc[t] = "decide" /\ Helping(t) /\ dpc'[t] = "finish"
    BY <1>7, <2>1, DecideFacts DEF Helping, Resumed
  <2>3. View(t) /\ help[t].copy.seq \in Nat /\ help[t].copy \in Operation
    BY <2>2, HelperFacts DEF Operation
  <2>4. /\ help'[t].tag = help[t].tag /\ help'[t].copy = help[t].copy /\ help'[t].state \in Decided
        /\ help[t].tag[3] = desc'[u].seq => desc'[u].state = help'[t].state
    <3>1. CASE /\ desc'[u].state = help[t].state /\ help[t].state \in Decided /\ UNCHANGED help
      BY <3>1
    <3>2. CASE /\ desc[u].state \in Decided /\ help'[t].tag = help[t].tag /\ help'[t].copy = help[t].copy
               /\ help'[t].state = desc[u].state /\ UNCHANGED desc
      BY <3>2
    <3>3. ~Resumed(t)
      BY <2>2 DEF Resumed
    <3>. QED  BY <1>7, <2>1, <3>1, <3>2, <3>3, DecideFacts
  <2>. QED  BY <2>1, <2>2, <2>3, <2>4, TagKept DEF View, SameOperation
<1>8. CASE Finish(t)
  BY <1>8, FinishFacts DEF Helping, Returned, Resumed
<1>. QED  BY <1>1, <1>2, <1>3, <1>4, <1>5, <1>6, <1>7, <1>8, Moves DEF DcssStep

-----------------------------------------------------------------------------
(* At first every word is a value and nobody has called anything.          *)
LEMMA InitialInvariant ==
  ASSUME Usage, Init
  PROVE  DcssInv
<1>1. TypeOK
  BY DEF Usage, Init, DcssInit, TypeOK, Words, Stage
<1>2. \A a \in Addr : ~IsTag(word[a])
  BY WordForm DEF Init
<1>3. Phases /\ Stays /\ Views /\ Matched /\ Missed
  BY DEF Init, DcssInit, Phases, Stays, Views, Matched, Missed, Placed, Pending, Swapping, Helping
<1>. QED  BY <1>1, <1>2, <1>3 DEF DcssInv, InPlace

LEMMA StepInvariant ==
  ASSUME Usage, DcssInv, [Next]_vars
  PROVE  DcssInv'
BY TypeStep, PhasesStep, InPlaceStep, StaysStep, ViewsStep, MatchedStep, MissedStep DEF DcssInv

(* The invariant holds: only the helpers of an undecided operation can     *)
(* decide it, and they know what it is to become.                          *)
THEOREM DcssInvariance == ASSUME Usage PROVE Spec => []DcssInv
<1>1. Init => DcssInv
  BY InitialInvariant
<1>2. DcssInv /\ [Next]_vars => DcssInv'
  BY StepInvariant
<1>. QED  BY <1>1, <1>2, PTL DEF Spec

-----------------------------------------------------------------------------
(* What AtomicWords takes for the requests and for the operations done.    *)
Req(c) ==
  IF c = None THEN None
  ELSE IF c.op = "read" THEN c
  ELSE [op |-> "swap", entries |-> Entries(c)]
Request == [t \in Thread |-> Req(op[t])]
Done == {t \in Thread : Swapping(op[t]) /\ desc[t].state = "SUCCEEDED"}
Answered(ans) == IF ans = None \/ ans[1] = "read" THEN ans ELSE <<"swap", ans[1] = "SUCCESS">>

(* A DCSS asks for two entries, of which only the second may change        *)
(* anything.                                                               *)
LEMMA SwapForm ==
  ASSUME Usage, NEW c \in Called, c.op = "dcss", NEW r, r = Req(c)
  PROVE  /\ Abstract!Swaps(r) /\ r = Abstract!Swapping(Entries(c)) /\ r.entries = Entries(c)
         /\ Entries(c) \subseteq Abstract!Entry
         /\ \A words : Abstract!Matches(words, Entries(c)) <=> words[c.addr1] = c.old1 /\ words[c.addr2] = c.old2
         /\ \A e \in Abstract!Changed(Entries(c)) : e.addr = c.addr2 /\ e.new = c.new2
         /\ c.new2 # c.old2 => \E e \in Abstract!Changed(Entries(c)) : e.addr = c.addr2
<1>1. c # None /\ IsDcss(c)
  BY CallForm
<1>2. r = [op |-> "swap", entries |-> Entries(c)]
  BY <1>1 DEF Req
<1>3. Abstract!Swaps(r) /\ r = Abstract!Swapping(Entries(c)) /\ r.entries = Entries(c)
  BY <1>2 DEF Abstract!Swaps, Abstract!Swapping, Usage
<1>4. Entries(c) \subseteq Abstract!Entry
  BY <1>1 DEF Entries, IsDcss, Abstract!Entry
<1>5. \A words : Abstract!Matches(words, Entries(c)) <=> words[c.addr1] = c.old1 /\ words[c.addr2] = c.old2
  BY DEF Entries, Abstract!Matches
<1>6. \A e \in Abstract!Changed(Entries(c)) : e.addr = c.addr2 /\ e.new = c.new2
  BY DEF Entries, Abstract!Changed
<1>7. ASSUME c.new2 # c.old2 PROVE \E e \in Abstract!Changed(Entries(c)) : e.addr = c.addr2
  <2> DEFINE e == [addr |-> c.addr2, old |-> c.old2, new |-> c.new2]
  <2>1. e \in Entries(c) /\ e.addr = c.addr2 /\ e.new # e.old
    BY <1>7 DEF Entries
  <2>. QED  BY <2>1 DEF Abstract!Changed
<1>. QED  BY <1>3, <1>4, <1>5, <1>6, <1>7

(* Other requests are not for a swap.                                      *)
LEMMA RequestForm ==
  ASSUME Usage, NEW c \in Called \cup {None}, c = None \/ c.op \in {"dcss", "read"}
  PROVE  /\ Abstract!Swaps(Req(c)) <=> Swapping(c)
         /\ Req(c) = None <=> c = None
         /\ Swapping(c) <=> c # None /\ c.op = "dcss"
<1>1. CASE c # None /\ c.op = "dcss"
  BY <1>1, SwapForm DEF Swapping, Abstract!Swaps
<1>2. CASE c = None \/ (c # None /\ c.op = "read")
  BY <1>2 DEF Swapping, Abstract!Swaps, Req
<1>. QED  BY <1>1, <1>2

(* The same in a state, and in the next one.                               *)
LEMMA Requests ==
  ASSUME Usage, TypeOK, Phases, NEW t \in Thread
  PROVE  /\ Abstract!Swaps(Request[t]) <=> Pending(t)
         /\ Pending(t) => Request[t].entries = Entries(op[t])
         /\ Request[t] = None <=> op[t] = None
<1>1. op[t] \in Called \cup {None} /\ (op[t] = None \/ op[t].op \in {"dcss", "read"})
  BY DEF TypeOK, Phases
<1>2. Request[t] = Req(op[t])
  BY DEF Request
<1>. QED  BY <1>1, <1>2, RequestForm, SwapForm DEF Pending

LEMMA RequestsNext ==
  ASSUME Usage, DcssInv, [Next]_vars, NEW t \in Thread
  PROVE  /\ Abstract!Swaps(Request'[t]) <=> Pending(t)'
         /\ Pending(t)' => Request'[t].entries = Entries(op'[t])
<1>1. op'[t] \in Called \cup {None} /\ (op'[t] = None \/ op'[t].op \in {"dcss", "read"})
  BY TypeStep, PhasesStep DEF DcssInv, TypeOK, Phases
<1>2. Request'[t] = Req(op'[t])
  BY DEF Request
<1>. QED  BY <1>1, <1>2, RequestForm, SwapForm DEF Pending

(* The second entry of an operation in place is not yet written, nor is it *)
(* when it fails.                                                          *)
LEMMA HeldValue ==
  ASSUME Usage, DcssInv, NEW u \in Thread, Placed(u), desc[u].state = "UNDECIDED"
  PROVE  value[desc[u].addr2] = desc[u].old2
<1>1. Pending(u) /\ word[desc[u].addr2] = Tag(u, desc[u].seq)
  BY DEF DcssInv, Placed, Stays, OwnTag
<1>2. desc[u].addr2 \in Addr
  BY <1>1, PendingForm DEF DcssInv
<1>. QED  BY <1>1, <1>2, HoldsFacts DEF value

LEMMA HeldValueNext ==
  ASSUME Usage, DcssInv, [Next]_vars, NEW u \in Thread, Placed(u)', desc'[u].state = "UNDECIDED"
  PROVE  value'[desc'[u].addr2] = desc'[u].old2
<1>1. Pending(u)' /\ word'[desc'[u].addr2] = Tag(u, desc'[u].seq)
  BY StaysStep DEF Placed, Stays, OwnTag
<1>2. desc'[u].addr2 \in Addr
  BY <1>1, PendingNext
<1>. QED  BY <1>1, <1>2, HoldsFacts DEF value

(* Two operations in progress that have matched have different words.      *)
LEMMA MatchedApart ==
  ASSUME DcssInv, NEW t \in matched, NEW u \in Thread \ {t}, Placed(u), word[desc[u].addr2] = OwnTag(u)
  PROVE  desc[t].addr2 # desc[u].addr2
<1>1. t \in Thread /\ Placed(t) /\ desc[t].state = "UNDECIDED"
  BY DEF DcssInv, TypeOK, Matched
<1>2. word[desc[t].addr2] = OwnTag(t)
  BY <1>1 DEF DcssInv, Stays
<1>. QED  BY <1>2, OwnTags

(* What is reserved for others holds the tag of one of them.               *)
LEMMA TakenFacts ==
  ASSUME Usage, DcssInv, NEW t, NEW a, a \in Abstract!Taken(t)
  PROVE  /\ \E v \in Thread \ {t} : v \in matched /\ a = desc[v].addr2 /\ a \in Target
         /\ IsTag(word[a])
<1>1. Abstract!Taken(t) = UNION {{e.addr : e \in Abstract!Changed(Request[u].entries)} : u \in matched \ {t}}
  BY DEF Abstract!Taken, Request, Req
<1>2. PICK v \in matched \ {t} : a \in {e.addr : e \in Abstract!Changed(Request[v].entries)}
  BY <1>1
<1>3. PICK e \in Abstract!Changed(Request[v].entries) : a = e.addr
  BY <1>2
<1>4. v \in Thread /\ Placed(v) /\ desc[v].state = "UNDECIDED" /\ Pending(v)
  BY DEF DcssInv, TypeOK, Matched, Placed
<1>5. a = desc[v].addr2 /\ a \in Target
  BY <1>3, <1>4, Requests, PendingForm, SwapForm DEF DcssInv
<1>6. word[a] = OwnTag(v)
  BY <1>4, <1>5 DEF DcssInv, Stays
<1>. QED  BY <1>4, <1>5, <1>6, WordForm DEF OwnTag

-----------------------------------------------------------------------------
(* The history of misses is the one that AtomicWords keeps.                *)
LEMMA MissedMeets ==
  ASSUME Usage, DcssInv, Next
  PROVE  missed' = Abstract!Missed
<1>1. Abstract!Missed =
        {t \in Thread : Abstract!Swaps(Request'[t])
                        /\ (t \in missed \/ ~Abstract!Matches(value', Request'[t].entries))}
  BY DEF Abstract!Missed, Request, Req
<1>2. missed' = {t \in Thread : /\ Pending(t)'
                                /\ t \in missed \/ \E e \in Entries(op'[t]) : value'[e.addr] # e.old}
  BY DEF Next, Note, Pending, value
<1>3. ASSUME NEW t \in Thread
      PROVE  Abstract!Swaps(Request'[t]) /\ (t \in missed \/ ~Abstract!Matches(value', Request'[t].entries))
             <=> Pending(t)' /\ (t \in missed \/ \E e \in Entries(op'[t]) : value'[e.addr] # e.old)
  BY RequestsNext DEF Abstract!Matches
<1>. QED  BY <1>1, <1>2, <1>3

(* What operations that have matched hold is reserved as it should be.     *)
LEMMA ReserveMeets ==
  ASSUME Usage, DcssInv, Next
  PROVE  Abstract!Reserve
<1>1. ASSUME NEW t \in matched'
      PROVE  /\ t \in Thread /\ Placed(t)' /\ Pending(t)' /\ desc'[t].state = "UNDECIDED"
             /\ word'[desc'[t].addr2] = Tag(t, desc'[t].seq)
             /\ op'[t] \in Called /\ op'[t].op = "dcss" /\ desc'[t].addr2 = op'[t].addr2
  <2>1. t \in Thread
    BY DEF Next, Note
  <2>2. Placed(t)' /\ desc'[t].state = "UNDECIDED"
    BY <2>1, MatchedStep DEF Matched
  <2>3. word'[desc'[t].addr2] = Tag(t, desc'[t].seq) /\ Pending(t)'
    BY <2>1, <2>2, StaysStep DEF Stays, Placed, OwnTag
  <2>. QED  BY <2>1, <2>2, <2>3, PendingNext
<1>2. ASSUME NEW t \in matched'
      PROVE  /\ Abstract!Swaps(Request'[t]) /\ t \notin Done'
             /\ t \in matched \/ Abstract!Matches(value', Request'[t].entries)
  <2>1. t \in Thread /\ op'[t] \in Called /\ op'[t].op = "dcss" /\ Pending(t)'
    BY <1>1
  <2>2. t \in matched \/ word'[op'[t].addr1] = Plain(op'[t].old1)
    BY DEF Next, Note
  <2>3. ASSUME word'[op'[t].addr1] = Plain(op'[t].old1) PROVE Abstract!Matches(value', Request'[t].entries)
    <3>1. value'[op'[t].addr1] = op'[t].old1
      BY <2>1, <2>3, PendingNext, HoldsFacts, WordForm DEF value, IsDcss
    <3>2. value'[op'[t].addr2] = op'[t].old2
      BY <1>1, <2>1, HeldValueNext, PendingNext
    <3>. QED  BY <2>1, <3>1, <3>2, RequestsNext, SwapForm
  <2>4. t \notin Done'
    BY <1>1 DEF Done
  <2>. QED  BY <2>1, <2>2, <2>3, <2>4, RequestsNext
<1>3. ASSUME NEW t \in matched', NEW u \in matched' \ {t},
             NEW e \in Abstract!Changed(Request'[t].entries), NEW f \in Abstract!Changed(Request'[u].entries)
      PROVE  e.addr # f.addr
  <2>1. Request'[t].entries = Entries(op'[t]) /\ Request'[u].entries = Entries(op'[u])
    BY <1>1, RequestsNext
  <2>2. e.addr = op'[t].addr2 /\ f.addr = op'[u].addr2
    BY <1>1, <2>1, SwapForm
  <2>. QED  BY <1>1, <2>2, WordForm
<1>. QED  BY <1>2, <1>3 DEF Abstract!Reserve, Request, Req, Done

(* A word changes for its readers when it is written or an operation on it *)
(* is decided to succeed.                                                  *)
LEMMA ValueKept ==
  ASSUME Usage, DcssInv, [Next]_vars, NEW a \in Addr, ~PlainWrite(a) \/ word'[a] = word[a],
         \A u \in Thread : Placed(u) /\ desc[u].addr2 = a /\ desc[u].state = "UNDECIDED"
                               => desc'[u].state # "SUCCEEDED"
  PROVE  value'[a] = value[a]
<1>1. CASE word'[a] = word[a] /\ ~IsTag(word[a])
  BY <1>1, HoldsFacts DEF value
<1>2. CASE word'[a] = word[a] /\ IsTag(word[a])
  <2>1. PICK u \in Thread : word[a] = OwnTag(u) /\ Placed(u) /\ desc[u].addr2 = a
    BY <1>2 DEF DcssInv, InPlace
  <2>2. ~Ends(u)
    BY <1>2, <2>1, EndsClean
  <2>3. Placed(u)' /\ SameOperation(desc'[u], desc[u])
    BY <2>1, <2>2, Evolution DEF Evolves
  <2>4. desc'[u].state = "SUCCEEDED" <=> desc[u].state = "SUCCEEDED"
    <3>1. desc[u].state \in Decided => desc'[u].state = desc[u].state
      BY <2>3, Evolution DEF Evolves, SameOperation
    <3>2. desc[u].state \in State
      BY <2>1, PendingForm DEF DcssInv, Placed
    <3>. QED  BY <2>1, <3>1, <3>2 DEF State, Decided
  <2>5. word[a] = Tag(u, desc[u].seq) /\ word'[a] = Tag(u, desc[u].seq)
    BY <1>2, <2>1 DEF OwnTag
  <2>. QED  BY <2>3, <2>4, <2>5, HoldsFacts DEF value, SameOperation
<1>3. ASSUME NEW u \in Thread, PutIn(a, u) PROVE value'[a] = value[a]
  <2>1. desc[u].state = "UNDECIDED"
    BY <1>3, CasFacts DEF PutIn, Places
  <2>2. word'[a] = Tag(u, desc[u].seq) /\ UNCHANGED desc
    BY <1>3 DEF PutIn, OwnTag
  <2>3. value'[a] = desc[u].old2
    BY <2>1, <2>2, HoldsFacts DEF value
  <2>4. value[a] = desc[u].old2
    BY <1>3, HoldsFacts, WordForm DEF value, PutIn
  <2>. QED  BY <2>3, <2>4
<1>4. ASSUME NEW u \in Thread, TakenAway(a, u) PROVE value'[a] = value[a]
  <2>1. word[a] = Tag(u, desc[u].seq)
    BY <1>4 DEF TakenAway, OwnTag
  <2>. QED  BY <1>4, <2>1, HoldsFacts, WordForm DEF value, TakenAway
<1>. QED  BY <1>1, <1>2, <1>3, <1>4, WordChanges

LEMMA ValuesKept ==
  ASSUME Usage, DcssInv, [Next]_vars, \A a \in Addr : ~PlainWrite(a) \/ word'[a] = word[a],
         \A u \in Thread : Placed(u) /\ desc[u].state = "UNDECIDED" => desc'[u].state # "SUCCEEDED"
  PROVE  value' = value
<1>1. \A a \in Addr : value'[a] = value[a]
  BY ValueKept
<1>2. value = [a \in Addr |-> value[a]] /\ value' = [a \in Addr |-> value'[a]]
  BY DEF value, Holds
<1>. QED  BY <1>1, <1>2

(* A step that neither puts a tag in nor decides anything reserves nothing *)
(* and gives nothing up.                                                   *)
StaysPlaced(u) == (Placed(u)' <=> Placed(u)) /\ (Placed(u) => desc'[u] = desc[u])
StaysPending(u) == (Pending(u)' <=> Pending(u)) /\ (Pending(u) => desc'[u] = desc[u])

LEMMA MatchedKept ==
  ASSUME Usage, DcssInv, Next, UNCHANGED word, \A u \in Thread : StaysPlaced(u)
  PROVE  matched' = matched
<1>1. matched' \subseteq Thread /\ matched \subseteq Thread
  BY DEF Next, Note, DcssInv, TypeOK
<1>2. ASSUME NEW u \in matched PROVE u \in matched'
  <2>1. u \in Thread /\ Placed(u) /\ desc[u].state = "UNDECIDED"
    BY <1>1 DEF DcssInv, Matched
  <2>2. Placed(u)' /\ desc'[u] = desc[u]
    BY <2>1 DEF StaysPlaced
  <2>. QED  BY <2>1, <2>2, HistoryKept
<1>3. ASSUME NEW u \in matched' PROVE u \in matched
  <2>1. u \in Thread /\ Placed(u)' /\ desc'[u].state = "UNDECIDED"
    BY <1>1, MatchedStep DEF Matched
  <2>2. Placed(u) /\ desc'[u] = desc[u]
    BY <2>1 DEF StaysPlaced
  <2>3. u \in matched \/ word'[op'[u].addr1] = Plain(op'[u].old1)
    BY DEF Next, Note
  <2>4. op'[u].addr1 = desc'[u].addr1 /\ op'[u].old1 = desc'[u].old1
    BY <2>1, PendingNext DEF Placed
  <2>. QED  BY <2>1, <2>2, <2>3, <2>4 DEF DcssInv, Matched
<1>. QED  BY <1>1, <1>2, <1>3

LEMMA MissedKept ==
  ASSUME Usage, DcssInv, Next, value' = value, \A u \in Thread : StaysPending(u)
  PROVE  missed' = missed
<1>1. missed' \subseteq Thread /\ missed \subseteq Thread
  BY DEF Next, Note, DcssInv, TypeOK
<1>2. ASSUME NEW u \in missed PROVE u \in missed'
  <2>1. u \in Thread /\ Pending(u)
    BY <1>1 DEF DcssInv, Missed
  <2>2. Pending(u)'
    BY <2>1 DEF StaysPending
  <2>. QED  BY <2>1, <2>2, HistoryKept
<1>3. ASSUME NEW u \in missed' PROVE u \in missed
  <2>1. /\ u \in Thread /\ Pending(u)'
        /\ u \in missed \/ \E e \in Entries(op'[u]) : value'[e.addr] # e.old
    BY DEF Next, Note, Pending, value
  <2>2. CASE \E e \in Entries(op'[u]) : value'[e.addr] # e.old
    <3>1. Pending(u) /\ desc'[u] = desc[u]
      BY <2>1 DEF StaysPending
    <3>2. value[desc[u].addr1] # desc[u].old1 \/ value[desc[u].addr2] # desc[u].old2
      BY <2>1, <2>2, <3>1, PendingNext DEF Entries
    <3>. QED  BY <2>1, <3>1, <3>2 DEF DcssInv, Missed
  <2>. QED  BY <2>1, <2>2
<1>. QED  BY <1>1, <1>2, <1>3

-----------------------------------------------------------------------------
(* The steps.                                                              *)

(* What neither calls nor returns, nor shows in the words, is at most a    *)
(* reservation.                                                            *)
LEMMA InternalStep ==
  ASSUME Usage, DcssInv, Next, UNCHANGED <<op, answer>>, value' = value, Done' = Done
  PROVE  Abstract!Write
BY MissedMeets, ReserveMeets DEF Abstract!Write, Done

(* An operation returns when it is done or has missed.                     *)
LEMMA ReturnStep ==
  ASSUME Usage, DcssInv, Next, NEW t \in Thread, Pending(t), Alone(t), Returned(t), UNCHANGED desc, value' = value,
         t \in Done \/ t \in missed,
         \/ answer'[t][1] = "SUCCESS" /\ t \in Done
         \/ answer'[t][1] \in {"FAILED_ADDR1", "FAILED_ADDR2"} /\ t \notin Done,
         answer'[t] # None
  PROVE  Abstract!Return(t)
<1>1. \A u \in Thread \ {t} : op'[u] = op[u] /\ answer'[u] = answer[u]
  BY DEF Alone
<1>2. op'[t] = None
  BY DEF Returned
<1>3. Request' = [Request EXCEPT ![t] = None]
  BY <1>1, <1>2 DEF Request, Req
<1>4. Done' = Done \ {t}
  BY <1>1, <1>2 DEF Done, Swapping
<1>5. [u \in Thread |-> Answered(answer'[u])]
        = [[u \in Thread |-> Answered(answer[u])] EXCEPT ![t] = <<"swap", t \in Done>>]
  <2>1. Answered(answer'[t]) = <<"swap", t \in Done>>
    BY DEF Answered
  <2>. QED  BY <1>1, <2>1 DEF Answered
<1>6. missed' = missed \ {t}
  <2>1. missed' \subseteq Thread /\ missed \subseteq Thread
    BY DEF Next, Note, DcssInv, TypeOK
  <2>2. ~Pending(t)'
    BY <1>2 DEF Pending, Swapping
  <2>3. t \notin missed'
    BY <2>2 DEF Next, Note, Pending
  <2>4. ASSUME NEW u \in Thread \ {t} PROVE u \in missed' <=> u \in missed
    <3>1. (Pending(u)' <=> Pending(u)) /\ op'[u] = op[u] /\ desc'[u] = desc[u]
      BY <1>1 DEF Pending, Swapping
    <3>2. u \in missed' <=> /\ Pending(u)'
                            /\ u \in missed \/ \E e \in Entries(op'[u]) : value'[e.addr] # e.old
      BY DEF Next, Note, Pending, value
    <3>3. ASSUME Pending(u), NEW e \in Entries(op[u]), value[e.addr] # e.old PROVE u \in missed
      <4>1. value[desc[u].addr1] # desc[u].old1 \/ value[desc[u].addr2] # desc[u].old2
        BY <3>3, PendingForm DEF Entries, DcssInv
      <4>. QED  BY <3>3, <4>1 DEF DcssInv, Missed
    <3>4. u \in missed => Pending(u)
      BY DEF DcssInv, Missed
    <3>. QED  BY <3>1, <3>2, <3>3, <3>4
  <2>. QED  BY <2>1, <2>3, <2>4
<1>7. Abstract!Swaps(Request[t])
  BY Requests DEF DcssInv
<1>8. Abstract!Reserve
  BY ReserveMeets
<1>. QED
  BY <1>3, <1>4, <1>5, <1>6, <1>7, <1>8 DEF Abstract!Return, Request, Req, Done, Answered

(* readPtr returns what the word holds, which no operation has reserved.   *)
LEMMA ReadStep ==
  ASSUME Usage, DcssInv, Next, NEW t \in Thread, DcssRead(t)
  PROVE  Abstract!Next
<1>1. /\ dpc[t] = "read" /\ op[t] = ReadOf(op[t].addr) /\ op[t].addr \in Addr
      /\ Alone(t) /\ UNCHANGED <<word, desc>>
  BY ReadFacts
<1>2. value' = value
  BY <1>1 DEF value
<1>3. CASE \E u \in Thread : Met(t, u)
  <2>1. UNCHANGED <<op, answer>>
    BY <1>3 DEF Met
  <2>2. Done' = Done
    BY <1>1, <2>1 DEF Done
  <2>. QED  BY <1>2, <2>1, <2>2, InternalStep DEF Abstract!Next
<1>4. CASE Returned(t) /\ ~IsTag(word[op[t].addr]) /\ answer'[t] = <<"read", word[op[t].addr][2]>>
  <2>1. op[t] # None /\ op[t].op = "read"
    BY <1>1 DEF DcssInv, Phases, ReadOf
  <2>2. /\ \A u \in Thread \ {t} : op'[u] = op[u] /\ answer'[u] = answer[u] /\ dpc'[u] = dpc[u] /\ help'[u] = help[u]
        /\ op'[t] = None /\ dpc'[t] = "idle"
    BY <1>1, <1>4 DEF Alone, Returned
  <2>3. ASSUME NEW u \in Thread PROVE StaysPlaced(u) /\ StaysPending(u)
    BY <1>1, <2>1, <2>2 DEF StaysPlaced, StaysPending, Placed, Pending, Swapping, Helping, OwnTag
  <2>4. matched' = matched /\ missed' = missed
    BY <1>1, <1>2, <2>3, MatchedKept, MissedKept
  <2>5. Done' = Done
    BY <1>1, <2>1, <2>2 DEF Done, Swapping
  <2>6. Request' = [Request EXCEPT ![t] = None]
    BY <2>2 DEF Request, Req
  <2>7. answer'[t] = <<"read", value[op[t].addr]>>
    BY <1>1, <1>4, HoldsFacts DEF value
  <2>8. [u \in Thread |-> Answered(answer'[u])]
          = [[u \in Thread |-> Answered(answer[u])] EXCEPT ![t] = <<"read", value[op[t].addr]>>]
    <3>1. Answered(answer'[t]) = answer'[t]
      BY <2>7 DEF Answered
    <3>2. \A u \in Thread \ {t} : Answered(answer'[u]) = Answered(answer[u])
      BY <2>2
    <3>. QED  BY <2>7, <3>1, <3>2
  <2>9. Request[t] = op[t] /\ Request[t] # None
    BY <2>1 DEF Request, Req
  <2>11. op[t].addr \notin Abstract!Taken(t)
    BY <1>4, TakenFacts
  <2>12. Abstract!ReturnRead(t)
    BY <1>2, <2>1, <2>4, <2>5, <2>6, <2>8, <2>9, <2>11 DEF Abstract!ReturnRead, Request, Req, Done, Answered
  <2>. QED  BY <2>12 DEF Abstract!Next
<1>. QED  BY <1>3, <1>4, ReadFacts

(* The tag reserves addr2, if addr1 holds old1 then; or the operation      *)
(* returns since addr2 differs.                                            *)
LEMMA CasStep ==
  ASSUME Usage, DcssInv, Next, NEW t \in Thread, Cas(t)
  PROVE  Abstract!Next
<1>1. /\ dpc[t] = "cas" /\ Pending(t) /\ ~Placed(t) /\ desc[t].state = "UNDECIDED" /\ desc[t].addr2 \in Addr
      /\ Alone(t) /\ UNCHANGED desc
  BY CasFacts
<1>2. value' = value
  <2>1. \A a \in Addr : ~PlainWrite(a)
    <3>1. dpc'[t] # dpc[t]
      BY <1>1, CasFacts DEF Met, Returned
    <3>. QED  BY <3>1 DEF PlainWrite
  <2>. QED  BY <1>1, <2>1, ValuesKept
<1>3. CASE UNCHANGED <<op, answer>>
  <2>1. Done' = Done
    BY <1>1, <1>3 DEF Done
  <2>. QED  BY <1>2, <1>3, <2>1, InternalStep DEF Abstract!Next
<1>4. CASE /\ ~IsTag(word[desc[t].addr2]) /\ word[desc[t].addr2] # Plain(desc[t].old2)
           /\ answer'[t] = <<"FAILED_ADDR2", word[desc[t].addr2][2]>>
           /\ Returned(t)
  <2>1. word[desc[t].addr2] = Plain(word[desc[t].addr2][2])
    BY <1>1, <1>4, WordForm DEF DcssInv, TypeOK
  <2>2. value[desc[t].addr2] # desc[t].old2
    BY <1>1, <1>4, <2>1, HoldsFacts DEF value
  <2>3. t \in missed
    BY <1>1, <2>2 DEF DcssInv, Missed
  <2>4. t \notin Done
    BY <1>1 DEF Done
  <2>5. answer'[t][1] = "FAILED_ADDR2" /\ answer'[t] # None
    BY <1>4 DEF Usage
  <2>6. Abstract!Return(t)
    BY <1>1, <1>2, <1>4, <2>3, <2>4, <2>5, ReturnStep
  <2>. QED  BY <2>6 DEF Abstract!Next
<1>. QED  BY <1>3, <1>4, CasFacts DEF Met

(* Helping is not to be seen.                                              *)
LEMMA HelpStep ==
  ASSUME Usage, DcssInv, Next, NEW t \in Thread, Copy(t) \/ Check(t) \/ Compare(t) \/ LookAtSeq(t)
  PROVE  Abstract!Next
<1>1. UNCHANGED <<word, desc, op, answer>>
  BY CopyFacts, CheckFacts, CompareFacts, LookFacts DEF Resumed
<1>2. value' = value /\ Done' = Done
  BY <1>1 DEF value, Done
<1>. QED  BY <1>1, <1>2, InternalStep DEF Abstract!Next

(* The decision to succeed is the moment at which addr2 changes.  Nobody   *)
(* has used it since addr1 held old1.                                      *)
LEMMA DecideStep ==
  ASSUME Usage, DcssInv, Next, NEW t \in Thread, Decide(t)
  PROVE  Abstract!Next
<1>1. PICK u : u = help[t].tag[2]
  OBVIOUS
<1>2. dpc[t] = "decide" /\ UNCHANGED word
  BY <1>1, DecideFacts
<1>3. CASE UNCHANGED <<desc, op, answer>>
  <2>1. value' = value /\ Done' = Done
    BY <1>2, <1>3 DEF value, Done
  <2>. QED  BY <1>3, <2>1, InternalStep DEF Abstract!Next
<1>4. CASE /\ u \in Thread /\ Placed(u) /\ desc[u].state = "UNDECIDED" /\ help[t].state \in Decided
           /\ StateSet(t, u)
           /\ SameOperation(desc'[u], desc[u]) /\ desc'[u].state = help[t].state
           /\ UNCHANGED <<op, answer>>
  <2>1. \A v \in Thread \ {u} : desc'[v] = desc[v]
    BY <1>4 DEF StateSet, DcssInv, TypeOK
  <2>2. /\ Pending(u) /\ op[u] \in Called /\ op[u].op = "dcss" /\ IsDcss(op[u])
        /\ desc[u].addr2 = op[u].addr2 /\ desc[u].old2 = op[u].old2 /\ desc[u].new2 = op[u].new2
        /\ desc[u].addr2 \in Addr \cap Target
    BY <1>4, PendingForm DEF DcssInv, Placed
  <2>3. CASE help[t].state = "FAILED"
    <3>1. Done' = Done
      BY <1>4, <2>1, <2>3 DEF Done
    <3>2. value' = value
      BY <1>2, <1>4, <2>1, <2>3, ValuesKept
    <3>. QED  BY <1>4, <3>1, <3>2, InternalStep DEF Abstract!Next
  <2>4. CASE help[t].state = "SUCCEEDED"
    <3>1. u \in matched
      BY <1>4, <2>4, Decisions
    <3>2. u \notin Done /\ Done' = Done \cup {u}
      BY <1>4, <2>1, <2>2, <2>4 DEF Done, Pending
    <3>3. word[desc[u].addr2] = OwnTag(u)
      BY <1>4 DEF DcssInv, Stays
    <3>4. value[op[u].addr2] = op[u].old2
      BY <1>4, <2>2, HeldValue
    <3>5. value'[op[u].addr2] = op[u].new2
      <4>1. word'[op[u].addr2] = Tag(u, desc[u].seq)
        BY <1>2, <2>2, <3>3 DEF OwnTag
      <4>2. desc'[u].state = "SUCCEEDED" /\ desc'[u].new2 = op[u].new2
        BY <1>4, <2>2, <2>4 DEF SameOperation
      <4>3. op[u].addr2 \in Addr
        BY <2>2
      <4>. QED  BY <4>1, <4>2, <4>3, HoldsFacts DEF value
    <3>6. ASSUME NEW a \in Addr, a # op[u].addr2 PROVE value'[a] = value[a]
      BY <1>2, <1>4, <2>1, <2>2, <3>6, ValueKept
    <3>7. Request[u].entries = Entries(op[u]) /\ Abstract!Swaps(Request[u])
      BY <1>4, <2>2, Requests DEF DcssInv
    <3>8. value' = Abstract!Written(value, Entries(op[u]))
      <4> DEFINE E == Abstract!Changed(Entries(op[u]))
      <4>1. ASSUME NEW a \in Addr
            PROVE  value'[a] = IF \E e \in E : e.addr = a THEN (CHOOSE e \in E : e.addr = a).new ELSE value[a]
        <5>1. CASE \E e \in E : e.addr = a
          <6>1. PICK e : e = CHOOSE f \in E : f.addr = a
            OBVIOUS
          <6>2. e \in E /\ e.addr = a
            BY <5>1, <6>1
          <6>3. a = op[u].addr2 /\ e.new = op[u].new2
            BY <2>2, <6>2, SwapForm
          <6>. QED  BY <3>5, <5>1, <6>1, <6>3
        <5>2. CASE ~\E e \in E : e.addr = a
          <6>1. a = op[u].addr2 => op[u].new2 = op[u].old2
            BY <2>2, <5>2, SwapForm
          <6>. QED  BY <3>4, <3>5, <3>6, <5>2, <6>1
        <5>. QED  BY <5>1, <5>2
      <4>2. value' = [a \in Addr |-> value'[a]]
        BY DEF value, Holds
      <4>3. value' = [a \in Addr |->
                        IF \E e \in E : e.addr = a THEN (CHOOSE e \in E : e.addr = a).new ELSE value[a]]
        BY <4>1, <4>2
      <4>. QED  BY <4>3 DEF Abstract!Written
    <3>9. ASSUME NEW e \in Entries(op[u]) PROVE e.addr \notin Abstract!Taken(u)
      <4>1. e.addr = op[u].addr1 \/ e.addr = op[u].addr2
        BY DEF Entries
      <4>2. ASSUME e.addr \in Abstract!Taken(u) PROVE FALSE
        <5>1. PICK v \in Thread \ {u} : v \in matched /\ e.addr = desc[v].addr2 /\ e.addr \in Target
          BY <4>2, TakenFacts
        <5>2. desc[v].addr2 # desc[u].addr2
          BY <1>4, <3>3, <5>1, MatchedApart
        <5>3. op[u].addr1 \notin Target
          BY <2>2 DEF IsDcss
        <5>. QED  BY <2>2, <4>1, <5>1, <5>2, <5>3
      <4>. QED  BY <4>2
    <3>10. Abstract!Commit(u)
      BY <1>4, <3>1, <3>2, <3>7, <3>8, <3>9, MissedMeets, ReserveMeets
      DEF Abstract!Commit, Request, Req, Done
    <3>. QED  BY <1>4, <3>10 DEF Abstract!Next
  <2>. QED  BY <1>4, <2>3, <2>4 DEF Decided
<1>. QED  BY <1>1, <1>3, <1>4, DecideFacts DEF Resumed

(* The tag is taken away for what it stood for; if it was that of t's own  *)
(* operation, this returns.                                                *)
LEMMA FinishStep ==
  ASSUME Usage, DcssInv, Next, NEW t \in Thread, Finish(t)
  PROVE  Abstract!Next
<1>1. PICK u : u = help[t].tag[2]
  OBVIOUS
<1>2. dpc[t] = "finish" /\ Alone(t) /\ UNCHANGED desc
  BY <1>1, FinishFacts
<1>3. dpc'[t] # dpc[t]
  BY <1>1, <1>2, FinishFacts DEF Returned, Resumed
<1>4. value' = value
  BY <1>2, <1>3, ValuesKept DEF PlainWrite
<1>5. CASE Resumed(t)
  <2>1. UNCHANGED <<op, answer>>
    BY <1>5 DEF Resumed
  <2>2. Done' = Done
    BY <1>2, <2>1 DEF Done
  <2>. QED  BY <1>4, <2>1, <2>2, InternalStep DEF Abstract!Next
<1>6. CASE /\ Placed(t) /\ desc[t].state = help[t].state /\ Returned(t)
           /\ answer'[t] = IF desc[t].state = "SUCCEEDED" THEN <<"SUCCESS", 0>> ELSE <<"FAILED_ADDR1", help[t].val1>>
  <2>1. Pending(t) /\ desc[t].state \in Decided
    BY <1>2, <1>6, HelperFacts DEF Placed, Helping, View
  <2>2. t \in Done <=> desc[t].state = "SUCCEEDED"
    BY <2>1 DEF Done, Pending
  <2>3. desc[t].state = "FAILED" => t \in missed
    BY <2>1 DEF DcssInv, Missed
  <2>4. answer'[t] # None
    BY <1>6 DEF Usage
  <2>5. Abstract!Return(t)
    BY <1>2, <1>4, <1>6, <2>1, <2>2, <2>3, <2>4, ReturnStep DEF Decided
  <2>. QED  BY <2>5 DEF Abstract!Next
<1>. QED  BY <1>1, <1>5, <1>6, FinishFacts

(* A call asks for a read or a swap; a plain write is to a word that no    *)
(* operation reserves.                                                     *)
LEMMA CallStep ==
  ASSUME Usage, DcssInv, Next, NEW t \in Thread, NEW c, Call(t, c)
  PROVE  Abstract!Next
<1>1. dpc[t] = "idle" /\ op[t] = None /\ Alone(t) /\ UNCHANGED <<help, answer>>
  BY CallFacts
<1>2. ~Placed(t) /\ ~Pending(t)
  BY <1>1 DEF Placed, Pending, Swapping
<1>3. \A u \in Thread \ {t} : op'[u] = op[u] /\ dpc'[u] = dpc[u] /\ help'[u] = help[u]
  BY <1>1 DEF Alone
<1>4. ASSUME UNCHANGED word, op'[t] = c, c \in Called, c.op \in {"dcss", "read"}, dpc'[t] \in {"cas", "read"},
             \A u \in Thread \ {t} : desc'[u] = desc[u], desc'[t].state = "UNDECIDED" \/ ~Pending(t)'
      PROVE  Abstract!Next
  <2>1. ~Placed(t)'
    BY <1>4 DEF Placed, Helping
  <2>2. ASSUME NEW u \in Thread PROVE StaysPlaced(u)
    <3>1. CASE u = t
      BY <1>2, <2>1, <3>1 DEF StaysPlaced
    <3>2. CASE u # t
      BY <1>3, <1>4, <3>2 DEF StaysPlaced, Placed, Pending, Swapping, Helping, OwnTag
    <3>. QED  BY <3>1, <3>2
  <2>3. matched' = matched
    BY <1>4, <2>2, MatchedKept
  <2>4. value' = value
    <3>1. ASSUME NEW u \in Thread, Placed(u), desc[u].state = "UNDECIDED" PROVE desc'[u].state # "SUCCEEDED"
      BY <1>2, <1>4, <3>1
    <3>. QED  BY <1>4, <3>1, ValuesKept
  <2>5. Done' = Done
    <3>1. ASSUME NEW u \in Thread PROVE u \in Done' <=> u \in Done
      BY <1>1, <1>2, <1>3, <1>4 DEF Done, Pending
    <3>. QED  BY <3>1 DEF Done
  <2>6. Request' = [Request EXCEPT ![t] = Req(c)]
    BY <1>3, <1>4 DEF Request, Req
  <2>7. Request[t] = None /\ Request'[t] = Req(c)
    BY <1>1, <1>4 DEF Request, Req
  <2>8. CASE c.op = "dcss"
    <3>1. /\ Abstract!Swaps(Req(c)) /\ Req(c).entries \subseteq Abstract!Entry
          /\ Req(c) = Abstract!Swapping(Req(c).entries)
      BY <1>4, <2>8, SwapForm
    <3>2. Abstract!Invoke(t)
      BY <1>1, <2>3, <2>4, <2>5, <2>6, <2>7, <3>1, MissedMeets DEF Abstract!Invoke, Request, Req, Done
    <3>. QED  BY <3>2 DEF Abstract!Next
  <2>9. CASE c.op = "read"
    <3>1. IsRead(c) /\ c # None
      BY <1>4, <2>9, CallForm
    <3>2. Req(c) = Abstract!Reading(c.addr) /\ c.addr \in Addr
      BY <2>9, <3>1 DEF Req, Abstract!Reading, IsRead, ReadOf
    <3>3. Abstract!Invoke(t)
      <4>1. \E a \in Addr : Request' = [Request EXCEPT ![t] = Abstract!Reading(a)]
        BY <2>6, <3>2
      <4>. QED
        BY <1>1, <2>3, <2>4, <2>5, <2>7, <4>1, MissedMeets DEF Abstract!Invoke, Request, Req, Done
    <3>. QED  BY <3>3 DEF Abstract!Next
  <2>. QED  BY <1>4, <2>8, <2>9
<1>5. c \in Called
  <2>1. script[t] \in Seq(SUBSET Called) /\ script[t] # <<>>
    BY DEF DcssInv, TypeOK, Call
  <2>. QED  BY <2>1 DEF Call
<1>6. CASE /\ c.op = "dcss" /\ dpc'[t] = "cas" /\ op'[t] = c /\ UNCHANGED word
           /\ \A u \in Thread \ {t} : desc'[u] = desc[u]
           /\ desc'[t].state = "UNDECIDED"
  BY <1>4, <1>5, <1>6
<1>7. CASE IsRead(c) /\ dpc'[t] = "read" /\ op'[t] = c /\ UNCHANGED <<word, desc>>
  <2>1. c.op = "read"
    BY <1>7 DEF IsRead, ReadOf
  <2>2. ~Pending(t)'
    BY <1>7, <2>1 DEF Pending, Swapping
  <2>. QED  BY <1>4, <1>5, <1>7, <2>1, <2>2
<1>8. CASE /\ c.addr \in Addr \ Target /\ c.new \in Value
           /\ word' = [word EXCEPT ![c.addr] = Plain(c.new)]
           /\ UNCHANGED <<desc, dpc, op>>
  <2>1. word'[c.addr] = Plain(c.new) /\ \A a \in Addr \ {c.addr} : word'[a] = word[a]
    BY <1>8 DEF DcssInv, TypeOK
  <2>2. value'[c.addr] = c.new
    <3>1. c.addr \in Addr /\ ~IsTag(word'[c.addr]) /\ word'[c.addr][2] = c.new
      BY <1>8, <2>1, WordForm
    <3>. QED  BY <3>1, HoldsFacts DEF value
  <2>3. ASSUME NEW a \in Addr \ {c.addr} PROVE value'[a] = value[a]
    BY <1>8, <2>1, ValueKept
  <2>4. value' = [value EXCEPT ![c.addr] = c.new]
    BY <2>2, <2>3 DEF value, Holds
  <2>6. c.addr \notin Abstract!Taken(None)
    BY <1>8, TakenFacts
  <2>7. Abstract!Write
    BY <1>1, <1>8, <2>4, <2>6, MissedMeets, ReserveMeets DEF Abstract!Write
  <2>. QED  BY <2>7 DEF Abstract!Next
<1>. QED  BY <1>6, <1>7, <1>8, CallFacts

(* Every step is one of AtomicWords, or is not to be seen.                 *)
LEMMA AtomicStep ==
  ASSUME Usage, DcssInv, [Next]_vars
  PROVE  [Abstract!Next]_Abstract!vars
<1>1. CASE Next
  BY <1>1, ReadStep, CasStep, HelpStep, DecideStep, FinishStep, CallStep DEF Next, DcssStep
<1>2. CASE UNCHANGED vars
  BY <1>2 DEF vars, dcssVars, value, Abstract!vars
<1>. QED  BY <1>1, <1>2

LEMMA AtomicInit ==
  ASSUME Usage, Init
  PROVE  Abstract!Init
<1>1. value \in [Addr -> Value]
  <2>1. ASSUME NEW a \in Addr PROVE value[a] = First
    BY HoldsFacts, WordForm DEF value, Init
  <2>2. value = [a \in Addr |-> value[a]]
    BY DEF value, Holds
  <2>. QED  BY <2>1, <2>2 DEF Usage
<1>. QED  BY <1>1 DEF Init, DcssInit, Abstract!Init, Swapping

(* DCSS is atomic, for any operations: dcssPtr takes effect in one step    *)
(* between its call and its return, or has seen a word that differs; what  *)
(* readPtr returns the word held at one moment.                            *)
THEOREM DcssImplementsAtomicWords == ASSUME Usage PROVE Spec => AtomicSpec
<1>1. Init => Abstract!Init
  BY AtomicInit
<1>2. DcssInv /\ [Next]_vars => [Abstract!Next]_Abstract!vars
  BY AtomicStep
<1>. QED  BY <1>1, <1>2, DcssInvariance, PTL DEF Spec, AtomicSpec, Abstract!Spec
=============================================================================
