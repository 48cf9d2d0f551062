------------------------------ MODULE KcasProofs ------------------------------
(***************************************************************************)
(* KCAS implements AtomicWords, for any number of threads and words, any   *)
(* values and any operations.                                              *)
(*                                                                         *)
(* The argument.  The tag of an operation that has got into a word stays   *)
(* there until the operation is decided.  So a helper that has come to the *)
(* end of the entries of an undecided operation has found each of them in  *)
(* place (Frames), and what the words hold is what the entries say         *)
(* (Words).  An RDCSS may put the tag of an operation into its word when   *)
(* that has failed meanwhile, but not when it has succeeded: then the word *)
(* holds the tag already, and the RDCSS is in no word (Copies).            *)
(*                                                                         *)
(* The descriptors are used again.  What a tag stands for when they have   *)
(* been is known to no variable, but to the proof: the invariant is that   *)
(* there is a history h of all operations which the state agrees with.     *)
(***************************************************************************)
EXTENDS Kcas, TLAPS

(* The operations that the threads call.                                   *)
Called == UNION {UNION ToSet(s[t]) : s \in Scripts, t \in Thread}

Entry == [addr : Addr, old : Value, new : Value]
OncePerWord(s) == \A i, j \in DOMAIN s : s[i].addr = s[j].addr => i = j
Plan == {s \in Seq(Entry) : OncePerWord(s)}

IsSwap(c) == c = [op |-> "kcas", entries |-> c.entries] /\ c.entries \in Plan
IsRead(c) == c = [op |-> "read", addr |-> c.addr] /\ c.addr \in Addr

(* How KCAS is used: no word is in two entries of an operation.  To sort   *)
(* the entries is to permute them.  None is something else than what it    *)
(* stands in for.                                                          *)
Usage ==
  /\ First \in Value
  /\ Scripts \subseteq [Thread -> Seq(SUBSET Called)]
  /\ \A c \in Called : c # None /\ (IsSwap(c) \/ IsRead(c))
  /\ \A s \in Plan : InOrder(s) \in Plan /\ ToSet(InOrder(s)) = ToSet(s)
  /\ \A k, v : None # <<k, v>>
  /\ \A k, u, n : None # <<k, u, n>>
  /\ \A entries : None # [op |-> "swap", entries |-> entries]
  /\ \A a : None # [op |-> "read", addr |-> a]

-----------------------------------------------------------------------------
Outcome == {"UNDECIDED", "SUCCEEDED", "FAILED"}
KcasTags == {KcasTag(u, n) : u \in Thread, n \in Nat \ {0}}
RdcssTags == {RdcssTag(u, n) : u \in Thread, n \in Nat \ {0}}
WordSet == {Plain(v) : v \in Value} \cup KcasTags \cup RdcssTags

RdcssSet == [seq : Nat \ {0}, old1 : KcasTags, addr2 : Addr, old2 : Value]
Writing == [addr2 : Addr, new : {Plain(v) : v \in Value} \cup KcasTags]
Frame == [tag : KcasTags, entries : Plan, i : Nat \ {0}, newstate : Outcome]
Answer == ({"swap"} \X BOOLEAN) \cup ({"read"} \X Value)

Helping == {"help", "entry", "rdcss.cas", "decide", "phase2", "release"}
HelpingRdcss == {"rdcss.copy", "rdcss.check", "rdcss.state", "rdcss.write"}
Stage == {"idle", "read", "kcas.copy", "kcas.check"} \cup Helping \cup HelpingRdcss

TypeOK ==
  /\ word \in [Addr -> WordSet]
  /\ kcasDesc \in [Thread -> [seq : Nat, state : Outcome, entries : Plan]]
  /\ rdcssDesc \in [Thread -> RdcssSet \cup {[seq |-> 0, old1 |-> None, addr2 |-> None, old2 |-> None]}]
  /\ pc \in [Thread -> Stage]
  /\ op \in [Thread -> Called \cup {None}]
  /\ frames \in [Thread -> Seq(Frame)]
  /\ met \in [Thread -> KcasTags \cup RdcssTags \cup {None}]
  /\ rdcss \in [Thread -> RdcssSet \cup Writing \cup {NoRdcss}]
  /\ script \in [Thread -> Seq(SUBSET Called)]
  /\ answer \in [Thread -> Answer \cup {None}]
  /\ value \in [Addr -> Value]
  /\ missed \in SUBSET Thread

Swaps(t) == op[t] # None /\ op[t].op = "kcas"
OwnTag(t) == KcasTag(t, kcasDesc[t].seq)

(* The stage of t fits its operation, its invocations of help, the tag     *)
(* that it has met and the RDCSS that it helps.                            *)
StageOK(t) ==
  /\ pc[t] = "idle" <=> op[t] = None
  /\ pc[t] \in {"idle", "read"} => frames[t] = <<>>
  /\ pc[t] = "read" => op[t].op = "read"
  /\ pc[t] \in Helping \cup {"kcas.check"} => frames[t] # <<>>
  /\ pc[t] \in HelpingRdcss => met[t] \in RdcssTags
  /\ pc[t] \in {"kcas.copy", "kcas.check"} => met[t] \in KcasTags
  /\ pc[t] = "kcas.check" => Top(t).tag = met[t]
  /\ pc[t] \in {"rdcss.check", "rdcss.state"} => rdcss[t] \in RdcssSet
  /\ pc[t] = "rdcss.write" => rdcss[t] \in Writing
  /\ Swaps(t) => /\ frames[t] # <<>> /\ frames[t][Len(frames[t])].tag = OwnTag(t)
                 /\ pc[t] = "kcas.check" => Len(frames[t]) >= 2

Stages == \A t \in Thread : StageOK(t)

-----------------------------------------------------------------------------
(* A history: the entries of each operation, and what has become of it.    *)
Histories == [KcasTags -> [entries : Plan, outcome : Outcome]]

(* The operation has been called.                                          *)
Issued(tag) == tag[3] <= kcasDesc[tag[2]].seq

(* The descriptors hold the last operation of each thread; the ones before *)
(* are decided, and the last one if it has returned.                       *)
Descriptors(h) ==
  /\ \A u \in Thread : kcasDesc[u].seq > 0 =>
       h[OwnTag(u)] = [entries |-> kcasDesc[u].entries, outcome |-> kcasDesc[u].state]
  /\ \A tag \in KcasTags : tag[3] < kcasDesc[tag[2]].seq => h[tag].outcome # "UNDECIDED"
  /\ \A u \in Thread :
       /\ Swaps(u) => kcasDesc[u].seq > 0 /\ Entries(kcasDesc[u].entries) = Entries(op[u].entries)
       /\ kcasDesc[u].seq > 0 /\ kcasDesc[u].state = "UNDECIDED" => Swaps(u)

Open(h, tag) == h[tag].outcome = "UNDECIDED"
Holds(h, tag, j) == IF h[tag].outcome = "SUCCEEDED" THEN h[tag].entries[j].new ELSE h[tag].entries[j].old

(* The RDCSS whose tag the word a may be is the last one of u, and it is   *)
(* u's own tag that it has met.                                            *)
Placed(u, a) ==
  /\ rdcssDesc[u].addr2 = a /\ rdcssDesc[u].old2 = value[a]
  /\ pc[u] \in {"rdcss.state", "rdcss.write"} /\ met[u] = OwnRdcss(u) /\ frames[u] # <<>>

(* What a word holds is what its tag says.  An operation that is not       *)
(* decided has its tag in its first word if anywhere.                      *)
Words(h) ==
  \A a \in Addr :
    /\ IsValue(word[a]) => word[a] = Plain(value[a])
    /\ IsRdcss(word[a]) => \E u \in Thread : word[a] = OwnRdcss(u) /\ Placed(u, a)
    /\ IsKcas(word[a]) =>
         /\ Issued(word[a])
         /\ \E j \in DOMAIN h[word[a]].entries :
              h[word[a]].entries[j].addr = a /\ value[a] = Holds(h, word[a], j)
         /\ Open(h, word[a]) => word[h[word[a]].entries[1].addr] = word[a]

(* An invocation of help knows the entries, and as long as the operation   *)
(* is not decided the tag is in the words of those that it has been        *)
(* through.  The last invocation may be at the end of its first phase: it  *)
(* has found all tags in place or missed a value, or behind it.            *)
Fits(h, f, stage) ==
  /\ Issued(f.tag)
  /\ ~(stage = "kcas.check" /\ ~Current(f.tag)) =>
       /\ f.entries = h[f.tag].entries
       /\ Open(h, f.tag) /\ f.newstate # "FAILED" =>
            \A j \in DOMAIN f.entries : j < f.i => word[f.entries[j].addr] = f.tag
  /\ stage \notin {"decide", "phase2", "release"} => f.newstate = "SUCCEEDED"
  /\ stage = "decide" =>
       /\ f.newstate \in {"SUCCEEDED", "FAILED"}
       /\ f.newstate = "SUCCEEDED" => f.i > Len(f.entries)
       /\ f.newstate = "FAILED" /\ Open(h, f.tag) => f.tag[2] \in missed
  /\ stage \in {"phase2", "release"} => ~Open(h, f.tag)
  /\ stage = "release" => f.newstate = h[f.tag].outcome

(* The invocations before the last one are at an entry.                    *)
FrameOK(h, t, k) == Fits(h, frames[t][k], IF k = 1 THEN pc[t] ELSE "entry")

Frames(h) == \A t \in Thread : \A k \in DOMAIN frames[t] : FrameOK(h, t, k)

(* Whoever has met the tag of an operation has done so when it was there.  *)
Met(h) ==
  \A t \in Thread :
    pc[t] \in {"kcas.copy", "kcas.check"} =>
      /\ Issued(met[t])
      /\ Open(h, met[t]) => h[met[t]].entries # <<>> /\ word[h[met[t]].entries[1].addr] = met[t]

-----------------------------------------------------------------------------
(* t is at an entry of its current operation, and its RDCSS is about it.   *)
(* Whatever it was about before is an operation that has been called.      *)
AtEntry(t) == pc[t] = "rdcss.cas" \/ (pc[t] \in HelpingRdcss /\ frames[t] # <<>>)
OfEntry ==
  \A t \in Thread :
    /\ rdcssDesc[t].seq > 0 => Issued(rdcssDesc[t].old1)
    /\ AtEntry(t) =>
         LET f == Top(t)
         IN  /\ f.i \in DOMAIN f.entries
             /\ rdcssDesc[t] = [seq |-> rdcssDesc[t].seq, old1 |-> f.tag,
                                addr2 |-> f.entries[f.i].addr, old2 |-> f.entries[f.i].old]
             /\ rdcssDesc[t].seq > 0

(* It has not put the tag of that into the word yet: nobody has met it.    *)
(* Nor does t meet its own one while it reads.                             *)
Unplaced(t) == AtEntry(t) /\ ~(pc[t] # "rdcss.cas" /\ met[t] = OwnRdcss(t))
MetRdcss ==
  \A t \in Thread :
    /\ met[t] \in RdcssTags => met[t][3] <= rdcssDesc[met[t][2]].seq
    /\ Unplaced(t) => \A u \in Thread : met[u] # OwnRdcss(t)
    /\ pc[t] \in HelpingRdcss /\ frames[t] = <<>> => met[t] # OwnRdcss(t)

(* It has, and the tag is gone: it has been replaced by that of the        *)
(* operation, if that is not decided.                                      *)
Replaced(h) ==
  \A t \in Thread : AtEntry(t) /\ ~Unplaced(t) =>
    LET d == rdcssDesc[t]
    IN  word[d.addr2] = OwnRdcss(t) \/ (Open(h, d.old1) => word[d.addr2] = d.old1)

(* A copy of an RDCSS is right if that is still the last one of its        *)
(* thread; what is to replace its tag is the tag of the operation, but     *)
(* never if that has succeeded, or the old value if it has been decided.   *)
Copies(h) ==
  \A t \in Thread :
    LET d == rdcssDesc[met[t][2]]
        r == rdcss[t]
    IN  pc[t] \in HelpingRdcss /\ met[t][3] = d.seq =>
          /\ pc[t] \in {"rdcss.check", "rdcss.state"} => r = d
          /\ pc[t] = "rdcss.write" =>
               /\ r.addr2 = d.addr2
               /\ \/ /\ r.new = d.old1
                     /\ word[d.addr2] = met[t] => h[d.old1].outcome # "SUCCEEDED"
                  \/ r.new = Plain(d.old2) /\ ~Open(h, d.old1)

(* The operations that have been pending when a word differed.             *)
Missed ==
  \A u \in Thread :
    /\ u \in missed => Swaps(u)
    /\ Swaps(u) /\ Differ(value, op[u].entries) => u \in missed
    /\ Swaps(u) /\ kcasDesc[u].state = "FAILED" => u \in missed

Agrees(h) ==
  /\ Descriptors(h) /\ Words(h) /\ Frames(h) /\ Met(h)
  /\ OfEntry /\ MetRdcss /\ Replaced(h) /\ Copies(h) /\ Missed

KcasInv == TypeOK /\ Stages /\ \E h \in Histories : Agrees(h)

-----------------------------------------------------------------------------
(* A word is a value or one of two kinds of tags, and says which.          *)
LEMMA WordForm ==
  /\ \A u, n : IsKcas(KcasTag(u, n)) /\ KcasTag(u, n)[2] = u /\ KcasTag(u, n)[3] = n
  /\ \A u, n : IsRdcss(RdcssTag(u, n)) /\ RdcssTag(u, n)[2] = u /\ RdcssTag(u, n)[3] = n
  /\ \A v : IsValue(Plain(v)) /\ Plain(v)[2] = v
  /\ \A w \in KcasTags : w[2] \in Thread /\ w[3] \in Nat \ {0} /\ w = KcasTag(w[2], w[3])
  /\ \A w \in RdcssTags : w[2] \in Thread /\ w[3] \in Nat \ {0} /\ w = RdcssTag(w[2], w[3])
  /\ \A w \in WordSet : IsKcas(w) <=> w \in KcasTags
  /\ \A w \in WordSet : IsRdcss(w) <=> w \in RdcssTags
  /\ \A w \in WordSet : IsValue(w) => w[2] \in Value /\ w = Plain(w[2])
  /\ \A w \in WordSet : IsValue(w) \/ IsRdcss(w) \/ IsKcas(w)
BY DEF KcasTag, RdcssTag, Plain, IsValue, IsKcas, IsRdcss, WordSet, KcasTags, RdcssTags

(* No word is of two kinds.                                                *)
LEMMA Kinds ==
  /\ \A w : ~(IsValue(w) /\ IsKcas(w)) /\ ~(IsValue(w) /\ IsRdcss(w)) /\ ~(IsKcas(w) /\ IsRdcss(w))
  /\ \A w \in KcasTags : IsKcas(w) /\ ~IsRdcss(w) /\ ~IsValue(w) /\ w \notin RdcssTags
  /\ \A w \in RdcssTags : IsRdcss(w) /\ ~IsKcas(w) /\ ~IsValue(w) /\ w \notin KcasTags
BY DEF KcasTag, RdcssTag, IsValue, IsKcas, IsRdcss, KcasTags, RdcssTags

(* Under the assumption None is no tag.                                    *)
LEMMA NoneIsNoTag ==
  ASSUME Usage
  PROVE  None \notin KcasTags /\ None \notin RdcssTags
BY DEF Usage, KcasTags, RdcssTags, KcasTag, RdcssTag

(* What is called is a read or a swap.                                     *)
LEMMA CallForm ==
  ASSUME Usage, NEW c \in Called
  PROVE  /\ c # None
         /\ c.op = "kcas" => IsSwap(c)
         /\ c.op = "read" => IsRead(c)
         /\ c.op \in {"kcas", "read"}
BY DEF Usage, IsSwap, IsRead

(* The invocations of help are a stack: one is pushed, popped or changed.  *)
LEMMA Push ==
  ASSUME NEW S, NEW s \in Seq(S), NEW f \in S
  PROVE  /\ <<f>> \o s \in Seq(S) /\ Len(<<f>> \o s) = Len(s) + 1
         /\ (<<f>> \o s)[1] = f
         /\ \A k \in DOMAIN s : (<<f>> \o s)[k + 1] = s[k]
         /\ \A k \in DOMAIN (<<f>> \o s) : k # 1 => k - 1 \in DOMAIN s /\ (<<f>> \o s)[k] = s[k - 1]
         /\ Head(<<f>> \o s) = f /\ Tail(<<f>> \o s) = s
         /\ <<f>> \o s # <<>>
OBVIOUS

(* When a call returns its invocation is popped.                           *)
LEMMA Pop ==
  ASSUME NEW S, NEW s \in Seq(S), s # <<>>
  PROVE  /\ Tail(s) \in Seq(S) /\ Len(Tail(s)) = Len(s) - 1
         /\ Len(s) \in Nat \ {0} /\ DOMAIN s = 1 .. Len(s) /\ DOMAIN Tail(s) = 1 .. Len(s) - 1
         /\ \A k \in DOMAIN Tail(s) : k + 1 \in DOMAIN s /\ Tail(s)[k] = s[k + 1]
         /\ Head(s) = s[1] /\ Head(s) \in S /\ 1 \in DOMAIN s
         /\ Tail(s) = <<>> <=> Len(s) = 1
<1>1. Len(s) \in Nat \ {0} /\ DOMAIN s = 1 .. Len(s)
  OBVIOUS
<1>2. Tail(s) \in Seq(S) /\ Len(Tail(s)) = Len(s) - 1 /\ DOMAIN Tail(s) = 1 .. Len(s) - 1
  OBVIOUS
<1>3. \A k \in DOMAIN Tail(s) : k + 1 \in DOMAIN s /\ Tail(s)[k] = s[k + 1]
  BY <1>1, <1>2
<1>4. Head(s) = s[1] /\ Head(s) \in S /\ 1 \in DOMAIN s
  BY <1>1
<1>5. Tail(s) = <<>> <=> Len(s) = 1
  <2>1. \A q \in Seq(S) : Len(q) = 0 <=> q = <<>>
    OBVIOUS
  <2>2. Len(Tail(s)) = 0 <=> Len(s) = 1
    BY <1>1, <1>2
  <2>3. Tail(s) \in Seq(S)
    BY <1>2
  <2>. HIDE <1>1, <1>2
  <2>4. ASSUME NEW q \in Seq(S) PROVE q = <<>> <=> Len(q) = 0
    BY <2>1
  <2>. QED  BY <2>2, <2>3, <2>4, Zenon
<1>. QED  BY <1>1, <1>2, <1>3, <1>4, <1>5

(* The current invocation changes, the ones below do not.                  *)
LEMMA Change ==
  ASSUME NEW S, NEW s \in Seq(S), s # <<>>, NEW f \in S
  PROVE  /\ [s EXCEPT ![1] = f] \in Seq(S) /\ Len([s EXCEPT ![1] = f]) = Len(s)
         /\ [s EXCEPT ![1] = f] # <<>> /\ Head([s EXCEPT ![1] = f]) = f
         /\ [s EXCEPT ![1] = f][1] = f
         /\ \A k \in DOMAIN s : k # 1 => [s EXCEPT ![1] = f][k] = s[k]
OBVIOUS

-----------------------------------------------------------------------------
(* The current invocation of help is the first one of the stack.           *)
LEMMA TopForm ==
  ASSUME TypeOK, NEW t \in Thread, frames[t] # <<>>
  PROVE  /\ Top(t) = frames[t][1] /\ Top(t) \in Frame /\ 1 \in DOMAIN frames[t]
         /\ Top(t).tag \in KcasTags /\ Top(t).tag[2] \in Thread
         /\ Top(t).entries \in Plan /\ Top(t).i \in Nat \ {0}
<1>1. frames[t] \in Seq(Frame)
  BY DEF TypeOK
<1>2. Top(t) = frames[t][1] /\ Top(t) \in Frame /\ 1 \in DOMAIN frames[t]
  BY <1>1, Pop DEF Top
<1>3. Top(t).tag \in KcasTags /\ Top(t).entries \in Plan /\ Top(t).i \in Nat \ {0}
  BY <1>2 DEF Frame
<1>. QED  BY <1>2, <1>3, WordForm

(* To change two fields is to change one and then the other.               *)
LEMMA TwoFields ==
  ASSUME NEW f, NEW s
  PROVE  [f EXCEPT !.i = 1, !.newstate = s] = [[f EXCEPT !.i = 1] EXCEPT !.newstate = s]
OBVIOUS

(* An invocation of help goes on with the second phase.                    *)
LEMMA SecondPhase ==
  ASSUME NEW f \in Frame, NEW s \in Outcome
  PROVE  /\ [f EXCEPT !.i = 1, !.newstate = s] \in Frame
         /\ [f EXCEPT !.i = 1, !.newstate = s].tag = f.tag
         /\ [f EXCEPT !.i = 1, !.newstate = s].entries = f.entries
         /\ [f EXCEPT !.i = 1, !.newstate = s].newstate = s
<1>1. PICK tag \in KcasTags, entries \in Plan, i \in Nat \ {0}, r \in Outcome :
        f = [tag |-> tag, entries |-> entries, i |-> i, newstate |-> r]
  BY DEF Frame
<1>2. [f EXCEPT !.i = 1, !.newstate = s] = [tag |-> tag, entries |-> entries, i |-> 1, newstate |-> s]
  <2>. DEFINE g == [f EXCEPT !.i = 1]
  <2>1. g = [tag |-> tag, entries |-> entries, i |-> 1, newstate |-> r]
    BY <1>1
  <2>2. [f EXCEPT !.i = 1, !.newstate = s] = [g EXCEPT !.newstate = s]
    BY TwoFields
  <2>. HIDE DEF g
  <2>. QED  BY <2>1, <2>2
<1>. QED  BY <1>1, <1>2 DEF Frame

(* The descriptors have sequence numbers.                                  *)
LEMMA SeqForm ==
  ASSUME TypeOK, NEW t \in Thread
  PROVE  kcasDesc[t].seq \in Nat /\ rdcssDesc[t].seq \in Nat
<1>1. rdcssDesc[t] \in RdcssSet \/ rdcssDesc[t].seq = 0
  BY DEF TypeOK
<1>2. rdcssDesc[t] \in RdcssSet => rdcssDesc[t].seq \in Nat
  BY DEF RdcssSet
<1>. QED  BY <1>1, <1>2 DEF TypeOK

(* The stages in which there is a current invocation.                      *)
LEMMA Invoked ==
  ASSUME Stages, NEW t \in Thread, pc[t] \in Helping \cup {"kcas.check"}
  PROVE  frames[t] # <<>> /\ op[t] # None
BY DEF Stages, StageOK, Helping

(* The RDCSS of t is one of an entry.                                      *)
LEMMA EntryForm ==
  ASSUME TypeOK, OfEntry, NEW t \in Thread, AtEntry(t)
  PROVE  rdcssDesc[t] \in RdcssSet
BY DEF TypeOK, OfEntry

(* help returns, or t returns.                                             *)
LEMMA LeaveFacts ==
  ASSUME NEW t \in Thread, NEW from, NEW succeeded, LeaveHelp(t, from, succeeded)
  PROVE  /\ UNCHANGED <<word, kcasDesc, rdcssDesc, met, rdcss, script, value>>
         /\ pc[t] = from
         /\ \/ /\ Len(frames[t]) = 1 /\ op[t].op = "kcas"
               /\ pc' = [pc EXCEPT ![t] = "idle"]
               /\ frames' = [frames EXCEPT ![t] = <<>>]
               /\ op' = [op EXCEPT ![t] = None]
               /\ answer' = [answer EXCEPT ![t] = <<"swap", succeeded>>]
               /\ Note
            \/ /\ ~(Len(frames[t]) = 1 /\ op[t].op = "kcas")
               /\ pc' = [pc EXCEPT ![t] = IF Tail(frames[t]) = <<>> THEN "read" ELSE "entry"]
               /\ frames' = [frames EXCEPT ![t] = Tail(@)]
               /\ UNCHANGED <<op, answer, missed>>
BY DEF LeaveHelp, Return, GoTo, Resume, history

(* t meets a tag.                                                          *)
LEMMA MeetFacts ==
  ASSUME NEW t \in Thread, NEW from, NEW tag, Meet(t, from, tag)
  PROVE  /\ UNCHANGED <<word, kcasDesc, rdcssDesc, op, frames, rdcss, script, answer, value, missed>>
         /\ pc[t] = from
         /\ pc' = [pc EXCEPT ![t] = IF IsRdcss(tag) THEN "rdcss.copy" ELSE "kcas.copy"]
         /\ met' = [met EXCEPT ![t] = tag]
BY DEF Meet, GoTo, history

(* t goes on with the next entry.                                          *)
LEMMA NextFacts ==
  ASSUME TypeOK, NEW t \in Thread, frames[t] # <<>>, NEW from, NextEntry(t, from)
  PROVE  /\ pc[t] = from /\ pc' = [pc EXCEPT ![t] = "entry"]
         /\ [Top(t) EXCEPT !.i = @ + 1] \in Frame
         /\ frames' = [frames EXCEPT ![t] = [frames[t] EXCEPT ![1] = [Top(t) EXCEPT !.i = @ + 1]]]
<1>1. [Top(t) EXCEPT !.i = @ + 1] \in Frame
  BY TopForm DEF Frame
<1>2. frames' = [frames EXCEPT ![t] = [frames[t] EXCEPT ![1] = [frames[t][1] EXCEPT !.i = @ + 1]]]
  BY DEF NextEntry, TypeOK
<1>. QED  BY <1>1, <1>2, TopForm DEF NextEntry, GoTo

-----------------------------------------------------------------------------
(* Every step is well typed.                                               *)
LEMMA TypeStep ==
  ASSUME Usage, TypeOK, Stages, OfEntry, MetRdcss, [Next]_vars
  PROVE  TypeOK'
<1>. DEFINE Mem == /\ word' \in [Addr -> WordSet]
                   /\ kcasDesc' \in [Thread -> [seq : Nat, state : Outcome, entries : Plan]]
                   /\ rdcssDesc' \in [Thread -> RdcssSet \cup {[seq |-> 0, old1 |-> None, addr2 |-> None, old2 |-> None]}]
                   /\ value' \in [Addr -> Value]
            Loc == /\ pc' \in [Thread -> Stage]
                   /\ op' \in [Thread -> Called \cup {None}]
                   /\ frames' \in [Thread -> Seq(Frame)]
                   /\ met' \in [Thread -> KcasTags \cup RdcssTags \cup {None}]
                   /\ rdcss' \in [Thread -> RdcssSet \cup Writing \cup {NoRdcss}]
                   /\ script' \in [Thread -> Seq(SUBSET Called)]
                   /\ answer' \in [Thread -> Answer \cup {None}]
<1>m. UNCHANGED missed \/ Note => missed' \in SUBSET Thread
  BY DEF Note, TypeOK
<1>1. CASE UNCHANGED vars
  BY <1>1 DEF vars, TypeOK
<1>2. ASSUME NEW t \in Thread, NEW c, Invoke(t, c)
      PROVE  TypeOK'
  <2>1. c \in Called /\ script' \in [Thread -> Seq(SUBSET Called)]
    BY <1>2 DEF Invoke, TypeOK
  <2>2. CASE c.op = "read"
    <3>1. Mem /\ Loc
      BY <1>2, <2>1, <2>2 DEF Invoke, TypeOK, GoTo, Stage
    <3>. QED  BY <1>2, <1>m, <3>1 DEF TypeOK, Invoke
  <2>3. CASE c.op # "read"
    <3>1. InOrder(c.entries) \in Plan
      BY <2>1, <2>3, CallForm DEF Usage, IsSwap
    <3>2. kcasDesc[t].seq + 1 \in Nat \ {0}
      BY DEF TypeOK
    <3>. DEFINE tag == KcasTag(t, kcasDesc[t].seq + 1)
                f == [tag |-> tag, entries |-> InOrder(c.entries), i |-> 1, newstate |-> "SUCCEEDED"]
    <3>3. tag \in KcasTags
      BY <3>2 DEF KcasTags
    <3>4. f \in Frame
      BY <3>1, <3>3 DEF Frame, Outcome
    <3>5. <<f>> \in Seq(Frame)
      BY <3>4
    <3>. DEFINE d == [seq |-> kcasDesc[t].seq + 1, state |-> "UNDECIDED", entries |-> InOrder(c.entries)]
    <3>6. kcasDesc' \in [Thread -> [seq : Nat, state : Outcome, entries : Plan]]
      <4>1. d \in [seq : Nat, state : Outcome, entries : Plan]
        BY <3>1, <3>2 DEF Outcome
      <4>2. kcasDesc' = [kcasDesc EXCEPT ![t] = d]
        BY <1>2, <2>3 DEF Invoke
      <4>. QED  BY <4>1, <4>2 DEF TypeOK
    <3>7. frames' \in [Thread -> Seq(Frame)]
      BY <1>2, <2>3, <3>5 DEF Invoke, TypeOK
    <3>8. Mem /\ Loc
      BY <1>2, <2>1, <2>3, <3>6, <3>7 DEF Invoke, TypeOK, GoTo, Stage, Helping
    <3>. QED  BY <1>2, <1>m, <3>8 DEF TypeOK, Invoke
  <2>. QED  BY <2>2, <2>3
<1>3. ASSUME NEW t \in Thread, NEW from, NEW succeeded \in BOOLEAN, frames[t] # <<>>, LeaveHelp(t, from, succeeded)
      PROVE  TypeOK'
  <2>1. Tail(frames[t]) \in Seq(Frame) /\ <<>> \in Seq(Frame)
    BY <1>3, Pop DEF TypeOK
  <2>2. <<"swap", succeeded>> \in Answer
    BY DEF Answer
  <2>3. Mem /\ UNCHANGED <<met, rdcss, script>>
    BY <1>3, LeaveFacts DEF TypeOK
  <2>4. Loc
    <3>1. CASE /\ pc' = [pc EXCEPT ![t] = "idle"] /\ frames' = [frames EXCEPT ![t] = <<>>]
               /\ op' = [op EXCEPT ![t] = None] /\ answer' = [answer EXCEPT ![t] = <<"swap", succeeded>>]
      BY <2>1, <2>2, <2>3, <3>1 DEF TypeOK, Stage
    <3>2. CASE /\ pc' = [pc EXCEPT ![t] = IF Tail(frames[t]) = <<>> THEN "read" ELSE "entry"]
               /\ frames' = [frames EXCEPT ![t] = Tail(@)] /\ UNCHANGED <<op, answer>>
      BY <2>1, <2>3, <3>2 DEF TypeOK, Stage, Helping
    <3>. QED  BY <1>3, <3>1, <3>2, LeaveFacts
  <2>. QED  BY <1>3, <1>m, <2>3, <2>4, LeaveFacts DEF TypeOK
<1>4. ASSUME NEW t \in Thread, NEW from, NEW tag \in KcasTags \cup RdcssTags, Meet(t, from, tag)
      PROVE  TypeOK'
  <2>0. /\ pc' = [pc EXCEPT ![t] = IF IsRdcss(tag) THEN "rdcss.copy" ELSE "kcas.copy"]
        /\ met' = [met EXCEPT ![t] = tag]
    BY <1>4, MeetFacts
  <2>1. pc' \in [Thread -> Stage] /\ met' \in [Thread -> KcasTags \cup RdcssTags \cup {None}]
    BY <2>0 DEF TypeOK, Stage, HelpingRdcss
  <2>. QED  BY <1>4, <2>1, MeetFacts DEF TypeOK
<1>5. ASSUME NEW t \in Thread, ReadWord(t)
      PROVE  TypeOK'
  <2>1. IsRead(op[t])
    BY <1>5, CallForm DEF ReadWord, Stages, StageOK, TypeOK
  <2>2. word[op[t].addr] \in WordSet
    BY <2>1 DEF TypeOK, IsRead
  <2>3. CASE IsValue(word[op[t].addr])
    <3>1. <<"read", word[op[t].addr][2]>> \in Answer
      BY <2>2, <2>3, WordForm DEF Answer
    <3>2. Mem /\ Loc
      BY <1>5, <2>3, <3>1 DEF ReadWord, Return, GoTo, TypeOK, Stage
    <3>. QED  BY <1>5, <1>m, <2>3, <3>2 DEF ReadWord, Return, TypeOK
  <2>4. CASE ~IsValue(word[op[t].addr])
    BY <1>4, <1>5, <2>2, <2>4, WordForm DEF ReadWord
  <2>. QED  BY <2>3, <2>4
<1>6. ASSUME NEW t \in Thread, CopyRdcss(t)
      PROVE  TypeOK'
  <2>1. met[t] \in RdcssTags
    BY <1>6 DEF CopyRdcss, GoTo, Stages, StageOK, HelpingRdcss
  <2>. DEFINE d == rdcssDesc[met[t][2]]
  <2>2. met[t][3] <= d.seq /\ met[t][3] \in Nat \ {0} /\ met[t][2] \in Thread
    BY <2>1, WordForm DEF MetRdcss
  <2>3. d \in RdcssSet
    BY <2>2 DEF TypeOK
  <2>4. [d EXCEPT !.seq = met[t][3]] \in RdcssSet
    BY <2>2, <2>3 DEF RdcssSet
  <2>5. rdcss' = [rdcss EXCEPT ![t] = [d EXCEPT !.seq = met[t][3]]]
    BY <1>6 DEF CopyRdcss
  <2>6. rdcss' \in [Thread -> RdcssSet \cup Writing \cup {NoRdcss}]
    BY <2>4, <2>5 DEF TypeOK
  <2>. QED  BY <1>6, <2>6 DEF CopyRdcss, GoTo, TypeOK, Stage, HelpingRdcss, history
<1>7. ASSUME NEW t \in Thread, CheckRdcss(t)
      PROVE  TypeOK'
  BY <1>7 DEF CheckRdcss, GoTo, TypeOK, Stage, Helping, HelpingRdcss, history
<1>8. ASSUME NEW t \in Thread, CopyKcas(t)
      PROVE  TypeOK'
  <2>1. met[t] \in KcasTags
    BY <1>8 DEF CopyKcas, GoTo, Stages, StageOK
  <2>. DEFINE f == [tag |-> met[t], entries |-> kcasDesc[met[t][2]].entries, i |-> 2, newstate |-> "SUCCEEDED"]
  <2>2. f \in Frame
    BY <2>1, WordForm DEF Frame, Outcome, TypeOK
  <2>3. frames' = [frames EXCEPT ![t] = <<f>> \o @]
    BY <1>8 DEF CopyKcas
  <2>4. frames' \in [Thread -> Seq(Frame)]
    BY <2>2, <2>3, Push DEF TypeOK
  <2>. QED  BY <1>8, <2>4 DEF CopyKcas, GoTo, TypeOK, Stage, history
<1>9. ASSUME NEW t \in Thread, CheckKcas(t)
      PROVE  TypeOK'
  <2>1. Tail(frames[t]) \in Seq(Frame)
    BY <1>9, Invoked, Pop DEF CheckKcas, TypeOK
  <2>2. frames' \in [Thread -> Seq(Frame)] /\ pc' \in [Thread -> Stage] /\ met' \in [Thread -> KcasTags \cup RdcssTags \cup {None}]
    BY <1>9, <2>1 DEF CheckKcas, GoTo, TypeOK, Stage, Helping, Resume
  <2>. QED  BY <1>9, <2>2 DEF CheckKcas, TypeOK, history
<1>10. ASSUME NEW t \in Thread, HelpState(t) \/ AllEntries(t)
      PROVE  TypeOK'
  <2>1. CASE HelpState(t) /\ LeaveHelp(t, "help", FALSE)
    BY <1>3, <2>1, Invoked DEF HelpState, Helping
  <2>2. CASE HelpState(t) /\ ~LeaveHelp(t, "help", FALSE)
    BY <2>2 DEF HelpState, GoTo, TypeOK, Stage, Helping, history
  <2>3. CASE AllEntries(t)
    BY <2>3 DEF AllEntries, GoTo, TypeOK, Stage, Helping, history
  <2>. QED  BY <1>10, <2>1, <2>2, <2>3
<1>11. ASSUME NEW t \in Thread, NewRdcss(t)
      PROVE  TypeOK'
  <2>1. frames[t] # <<>> /\ Top(t).i \in 1 .. Len(Top(t).entries)
    BY <1>11, Invoked, TopForm DEF NewRdcss, GoTo, Helping
  <2>. DEFINE e == Top(t).entries[Top(t).i]
              d == [seq |-> rdcssDesc[t].seq + 1, old1 |-> Top(t).tag, addr2 |-> e.addr, old2 |-> e.old]
  <2>2. e \in Entry
    BY <2>1, TopForm DEF Plan
  <2>3. d \in RdcssSet
    <3>1. rdcssDesc[t].seq + 1 \in Nat \ {0}
      BY SeqForm
    <3>. QED  BY <2>1, <2>2, <3>1, TopForm DEF RdcssSet, Entry
  <2>4. rdcssDesc' = [rdcssDesc EXCEPT ![t] = d]
    BY <1>11 DEF NewRdcss
  <2>5. rdcssDesc' \in [Thread -> RdcssSet \cup {[seq |-> 0, old1 |-> None, addr2 |-> None, old2 |-> None]}]
    BY <2>3, <2>4 DEF TypeOK
  <2>. QED  BY <1>11, <2>5 DEF NewRdcss, GoTo, TypeOK, Stage, Helping, history
<1>12. ASSUME NEW t \in Thread, NEW from, frames[t] # <<>>, NextEntry(t, from),
              UNCHANGED <<kcasDesc, rdcssDesc, op, script, answer, value, missed>>,
              word' \in [Addr -> WordSet],
              met' \in [Thread -> KcasTags \cup RdcssTags \cup {None}],
              rdcss' \in [Thread -> RdcssSet \cup Writing \cup {NoRdcss}]
      PROVE  TypeOK'
  <2>. DEFINE f == [Top(t) EXCEPT !.i = @ + 1]
  <2>0. f \in Frame /\ frames' = [frames EXCEPT ![t] = [frames[t] EXCEPT ![1] = f]]
    BY <1>12, NextFacts
  <2>1. frames' \in [Thread -> Seq(Frame)]
    BY <1>12, <2>0, Change DEF TypeOK
  <2>2. pc' \in [Thread -> Stage]
    BY <1>12, NextFacts DEF TypeOK, Stage, Helping
  <2>. QED  BY <1>12, <2>1, <2>2 DEF TypeOK
<1>13. ASSUME NEW t \in Thread, NEW s \in Outcome, frames[t] # <<>>
      PROVE  [frames EXCEPT ![t][1].newstate = s] \in [Thread -> Seq(Frame)]
  <2>1. [frames[t][1] EXCEPT !.newstate = s] \in Frame
    BY <1>13, TopForm DEF Frame
  <2>2. [frames EXCEPT ![t][1].newstate = s] = [frames EXCEPT ![t] = [frames[t] EXCEPT ![1] = [frames[t][1] EXCEPT !.newstate = s]]]
    BY DEF TypeOK
  <2>. QED  BY <1>13, <2>1, <2>2, Change DEF TypeOK
<1>14. ASSUME NEW t \in Thread, RdcssCas(t)
      PROVE  TypeOK'
  <2>1. pc[t] = "rdcss.cas" /\ frames[t] # <<>>
    BY <1>14, Invoked DEF RdcssCas, Helping
  <2>. DEFINE d == rdcssDesc[t]
              r == word[d.addr2]
  <2>2. d \in RdcssSet
    BY <2>1, EntryForm DEF AtEntry
  <2>3. OwnRdcss(t) \in RdcssTags /\ r \in WordSet
    BY <2>2 DEF OwnRdcss, RdcssTags, RdcssSet, TypeOK
  <2>4. CASE r = Plain(d.old2)
    <3>0. /\ pc' = [pc EXCEPT ![t] = "rdcss.state"]
          /\ word' = [word EXCEPT ![d.addr2] = OwnRdcss(t)]
          /\ rdcss' = [rdcss EXCEPT ![t] = d]
          /\ met' = [met EXCEPT ![t] = OwnRdcss(t)]
          /\ UNCHANGED <<frames, kcasDesc, rdcssDesc, op, script, answer, value, missed>>
      BY <1>14, <2>4, Kinds, WordForm, TopForm, <2>1 DEF RdcssCas, GoTo, history
    <3>1. OwnRdcss(t) \in WordSet
      BY <2>3 DEF WordSet
    <3>2. word' \in [Addr -> WordSet] /\ rdcss' \in [Thread -> RdcssSet \cup Writing \cup {NoRdcss}]
      BY <2>2, <3>0, <3>1 DEF TypeOK
    <3>3. met' \in [Thread -> KcasTags \cup RdcssTags \cup {None}] /\ pc' \in [Thread -> Stage]
      BY <2>3, <3>0 DEF TypeOK, Stage, HelpingRdcss
    <3>. QED  BY <3>0, <3>2, <3>3 DEF TypeOK
  <2>5. CASE (IsRdcss(r) \/ (IsKcas(r) /\ r # Top(t).tag)) /\ Meet(t, "rdcss.cas", r)
    BY <1>4, <2>3, <2>5, WordForm
  <2>6. CASE r = Top(t).tag /\ NextEntry(t, "rdcss.cas") /\ UNCHANGED <<word, met, rdcss>>
    BY <1>12, <1>14, <2>1, <2>6 DEF RdcssCas, TypeOK, history
  <2>7. CASE /\ GoTo(t, "rdcss.cas", "decide")
             /\ frames' = [frames EXCEPT ![t][1].newstate = "FAILED"]
             /\ UNCHANGED <<word, met, rdcss>>
    BY <1>13, <1>14, <2>1, <2>7 DEF RdcssCas, GoTo, TypeOK, Stage, Helping, Outcome, history
  <2>. QED  BY <1>14, <2>4, <2>5, <2>6, <2>7 DEF RdcssCas
<1>15. ASSUME NEW t \in Thread, RdcssState(t)
      PROVE  TypeOK'
  <2>1. rdcss[t] \in RdcssSet
    BY <1>15 DEF RdcssState, GoTo, Stages, StageOK
  <2>. DEFINE w == [addr2 |-> rdcss[t].addr2, new |-> IF Undecided(rdcss[t].old1) THEN rdcss[t].old1 ELSE Plain(rdcss[t].old2)]
  <2>2. w \in Writing
    BY <2>1 DEF Writing, RdcssSet
  <2>3. rdcss' = [rdcss EXCEPT ![t] = w]
    BY <1>15 DEF RdcssState, TypeOK
  <2>4. rdcss' \in [Thread -> RdcssSet \cup Writing \cup {NoRdcss}]
    BY <2>2, <2>3 DEF TypeOK
  <2>. QED  BY <1>15, <2>4 DEF RdcssState, GoTo, TypeOK, Stage, HelpingRdcss, history
<1>16. ASSUME NEW t \in Thread, RdcssWrite(t)
      PROVE  TypeOK'
  <2>1. rdcss[t] \in Writing /\ met[t] \in RdcssTags
    BY <1>16 DEF RdcssWrite, Stages, StageOK, HelpingRdcss
  <2>2. word' \in [Addr -> WordSet]
    BY <1>16, <2>1 DEF RdcssWrite, Writing, WordSet, TypeOK
  <2>3. met' \in [Thread -> KcasTags \cup RdcssTags \cup {None}] /\ rdcss' \in [Thread -> RdcssSet \cup Writing \cup {NoRdcss}]
    BY <1>16 DEF RdcssWrite, TypeOK
  <2>4. UNCHANGED <<kcasDesc, rdcssDesc, op, script, answer, value, missed>>
    BY <1>16 DEF RdcssWrite, history
  <2>5. CASE frames[t] # <<>> /\ NextEntry(t, "rdcss.write")
    BY <1>12, <2>2, <2>3, <2>4, <2>5
  <2>6. CASE UNCHANGED frames /\ GoTo(t, "rdcss.write", IF frames[t] = <<>> THEN "read" ELSE "rdcss.cas")
    BY <2>2, <2>3, <2>4, <2>6 DEF GoTo, TypeOK, Stage, Helping
  <2>7. met[t] = OwnRdcss(t) => frames[t] # <<>>
    BY <1>16 DEF RdcssWrite, MetRdcss, HelpingRdcss
  <2>. QED  BY <1>16, <2>5, <2>6, <2>7 DEF RdcssWrite
<1>17. ASSUME NEW t \in Thread, Decide(t)
      PROVE  TypeOK'
  <2>1. pc[t] = "decide" /\ frames[t] # <<>>
    BY <1>17, Invoked DEF Decide, GoTo, Helping
  <2>2. Top(t) \in Frame /\ Top(t).tag[2] \in Thread
    BY <2>1, TopForm
  <2>3. kcasDesc' \in [Thread -> [seq : Nat, state : Outcome, entries : Plan]]
    <3>. DEFINE d == kcasDesc[Top(t).tag[2]]
    <3>1. [d EXCEPT !.state = Top(t).newstate] \in [seq : Nat, state : Outcome, entries : Plan]
      <4>1. d \in [seq : Nat, state : Outcome, entries : Plan] /\ Top(t).newstate \in Outcome
        BY <2>2 DEF TypeOK, Frame
      <4>. QED  BY <4>1
    <3>2. kcasDesc' = kcasDesc \/ kcasDesc' = [kcasDesc EXCEPT ![Top(t).tag[2]] = [d EXCEPT !.state = Top(t).newstate]]
      BY <1>17, <2>2 DEF Decide, TypeOK
    <3>. QED  BY <2>2, <3>1, <3>2 DEF TypeOK
  <2>4. value' \in [Addr -> Value]
    <3>1. ASSUME NEW a \in Addr, \E e \in Entries(Top(t).entries) : e.addr = a
          PROVE  (CHOOSE e \in Entries(Top(t).entries) : e.addr = a).new \in Value
      <4>1. \A e \in Entries(Top(t).entries) : e \in Entry
        BY <2>2 DEF Entries, ToSet, Frame, Plan
      <4>. QED  BY <3>1, <4>1 DEF Entry
    <3>2. value' = value
          \/ value' = [a \in Addr |-> IF \E e \in Entries(Top(t).entries) : e.addr = a
                                      THEN (CHOOSE e \in Entries(Top(t).entries) : e.addr = a).new ELSE value[a]]
      BY <1>17 DEF Decide
    <3>. QED  BY <3>1, <3>2 DEF TypeOK
  <2>. QED  BY <1>17, <1>m, <2>3, <2>4 DEF Decide, GoTo, TypeOK, Stage, Helping
<1>18. ASSUME NEW t \in Thread, ReadOutcome(t)
      PROVE  TypeOK'
  <2>1. pc[t] = "phase2" /\ frames[t] # <<>>
    BY <1>18, Invoked DEF ReadOutcome, Helping
  <2>2. CASE ~Current(Top(t).tag)
    BY <1>3, <1>18, <2>1, <2>2 DEF ReadOutcome
  <2>3. CASE Current(Top(t).tag)
    <3>. DEFINE s == kcasDesc[Top(t).tag[2]].state
                f == [Top(t) EXCEPT !.i = 1, !.newstate = s]
    <3>0. Top(t) \in Frame /\ Top(t) = frames[t][1] /\ s \in Outcome
      BY <2>1, TopForm DEF TypeOK
    <3>1. f \in Frame
      BY <3>0, SecondPhase
    <3>2. frames' = [frames EXCEPT ![t] = [frames[t] EXCEPT ![1] = f]]
      <4>1. frames' = [frames EXCEPT ![t][1].i = 1, ![t][1].newstate = s]
        BY <1>18, <2>3 DEF ReadOutcome
      <4>2. frames[t] \in Seq(Frame) /\ 1 \in DOMAIN frames[t]
        BY <2>1, TopForm DEF TypeOK
      <4>. QED  BY <3>0, <4>1, <4>2 DEF TypeOK
    <3>3. frames' \in [Thread -> Seq(Frame)]
      BY <2>1, <3>1, <3>2, Change DEF TypeOK
    <3>. QED  BY <1>18, <2>3, <3>3 DEF ReadOutcome, GoTo, TypeOK, Stage, Helping, history
  <2>. QED  BY <2>2, <2>3
<1>19. ASSUME NEW t \in Thread, Release(t)
      PROVE  TypeOK'
  <2>1. pc[t] = "release" /\ frames[t] # <<>>
    BY <1>19, Invoked DEF Release, GoTo, Helping
  <2>. DEFINE f == Top(t)
              e == f.entries[f.i]
  <2>2. e \in Entry
    <3>1. f.i \in 1 .. Len(f.entries)
      BY <1>19, <2>1, TopForm DEF Release
    <3>. QED  BY <2>1, <3>1, TopForm DEF Plan
  <2>3. word' \in [Addr -> WordSet]
    BY <1>19, <2>2 DEF Release, WordSet, Entry, TypeOK
  <2>4. frames' \in [Thread -> Seq(Frame)]
    <3>1. [f EXCEPT !.i = @ + 1] \in Frame
      BY <2>1, TopForm DEF Frame
    <3>2. frames' = [frames EXCEPT ![t] = [frames[t] EXCEPT ![1] = [f EXCEPT !.i = @ + 1]]]
      BY <1>19, <2>1, TopForm DEF Release, TypeOK
    <3>. QED  BY <2>1, <3>1, <3>2, Change DEF TypeOK
  <2>. QED  BY <1>19, <2>3, <2>4 DEF Release, GoTo, TypeOK, Stage, Helping, history
<1>20. ASSUME NEW t \in Thread, HelpDone(t)
      PROVE  TypeOK'
  BY <1>3, <1>20, Invoked DEF HelpDone, Helping
<1>. QED
  BY <1>1, <1>2, <1>5, <1>6, <1>7, <1>8, <1>9, <1>10, <1>11, <1>14, <1>15, <1>16, <1>17, <1>18, <1>19, <1>20
  DEF Next, Step

-----------------------------------------------------------------------------
(* A step of t changes nothing of what is local to other threads.          *)
Alone(t) ==
  \A u \in Thread \ {t} :
    /\ pc'[u] = pc[u] /\ op'[u] = op[u] /\ frames'[u] = frames[u]
    /\ met'[u] = met[u] /\ rdcss'[u] = rdcss[u] /\ rdcssDesc'[u] = rdcssDesc[u]

(* Neither a step nor a call does.                                         *)
LEMMA AloneStep ==
  ASSUME TypeOK, Stages, NEW t \in Thread, Step(t) \/ \E c : Invoke(t, c)
  PROVE  Alone(t)
<1>1. ASSUME NEW from, NEW succeeded, LeaveHelp(t, from, succeeded)
      PROVE  Alone(t)
  <2>1. UNCHANGED <<rdcssDesc, met, rdcss>>
    BY <1>1, LeaveFacts
  <2>2. \A u \in Thread \ {t} : pc'[u] = pc[u] /\ op'[u] = op[u] /\ frames'[u] = frames[u]
    <3>1. \E p, o, f : /\ pc' = [pc EXCEPT ![t] = p] /\ op' = [op EXCEPT ![t] = o]
                       /\ frames' = [frames EXCEPT ![t] = f]
      <4>1. op = [op EXCEPT ![t] = op[t]]
        BY DEF TypeOK
      <4>. QED  BY <1>1, <4>1, LeaveFacts
    <3>. QED  BY <3>1 DEF TypeOK
  <2>. QED  BY <2>1, <2>2 DEF Alone
<1>2. ASSUME NEW from, NEW tag, Meet(t, from, tag)
      PROVE  Alone(t)
  BY <1>2, MeetFacts DEF TypeOK, Alone
<1>3. ASSUME NEW c, Invoke(t, c)
      PROVE  Alone(t)
  BY <1>3 DEF Invoke, GoTo, TypeOK, Alone
<1>4. CASE ReadWord(t)
  BY <1>2, <1>4 DEF ReadWord, Return, GoTo, TypeOK, Alone
<1>5. CASE CopyRdcss(t) \/ CheckRdcss(t) \/ CopyKcas(t) \/ CheckKcas(t)
  BY <1>5 DEF CopyRdcss, CheckRdcss, CopyKcas, CheckKcas, GoTo, TypeOK, Alone
<1>6. CASE HelpState(t)
  BY <1>1, <1>6 DEF HelpState, GoTo, TypeOK, Alone
<1>7. CASE NewRdcss(t) \/ RdcssState(t) \/ AllEntries(t) \/ Decide(t) \/ Release(t)
  BY <1>7 DEF NewRdcss, RdcssState, AllEntries, Decide, Release, GoTo, TypeOK, Alone
<1>8. CASE RdcssCas(t)
  <2>1. CASE Meet(t, "rdcss.cas", word[rdcssDesc[t].addr2])
    BY <1>2, <2>1
  <2>2. CASE ~Meet(t, "rdcss.cas", word[rdcssDesc[t].addr2])
    BY <1>8, <2>2 DEF RdcssCas, NextEntry, GoTo, TypeOK, Alone
  <2>. QED  BY <2>1, <2>2
<1>9. CASE RdcssWrite(t)
  BY <1>9 DEF RdcssWrite, NextEntry, GoTo, TypeOK, Alone
<1>10. CASE ReadOutcome(t)
  BY <1>1, <1>10 DEF ReadOutcome, GoTo, TypeOK, Alone
<1>11. CASE HelpDone(t)
  BY <1>1, <1>11 DEF HelpDone
<1>. QED
  BY <1>3, <1>4, <1>5, <1>6, <1>7, <1>8, <1>9, <1>10, <1>11 DEF Step

(* The descriptors change when an operation is called or decided.          *)
LEMMA DescSteps ==
  ASSUME TypeOK, Stages, NEW t \in Thread, Step(t)
  PROVE  UNCHANGED kcasDesc \/ (Decide(t) /\ Undecided(Top(t).tag))
<1>1. ASSUME NEW from, NEW succeeded, LeaveHelp(t, from, succeeded)
      PROVE  UNCHANGED kcasDesc
  BY <1>1, LeaveFacts
<1>2. ASSUME NEW from, NEW tag, Meet(t, from, tag)
      PROVE  UNCHANGED kcasDesc
  BY <1>2, MeetFacts
<1>4. CASE ReadWord(t)
  BY <1>2, <1>4 DEF ReadWord, Return
<1>5. CASE CopyRdcss(t) \/ CheckRdcss(t) \/ CopyKcas(t) \/ CheckKcas(t)
  BY <1>5 DEF CopyRdcss, CheckRdcss, CopyKcas, CheckKcas
<1>6. CASE HelpState(t) \/ ReadOutcome(t) \/ HelpDone(t)
  BY <1>1, <1>6 DEF HelpState, ReadOutcome, HelpDone
<1>7. CASE NewRdcss(t) \/ RdcssState(t) \/ AllEntries(t) \/ Release(t) \/ RdcssCas(t) \/ RdcssWrite(t)
  BY <1>7 DEF NewRdcss, RdcssState, AllEntries, Release, RdcssCas, RdcssWrite
<1>8. CASE Decide(t)
  BY <1>8 DEF Decide
<1>. QED  BY <1>4, <1>5, <1>6, <1>7, <1>8 DEF Step

(* What t's call does to its descriptor.                                   *)
LEMMA InvokeFacts ==
  ASSUME Usage, TypeOK, Stages, NEW t \in Thread, NEW c, Invoke(t, c)
  PROVE  /\ pc[t] = "idle" /\ op[t] = None /\ frames[t] = <<>> /\ c \in Called
         /\ op'[t] = c /\ op' = [op EXCEPT ![t] = c]
         /\ UNCHANGED <<word, rdcssDesc, met, rdcss, answer, value>> /\ Note
         /\ \/ /\ c.op = "read" /\ pc'[t] = "read" /\ UNCHANGED <<kcasDesc, frames>> /\ IsRead(c)
            \/ /\ c.op = "kcas" /\ pc'[t] = "help" /\ IsSwap(c) /\ InOrder(c.entries) \in Plan
               /\ Entries(InOrder(c.entries)) = Entries(c.entries)
               /\ kcasDesc' = [kcasDesc EXCEPT ![t] =
                    [seq |-> kcasDesc[t].seq + 1, state |-> "UNDECIDED", entries |-> InOrder(c.entries)]]
               /\ frames'[t] = <<[tag |-> KcasTag(t, kcasDesc[t].seq + 1), entries |-> InOrder(c.entries), i |-> 1,
                                  newstate |-> "SUCCEEDED"]>>
<1>1. c \in Called
  BY DEF Invoke, TypeOK
<1>2. /\ pc[t] = "idle" /\ op' = [op EXCEPT ![t] = c] /\ op[t] = None /\ frames[t] = <<>> /\ Note
      /\ UNCHANGED <<word, rdcssDesc, met, rdcss, answer, value>>
  BY DEF Invoke, Stages, StageOK
<1>3. CASE c.op = "read"
  BY <1>1, <1>2, <1>3, CallForm DEF Invoke, GoTo, TypeOK
<1>4. CASE c.op # "read"
  <2>1. c.op = "kcas" /\ IsSwap(c)
    BY <1>1, <1>4, CallForm
  <2>2. InOrder(c.entries) \in Plan /\ Entries(InOrder(c.entries)) = Entries(c.entries)
    BY <2>1 DEF Usage, IsSwap, Entries
  <2>. QED  BY <1>1, <1>2, <1>4, <2>1, <2>2 DEF Invoke, GoTo, TypeOK
<1>. QED  BY <1>3, <1>4

(* t decides an operation.                                                 *)
LEMMA DecideFacts ==
  ASSUME TypeOK, Stages, NEW t \in Thread, Decide(t)
  PROVE  /\ frames[t] # <<>> /\ pc[t] = "decide" /\ pc' = [pc EXCEPT ![t] = "phase2"]
         /\ UNCHANGED <<word, rdcssDesc, op, frames, met, rdcss, script, answer>> /\ Note
         /\ Undecided(Top(t).tag) =>
              kcasDesc' = [kcasDesc EXCEPT ![Top(t).tag[2]] = [kcasDesc[Top(t).tag[2]] EXCEPT !.state = Top(t).newstate]]
         /\ ~Undecided(Top(t).tag) => UNCHANGED <<kcasDesc, value>>
<1>1. frames[t] # <<>> /\ pc[t] = "decide"
  BY Invoked DEF Decide, GoTo, Helping
<1>2. Top(t).tag[2] \in Thread
  BY <1>1, TopForm
<1>3. /\ pc' = [pc EXCEPT ![t] = "phase2"] /\ Note
      /\ UNCHANGED <<word, rdcssDesc, op, frames, met, rdcss, script, answer>>
  BY DEF Decide, GoTo
<1>4. Undecided(Top(t).tag) => kcasDesc' = [kcasDesc EXCEPT ![Top(t).tag[2]].state = Top(t).newstate]
  BY DEF Decide
<1>5. ~Undecided(Top(t).tag) => UNCHANGED <<kcasDesc, value>>
  BY DEF Decide
<1>. QED  BY <1>1, <1>2, <1>3, <1>4, <1>5 DEF TypeOK

(* t begins to release the words of an operation.                          *)
LEMMA OutcomeFacts ==
  ASSUME TypeOK, Stages, NEW t \in Thread, ReadOutcome(t), Current(Top(t).tag)
  PROVE  /\ frames[t] # <<>> /\ pc[t] = "phase2" /\ pc'[t] = "release" /\ op'[t] = op[t] /\ op[t] # None
         /\ UNCHANGED <<word, kcasDesc, rdcssDesc, op, met, rdcss, script, answer, value, missed>>
         /\ \E f \in Frame : /\ f.tag = Top(t).tag /\ f.entries = Top(t).entries
                             /\ f.newstate = kcasDesc[Top(t).tag[2]].state
                             /\ frames'[t] = [frames[t] EXCEPT ![1] = f]
<1>1. frames[t] # <<>> /\ pc[t] = "phase2" /\ op[t] # None
  BY Invoked DEF ReadOutcome, Helping
<1>. DEFINE s == kcasDesc[Top(t).tag[2]].state
            f == [Top(t) EXCEPT !.i = 1, !.newstate = s]
<1>2. Top(t) \in Frame /\ Top(t) = frames[t][1] /\ s \in Outcome /\ frames[t] \in Seq(Frame) /\ 1 \in DOMAIN frames[t]
  BY <1>1, TopForm DEF TypeOK
<1>3. f \in Frame /\ f.tag = Top(t).tag /\ f.entries = Top(t).entries /\ f.newstate = s
  BY <1>2, SecondPhase
<1>4. frames' = [frames EXCEPT ![t][1].i = 1, ![t][1].newstate = s]
  BY DEF ReadOutcome
<1>5. frames'[t] = [frames[t] EXCEPT ![1] = f]
  BY <1>2, <1>4 DEF TypeOK
<1>6. /\ pc'[t] = "release"
      /\ UNCHANGED <<word, kcasDesc, rdcssDesc, op, met, rdcss, script, answer, value, missed>>
  BY DEF ReadOutcome, GoTo, TypeOK, history
<1>. QED  BY <1>1, <1>3, <1>5, <1>6

(* t releases a word.                                                      *)
LEMMA ReleaseFacts ==
  ASSUME TypeOK, Stages, NEW t \in Thread, Release(t)
  PROVE  /\ frames[t] # <<>> /\ pc[t] = "release" /\ pc'[t] = "release" /\ op'[t] = op[t] /\ op[t] # None
         /\ UNCHANGED <<kcasDesc, rdcssDesc, op, met, rdcss, script, answer, value, missed>>
         /\ \E f \in Frame : /\ f.tag = Top(t).tag /\ f.entries = Top(t).entries
                             /\ f.newstate = Top(t).newstate
                             /\ frames'[t] = [frames[t] EXCEPT ![1] = f]
         /\ Top(t).i \in DOMAIN Top(t).entries
<1>1. frames[t] # <<>> /\ pc[t] = "release" /\ op[t] # None
  BY Invoked DEF Release, GoTo, Helping
<1>. DEFINE f == [Top(t) EXCEPT !.i = @ + 1]
<1>2. Top(t) \in Frame /\ Top(t) = frames[t][1] /\ frames[t] \in Seq(Frame) /\ 1 \in DOMAIN frames[t]
  BY <1>1, TopForm DEF TypeOK
<1>3. f \in Frame /\ f.tag = Top(t).tag /\ f.entries = Top(t).entries /\ f.newstate = Top(t).newstate
  BY <1>2 DEF Frame
<1>4. frames'[t] = [frames[t] EXCEPT ![1] = f]
  BY <1>2 DEF Release, TypeOK
<1>5. /\ pc'[t] = "release"
      /\ UNCHANGED <<kcasDesc, rdcssDesc, op, met, rdcss, script, answer, value, missed>>
  BY DEF Release, GoTo, TypeOK, history
<1>6. Top(t).i \in DOMAIN Top(t).entries
  BY <1>1, TopForm DEF Release, Plan
<1>. QED  BY <1>1, <1>3, <1>4, <1>5, <1>6

-----------------------------------------------------------------------------
(* The history goes on: what the descriptors hold now, and what they held. *)
Later(h) ==
  [tag \in KcasTags |->
     IF kcasDesc'[tag[2]].seq = tag[3]
     THEN [entries |-> kcasDesc'[tag[2]].entries, outcome |-> kcasDesc'[tag[2]].state]
     ELSE h[tag]]

(* An operation that has been called keeps its entries, and its outcome    *)
(* once it is decided.                                                     *)
Kept(g, h) ==
  \A tag \in KcasTags : Issued(tag) =>
    /\ Issued(tag)' /\ (Current(tag)' => Current(tag))
    /\ g[tag].entries = h[tag].entries
    /\ g[tag] = h[tag] \/ (Open(h, tag) /\ ~Open(g, tag))

(* It is a history of all operations, and says what the descriptors hold.  *)
LEMMA HistoryStep ==
  ASSUME Usage, TypeOK, TypeOK', Stages, NEW h \in Histories, Descriptors(h), Frames(h),
         NEW t \in Thread, Step(t) \/ \E c : Invoke(t, c), NEW g, g = Later(h)
  PROVE  /\ g \in Histories /\ Kept(g, h)
         /\ \A u \in Thread : kcasDesc'[u].seq > 0 =>
              g[OwnTag(u)'] = [entries |-> kcasDesc'[u].entries, outcome |-> kcasDesc'[u].state]
         /\ \A tag \in KcasTags : tag[3] < kcasDesc'[tag[2]].seq => ~Open(g, tag)
         /\ UNCHANGED kcasDesc => g = h
<1>1. g \in Histories
  BY WordForm DEF Later, Histories, TypeOK
<1>2. ASSUME NEW u \in Thread, kcasDesc'[u].seq > 0
      PROVE  g[OwnTag(u)'] = [entries |-> kcasDesc'[u].entries, outcome |-> kcasDesc'[u].state]
  <2>1. kcasDesc'[u].seq \in Nat \ {0}
    BY <1>2 DEF TypeOK
  <2>2. OwnTag(u)' = KcasTag(u, kcasDesc'[u].seq)
    BY DEF OwnTag
  <2>3. OwnTag(u)' \in KcasTags /\ OwnTag(u)'[2] = u /\ OwnTag(u)'[3] = kcasDesc'[u].seq
    BY <2>1, <2>2, WordForm DEF KcasTags
  <2>. QED  BY <2>3 DEF Later
<1>3. ASSUME NEW tag \in KcasTags, tag[3] = kcasDesc[tag[2]].seq
      PROVE  h[tag] = [entries |-> kcasDesc[tag[2]].entries, outcome |-> kcasDesc[tag[2]].state]
  <2>1. tag = OwnTag(tag[2]) /\ tag[2] \in Thread /\ tag[3] \in Nat \ {0}
    BY <1>3, WordForm DEF OwnTag
  <2>2. kcasDesc[tag[2]].seq > 0
    BY <1>3, <2>1
  <2>. QED  BY <2>1, <2>2 DEF Descriptors
<1>4. ASSUME NEW tag \in KcasTags PROVE tag[2] \in Thread /\ tag[3] \in Nat \ {0} /\ kcasDesc[tag[2]].seq \in Nat
  BY WordForm, SeqForm
<1>5. CASE UNCHANGED kcasDesc
  <2>1. ASSUME NEW tag \in KcasTags PROVE g[tag] = h[tag]
    BY <1>3, <1>5, WordForm DEF Later
  <2>2. g = h
    BY <1>1, <2>1 DEF Histories
  <2>3. Kept(g, h)
    BY <1>5, <2>2 DEF Kept, Issued, Current
  <2>. QED  BY <1>1, <1>2, <1>5, <2>2, <2>3 DEF Descriptors, Open
<1>6. ASSUME NEW c, Invoke(t, c), c.op = "kcas"
      PROVE  /\ Kept(g, h)
             /\ \A tag \in KcasTags : tag[3] < kcasDesc'[tag[2]].seq => ~Open(g, tag)
             /\ ~UNCHANGED kcasDesc
  <2>1. /\ kcasDesc' = [kcasDesc EXCEPT ![t] =
              [seq |-> kcasDesc[t].seq + 1, state |-> "UNDECIDED", entries |-> InOrder(c.entries)]]
        /\ op[t] = None
    BY <1>6, InvokeFacts
  <2>2. /\ kcasDesc'[t].seq = kcasDesc[t].seq + 1
        /\ \A u \in Thread \ {t} : kcasDesc'[u] = kcasDesc[u]
    BY <2>1 DEF TypeOK
  <2>3. kcasDesc[t].seq > 0 => kcasDesc[t].state # "UNDECIDED"
    BY <2>1 DEF Descriptors, Swaps
  <2>4. ASSUME NEW tag \in KcasTags, Issued(tag)
        PROVE  /\ Issued(tag)' /\ (Current(tag)' => Current(tag)) /\ g[tag] = h[tag]
               /\ tag[3] < kcasDesc'[tag[2]].seq => ~Open(g, tag)
    <3>1. CASE tag[2] = t
      <4>1. tag[3] <= kcasDesc[t].seq /\ kcasDesc[t].seq \in Nat /\ tag[3] \in Nat \ {0}
        BY <1>4, <2>4, <3>1 DEF Issued
      <4>2. Issued(tag)' /\ ~Current(tag)' /\ g[tag] = h[tag]
        BY <2>2, <3>1, <4>1 DEF Issued, Current, Later
      <4>3. ~Open(h, tag)
        <5>1. CASE tag[3] < kcasDesc[t].seq
          BY <3>1, <5>1 DEF Descriptors, Open
        <5>2. CASE tag[3] = kcasDesc[t].seq
          <6>1. h[tag] = [entries |-> kcasDesc[t].entries, outcome |-> kcasDesc[t].state]
            BY <1>3, <3>1, <5>2
          <6>2. kcasDesc[t].seq > 0
            BY <4>1, <5>2
          <6>. QED  BY <2>3, <6>1, <6>2 DEF Open
        <5>. QED  BY <4>1, <5>1, <5>2
      <4>. QED  BY <4>2, <4>3 DEF Open
    <3>2. CASE tag[2] # t
      <4>1. kcasDesc'[tag[2]] = kcasDesc[tag[2]]
        BY <1>4, <2>2, <3>2
      <4>2. g[tag] = h[tag]
        BY <1>3, <1>4, <4>1 DEF Later
      <4>. QED  BY <2>4, <4>1, <4>2 DEF Issued, Current, Descriptors, Open
    <3>. QED  BY <3>1, <3>2
  <2>5. ASSUME NEW tag \in KcasTags, tag[3] < kcasDesc'[tag[2]].seq
        PROVE  Issued(tag)
    BY <1>4, <2>2, <2>5 DEF Issued
  <2>6. ~UNCHANGED kcasDesc
    BY <2>2, SeqForm
  <2>. QED  BY <2>4, <2>5, <2>6 DEF Kept
<1>7. ASSUME Decide(t), Undecided(Top(t).tag), ~UNCHANGED kcasDesc
      PROVE  /\ Kept(g, h)
             /\ \A tag \in KcasTags : tag[3] < kcasDesc'[tag[2]].seq => ~Open(g, tag)
  <2>. DEFINE v == Top(t).tag[2]
              d == [kcasDesc[v] EXCEPT !.state = Top(t).newstate]
  <2>1. kcasDesc' = [kcasDesc EXCEPT ![v] = d] /\ frames[t] # <<>> /\ pc[t] = "decide"
    BY <1>7, DecideFacts
  <2>2. v \in Thread /\ Top(t) = frames[t][1] /\ 1 \in DOMAIN frames[t] /\ Top(t).tag \in KcasTags
    BY <2>1, TopForm
  <2>3. /\ \A u \in Thread \ {v} : kcasDesc'[u] = kcasDesc[u]
        /\ kcasDesc'[v].seq = kcasDesc[v].seq /\ kcasDesc'[v].entries = kcasDesc[v].entries
        /\ kcasDesc'[v].state = Top(t).newstate
    BY <2>1, <2>2 DEF TypeOK
  <2>4. Top(t).newstate \in {"SUCCEEDED", "FAILED"}
    BY <2>1, <2>2 DEF Frames, FrameOK, Fits
  <2>5. kcasDesc[v].state = "UNDECIDED"
    BY <1>7 DEF Undecided
  <2>6. ASSUME NEW tag \in KcasTags
        PROVE  /\ kcasDesc'[tag[2]].seq = kcasDesc[tag[2]].seq
               /\ g[tag].entries = h[tag].entries
               /\ g[tag] = h[tag] \/ (Current(tag) /\ Open(h, tag) /\ ~Open(g, tag))
    <3>1. CASE tag[2] = v /\ Current(tag)
      <4>1. h[tag] = [entries |-> kcasDesc[v].entries, outcome |-> "UNDECIDED"]
        BY <1>3, <2>5, <3>1 DEF Current
      <4>2. g[tag] = [entries |-> kcasDesc[v].entries, outcome |-> Top(t).newstate]
        BY <2>3, <3>1 DEF Current, Later
      <4>. QED  BY <2>3, <2>4, <3>1, <4>1, <4>2 DEF Open
    <3>2. CASE ~(tag[2] = v /\ Current(tag))
      <4>1. kcasDesc'[tag[2]].seq = kcasDesc[tag[2]].seq /\ (Current(tag) => kcasDesc'[tag[2]] = kcasDesc[tag[2]])
        BY <1>4, <2>3, <3>2
      <4>. QED  BY <1>3, <4>1 DEF Current, Later
    <3>. QED  BY <3>1, <3>2
  <2>. QED  BY <2>6, <1>4 DEF Kept, Issued, Current, Descriptors, Open
<1>8. CASE Step(t)
  BY <1>1, <1>2, <1>5, <1>7, <1>8, DescSteps
<1>9. ASSUME NEW c, Invoke(t, c)
      PROVE  UNCHANGED kcasDesc \/ c.op = "kcas"
  BY <1>9, InvokeFacts
<1>. QED  BY <1>1, <1>2, <1>5, <1>6, <1>8, <1>9

-----------------------------------------------------------------------------
(* A descriptor belongs to the same operation until its thread calls the   *)
(* next one.                                                               *)
LEMMA SeqKept ==
  ASSUME Usage, TypeOK, Stages, NEW t \in Thread, Step(t) \/ \E c : Invoke(t, c), NEW u \in Thread, u # t \/ Step(t)
  PROVE  /\ kcasDesc'[u].seq = kcasDesc[u].seq /\ kcasDesc'[u].entries = kcasDesc[u].entries
         /\ OwnTag(u)' = OwnTag(u)
<1>1. CASE UNCHANGED kcasDesc
  BY <1>1 DEF OwnTag
<1>2. CASE Decide(t) /\ Undecided(Top(t).tag)
  <2>1. kcasDesc' = [kcasDesc EXCEPT ![Top(t).tag[2]] = [kcasDesc[Top(t).tag[2]] EXCEPT !.state = Top(t).newstate]]
    BY <1>2, DecideFacts
  <2>2. kcasDesc'[u].seq = kcasDesc[u].seq /\ kcasDesc'[u].entries = kcasDesc[u].entries
    BY <2>1 DEF TypeOK
  <2>. QED  BY <2>2 DEF OwnTag
<1>3. ASSUME NEW c, Invoke(t, c), u # t
      PROVE  kcasDesc'[u] = kcasDesc[u]
  <2>1. UNCHANGED kcasDesc \/ \E d : kcasDesc' = [kcasDesc EXCEPT ![t] = d]
    BY <1>3 DEF Invoke
  <2>. QED  BY <1>3, <2>1 DEF TypeOK
<1>. QED  BY <1>1, <1>2, <1>3, DescSteps DEF OwnTag

(* The bottom of the stack stays what it is.                               *)
LEMMA Bottom ==
  ASSUME NEW s \in Seq(Frame), s # <<>>, NEW f \in Frame
  PROVE  /\ (<<f>> \o s)[Len(<<f>> \o s)] = s[Len(s)] /\ Len(<<f>> \o s) >= 2
         /\ f.tag = s[1].tag => [s EXCEPT ![1] = f][Len([s EXCEPT ![1] = f])].tag = s[Len(s)].tag
         /\ Len(s) >= 2 => Tail(s)[Len(Tail(s))] = s[Len(s)] /\ Tail(s) # <<>>
<1>1. Len(s) \in Nat \ {0} /\ DOMAIN s = 1 .. Len(s)
  BY Pop
<1>2. (<<f>> \o s)[Len(<<f>> \o s)] = s[Len(s)] /\ Len(<<f>> \o s) >= 2
  BY <1>1, Push
<1>3. f.tag = s[1].tag => [s EXCEPT ![1] = f][Len([s EXCEPT ![1] = f])].tag = s[Len(s)].tag
  BY <1>1, Change
<1>4. Len(s) >= 2 => Tail(s)[Len(Tail(s))] = s[Len(s)] /\ Tail(s) # <<>>
  BY <1>1, Pop
<1>. QED  BY <1>2, <1>3, <1>4

(* When t is in none of the stages that StageOK speaks of, or in one of    *)
(* the first phase, what is left of it is this.                            *)
LEMMA StageKept ==
  ASSUME TypeOK, Stages, NEW t \in Thread, OwnTag(t)' = OwnTag(t), op'[t] = op[t], op[t] # None,
         frames'[t] # <<>> \/ ~Swaps(t),
         Swaps(t) => frames'[t][Len(frames'[t])].tag = frames[t][Len(frames[t])].tag,
         (pc'[t] \in Helping /\ frames'[t] # <<>>) \/ (pc'[t] = "read" /\ frames'[t] = <<>> /\ op[t].op = "read")
  PROVE  StageOK(t)'
<1>1. Swaps(t)' = Swaps(t)
  BY DEF Swaps
<1>2. Swaps(t) => frames[t] # <<>> /\ frames[t][Len(frames[t])].tag = OwnTag(t)
  BY DEF Stages, StageOK
<1>3. pc'[t] \in Helping \cup {"read"}
  OBVIOUS
<1>4. pc'[t] \notin HelpingRdcss /\ pc'[t] \notin {"idle", "kcas.copy", "kcas.check", "rdcss.check", "rdcss.state", "rdcss.write"}
  BY <1>3 DEF Helping, HelpingRdcss
<1>5. pc'[t] = "read" => frames'[t] = <<>> /\ op'[t].op = "read"
  BY DEF Helping
<1>6. Swaps(t)' => /\ frames'[t] # <<>> /\ frames'[t][Len(frames'[t])].tag = OwnTag(t)'
                   /\ pc'[t] = "kcas.check" => Len(frames'[t]) >= 2
  BY <1>1, <1>2, <1>4
<1>7. pc'[t] \in Helping \cup {"kcas.check"} => frames'[t] # <<>>
  BY <1>4 DEF Helping
<1>. QED  BY <1>4, <1>5, <1>6, <1>7 DEF StageOK

(* An operation is a read or a swap.                                       *)
LEMMA OpForm ==
  ASSUME Usage, TypeOK, NEW t \in Thread, op[t] # None
  PROVE  op[t] \in Called /\ (Swaps(t) => IsSwap(op[t])) /\ (~Swaps(t) => op[t].op = "read" /\ IsRead(op[t]))
BY CallForm DEF TypeOK, Swaps

(* Every step leaves its thread in a stage that fits what it is doing: its *)
(* operation, its invocations of help, and what it has met.                *)
LEMMA StagesStep ==
  ASSUME Usage, TypeOK, TypeOK', Stages, OfEntry, MetRdcss, NEW t \in Thread, Step(t) \/ \E c : Invoke(t, c)
  PROVE  Stages'
<1>1. ASSUME NEW u \in Thread \ {t} PROVE StageOK(u)'
  <2>1. OwnTag(u)' = OwnTag(u)
    BY SeqKept
  <2>2. Alone(t)
    BY AloneStep
  <2>3. Swaps(u)' = Swaps(u) /\ Top(u)' = Top(u)
    BY <2>2 DEF Alone, Swaps, Top
  <2>. QED  BY <2>1, <2>2, <2>3 DEF Alone, Stages, StageOK
<1>. SUFFICES StageOK(t)'
  BY <1>1 DEF Stages
<1>2. ASSUME NEW c, Invoke(t, c) PROVE StageOK(t)'
  <2>1. CASE c.op = "read" /\ pc'[t] = "read" /\ UNCHANGED <<kcasDesc, frames>> /\ IsRead(c)
    BY <1>2, <2>1, InvokeFacts, CallForm DEF StageOK, Swaps, Helping, HelpingRdcss
  <2>2. CASE /\ c.op = "kcas" /\ pc'[t] = "help"
             /\ kcasDesc' = [kcasDesc EXCEPT ![t] =
                  [seq |-> kcasDesc[t].seq + 1, state |-> "UNDECIDED", entries |-> InOrder(c.entries)]]
             /\ frames'[t] = <<[tag |-> KcasTag(t, kcasDesc[t].seq + 1), entries |-> InOrder(c.entries), i |-> 1,
                                newstate |-> "SUCCEEDED"]>>
    <3>1. OwnTag(t)' = KcasTag(t, kcasDesc[t].seq + 1)
      BY <2>2 DEF OwnTag, TypeOK
    <3>2. frames'[t] # <<>> /\ frames'[t][Len(frames'[t])].tag = KcasTag(t, kcasDesc[t].seq + 1)
      BY <2>2
    <3>3. op'[t] # None
      BY <1>2, InvokeFacts, CallForm
    <3>. QED  BY <2>2, <3>1, <3>2, <3>3 DEF StageOK, Helping, HelpingRdcss
  <2>. QED  BY <1>2, <2>1, <2>2, InvokeFacts
<1>3. ASSUME Step(t) PROVE OwnTag(t)' = OwnTag(t)
  BY <1>3, SeqKept
<1>4. ASSUME NEW from, NEW succeeded, Step(t), from \in Helping, LeaveHelp(t, from, succeeded) PROVE StageOK(t)'
  <2>1. frames[t] # <<>> /\ op[t] # None /\ frames[t] \in Seq(Frame)
    BY <1>4, LeaveFacts, Invoked DEF TypeOK
  <2>2. CASE /\ pc' = [pc EXCEPT ![t] = "idle"] /\ frames' = [frames EXCEPT ![t] = <<>>]
             /\ op' = [op EXCEPT ![t] = None]
    <3>1. pc'[t] = "idle" /\ frames'[t] = <<>> /\ op'[t] = None
      BY <2>2 DEF TypeOK
    <3>. QED  BY <3>1 DEF StageOK, Helping, HelpingRdcss, Swaps
  <2>3. CASE /\ ~(Len(frames[t]) = 1 /\ op[t].op = "kcas")
             /\ pc' = [pc EXCEPT ![t] = IF Tail(frames[t]) = <<>> THEN "read" ELSE "entry"]
             /\ frames' = [frames EXCEPT ![t] = Tail(@)] /\ UNCHANGED op
    <3>1. pc'[t] = (IF Tail(frames[t]) = <<>> THEN "read" ELSE "entry") /\ frames'[t] = Tail(frames[t]) /\ op'[t] = op[t]
      BY <2>3 DEF TypeOK
    <3>2. Swaps(t) => Len(frames[t]) >= 2
      BY <2>1, <2>3, Pop DEF Swaps
    <3>3. Tail(frames[t]) = <<>> => Len(frames[t]) = 1
      BY <2>1, Pop
    <3>4. Tail(frames[t]) = <<>> => op[t].op = "read"
      <4>1. Len(frames[t]) = 1 => ~(Len(frames[t]) >= 2)
        OBVIOUS
      <4>2. Tail(frames[t]) = <<>> => ~Swaps(t)
        BY <3>2, <3>3, <4>1, Zenon
      <4>. QED  BY <2>1, <4>2, OpForm
    <3>5. Swaps(t) => Tail(frames[t])[Len(Tail(frames[t]))].tag = frames[t][Len(frames[t])].tag /\ Tail(frames[t]) # <<>>
      <4>1. frames[t][1] \in Frame
        BY <2>1, Pop
      <4>. QED  BY <2>1, <3>2, <4>1, Bottom
    <3>. QED  BY <1>3, <1>4, <2>1, <3>1, <3>4, <3>5, StageKept DEF Helping
  <2>. QED  BY <1>4, <2>2, <2>3, LeaveFacts
<1>5. ASSUME NEW from, NEW tag \in KcasTags \cup RdcssTags, Step(t), from # "idle", Meet(t, from, tag) PROVE StageOK(t)'
  <2>1. /\ pc'[t] = (IF IsRdcss(tag) THEN "rdcss.copy" ELSE "kcas.copy") /\ met'[t] = tag /\ op'[t] = op[t]
        /\ frames'[t] = frames[t] /\ op[t] # None
    BY <1>5, MeetFacts DEF TypeOK, Stages, StageOK
  <2>2. IF IsRdcss(tag) THEN tag \in RdcssTags ELSE tag \in KcasTags
    BY Kinds
  <2>. QED  BY <1>3, <1>5, <2>1, <2>2 DEF Stages, StageOK, Helping, HelpingRdcss, Swaps
<1>6. CASE ReadWord(t)
  <2>1. IsRead(op[t]) /\ op[t] # None /\ frames[t] = <<>> /\ ~Swaps(t) /\ Step(t)
    BY <1>6, CallForm DEF ReadWord, Stages, StageOK, TypeOK, Swaps, Step
  <2>2. word[op[t].addr] \in WordSet
    BY <2>1 DEF TypeOK, IsRead
  <2>3. CASE IsValue(word[op[t].addr])
    <3>1. pc'[t] = "idle" /\ frames'[t] = <<>> /\ op'[t] = None
      BY <1>6, <2>1, <2>3 DEF ReadWord, Return, GoTo, TypeOK
    <3>. QED  BY <3>1 DEF StageOK, Helping, HelpingRdcss, Swaps
  <2>4. CASE ~IsValue(word[op[t].addr])
    BY <1>5, <1>6, <2>1, <2>2, <2>4, WordForm DEF ReadWord
  <2>. QED  BY <2>3, <2>4
<1>7. CASE CopyRdcss(t)
  <2>1. /\ pc[t] = "rdcss.copy" /\ pc'[t] = "rdcss.check" /\ op'[t] = op[t] /\ frames'[t] = frames[t] /\ met'[t] = met[t]
        /\ rdcss'[t] = [rdcssDesc[met[t][2]] EXCEPT !.seq = met[t][3]] /\ Step(t)
    BY <1>7 DEF CopyRdcss, GoTo, TypeOK, Step
  <2>2. met[t] \in RdcssTags
    BY <2>1 DEF Stages, StageOK, HelpingRdcss
  <2>3. rdcss'[t] \in RdcssSet
    <3>1. met[t][3] <= rdcssDesc[met[t][2]].seq /\ met[t][3] \in Nat \ {0} /\ met[t][2] \in Thread
      BY <2>2, WordForm DEF MetRdcss
    <3>2. rdcssDesc[met[t][2]] \in RdcssSet
      BY <3>1 DEF TypeOK
    <3>. QED  BY <2>1, <3>1, <3>2 DEF RdcssSet
  <2>4. op[t] # None
    BY <2>1 DEF Stages, StageOK
  <2>. QED  BY <1>3, <2>1, <2>2, <2>3, <2>4 DEF Stages, StageOK, Helping, HelpingRdcss, Swaps
<1>8. CASE CheckRdcss(t)
  <2>1. pc[t] = "rdcss.check" /\ op[t] # None /\ op'[t] = op[t] /\ frames'[t] = frames[t] /\ Step(t)
    BY <1>8 DEF CheckRdcss, Stages, StageOK, Step
  <2>2. CASE pc'[t] = "rdcss.state" /\ met'[t] = met[t] /\ rdcss'[t] = rdcss[t]
    BY <1>3, <2>1, <2>2 DEF Stages, StageOK, Helping, HelpingRdcss, Swaps
  <2>3. CASE pc'[t] = IF frames[t] = <<>> THEN "read" ELSE "rdcss.cas"
    <3>1. frames[t] = <<>> => op[t].op = "read" /\ ~Swaps(t)
      BY <2>1, OpForm DEF Stages, StageOK
    <3>. QED  BY <1>3, <2>1, <2>3, <3>1, StageKept DEF Helping
  <2>. QED  BY <1>8, <2>1, <2>2, <2>3 DEF CheckRdcss, GoTo, TypeOK
<1>9. CASE CopyKcas(t)
  <2>1. /\ pc[t] = "kcas.copy" /\ pc'[t] = "kcas.check" /\ op'[t] = op[t] /\ met'[t] = met[t] /\ op[t] # None /\ Step(t)
        /\ met[t] \in KcasTags
    BY <1>9 DEF CopyKcas, GoTo, TypeOK, Stages, StageOK, Step
  <2>. DEFINE f == [tag |-> met[t], entries |-> kcasDesc[met[t][2]].entries, i |-> 2, newstate |-> "SUCCEEDED"]
  <2>2. f \in Frame
    BY <2>1, WordForm DEF Frame, Outcome, TypeOK
  <2>3. frames'[t] = <<f>> \o frames[t] /\ frames[t] \in Seq(Frame)
    BY <1>9 DEF CopyKcas, TypeOK
  <2>4. frames'[t] # <<>> /\ Head(frames'[t]) = f
    BY <2>2, <2>3, Push
  <2>5. Swaps(t) => frames'[t][Len(frames'[t])] = frames[t][Len(frames[t])] /\ Len(frames'[t]) >= 2
    BY <2>2, <2>3, Bottom DEF Stages, StageOK
  <2>6. Top(t)'.tag = met'[t]
    BY <2>1, <2>4 DEF Top
  <2>. QED  BY <1>3, <2>1, <2>4, <2>5, <2>6 DEF Stages, StageOK, Helping, HelpingRdcss, Swaps
<1>10. CASE CheckKcas(t)
  <2>1. pc[t] = "kcas.check" /\ frames[t] # <<>> /\ op[t] # None /\ op'[t] = op[t] /\ Step(t) /\ frames[t] \in Seq(Frame)
    BY <1>10, Invoked DEF CheckKcas, Step, TypeOK
  <2>2. CASE pc'[t] = "help" /\ frames'[t] = frames[t]
    BY <1>3, <2>1, <2>2, StageKept DEF Helping
  <2>3. CASE pc'[t] = Resume(Tail(frames[t])) /\ frames'[t] = Tail(frames[t])
    <3>1. Swaps(t) => Len(frames[t]) >= 2
      BY <2>1 DEF Stages, StageOK
    <3>2. Tail(frames[t]) = <<>> => op[t].op = "read"
      <4>1. Len(frames[t]) = 1 => ~(Len(frames[t]) >= 2)
        OBVIOUS
      <4>2. Tail(frames[t]) = <<>> => Len(frames[t]) = 1
        BY <2>1, Pop
      <4>3. Tail(frames[t]) = <<>> => ~Swaps(t)
        BY <3>1, <4>1, <4>2, Zenon
      <4>. QED  BY <2>1, <4>3, OpForm
    <3>3. frames[t][1] \in Frame
      BY <2>1, Pop
    <3>4. Swaps(t) => Tail(frames[t])[Len(Tail(frames[t]))].tag = frames[t][Len(frames[t])].tag /\ Tail(frames[t]) # <<>>
      BY <2>1, <3>1, <3>3, Bottom
    <3>. QED  BY <1>3, <2>1, <2>3, <3>2, <3>4, StageKept DEF Helping, Resume
  <2>. QED  BY <1>10, <2>1, <2>2, <2>3 DEF CheckKcas, GoTo, TypeOK
<1>11. ASSUME Step(t), op'[t] = op[t], op[t] # None, frames'[t] = frames[t], frames[t] # <<>>, pc'[t] \in Helping
       PROVE  StageOK(t)'
  BY <1>3, <1>11, StageKept
<1>12. ASSUME Step(t), op'[t] = op[t], op[t] # None, frames[t] # <<>>, pc'[t] \in Helping,
              NEW f \in Frame, f.tag = Top(t).tag, frames'[t] = [frames[t] EXCEPT ![1] = f]
       PROVE  StageOK(t)'
  <2>1. frames[t] \in Seq(Frame) /\ Top(t) = frames[t][1]
    BY <1>12, TopForm DEF TypeOK
  <2>2. frames'[t] # <<>> /\ frames'[t][Len(frames'[t])].tag = frames[t][Len(frames[t])].tag
    BY <1>12, <2>1, Change, Bottom
  <2>. QED  BY <1>3, <1>12, <2>2, StageKept
<1>13. ASSUME NEW from, Step(t), NextEntry(t, from), op'[t] = op[t], op[t] # None, frames[t] # <<>>
       PROVE  StageOK(t)'
  <2>. DEFINE f == [Top(t) EXCEPT !.i = @ + 1]
  <2>1. f \in Frame /\ frames' = [frames EXCEPT ![t] = [frames[t] EXCEPT ![1] = f]] /\ pc' = [pc EXCEPT ![t] = "entry"]
    BY <1>13, NextFacts
  <2>2. f.tag = Top(t).tag
    BY <1>13, TopForm DEF Frame
  <2>3. frames'[t] = [frames[t] EXCEPT ![1] = f] /\ pc'[t] = "entry"
    BY <2>1 DEF TypeOK
  <2>. QED  BY <1>12, <1>13, <2>1, <2>2, <2>3 DEF Helping
<1>14. CASE HelpState(t) \/ NewRdcss(t) \/ AllEntries(t) \/ Decide(t)
  <2>1. pc[t] \in Helping /\ Step(t) /\ frames[t] # <<>> /\ op[t] # None
    BY <1>14, Invoked DEF HelpState, NewRdcss, AllEntries, Decide, GoTo, Helping, Step
  <2>2. CASE HelpState(t) /\ LeaveHelp(t, "help", FALSE)
    BY <1>4, <2>1, <2>2 DEF Helping
  <2>3. CASE ~(HelpState(t) /\ LeaveHelp(t, "help", FALSE))
    <3>1. op'[t] = op[t] /\ frames'[t] = frames[t] /\ pc'[t] \in Helping
      BY <1>14, <2>3 DEF HelpState, NewRdcss, AllEntries, Decide, GoTo, Helping, TypeOK
    <3>. QED  BY <1>11, <2>1, <3>1
  <2>. QED  BY <2>2, <2>3
<1>15. CASE RdcssCas(t)
  <2>1. pc[t] = "rdcss.cas" /\ Step(t) /\ frames[t] # <<>> /\ op[t] # None /\ op'[t] = op[t]
    BY <1>15, Invoked DEF RdcssCas, Helping, Step
  <2>. DEFINE d == rdcssDesc[t]
              r == word[d.addr2]
  <2>2. d \in RdcssSet
    BY <2>1, EntryForm DEF AtEntry
  <2>3. OwnRdcss(t) \in RdcssTags /\ r \in WordSet
    BY <2>2 DEF OwnRdcss, RdcssTags, RdcssSet, TypeOK
  <2>4. CASE r = Plain(d.old2)
    <3>1. pc'[t] = "rdcss.state" /\ rdcss'[t] = d /\ met'[t] = OwnRdcss(t) /\ frames'[t] = frames[t]
      BY <1>15, <2>1, <2>4, Kinds, WordForm, TopForm DEF RdcssCas, GoTo, TypeOK
    <3>. QED  BY <1>3, <2>1, <2>2, <2>3, <3>1 DEF Stages, StageOK, Helping, HelpingRdcss, Swaps
  <2>5. CASE (IsRdcss(r) \/ (IsKcas(r) /\ r # Top(t).tag)) /\ Meet(t, "rdcss.cas", r)
    BY <1>5, <2>1, <2>3, <2>5, WordForm
  <2>6. CASE NextEntry(t, "rdcss.cas")
    BY <1>13, <2>1, <2>6
  <2>7. CASE GoTo(t, "rdcss.cas", "decide") /\ frames' = [frames EXCEPT ![t][1].newstate = "FAILED"]
    <3>. DEFINE f == [Top(t) EXCEPT !.newstate = "FAILED"]
    <3>1. f \in Frame /\ f.tag = Top(t).tag
      BY <2>1, TopForm DEF Frame, Outcome
    <3>2. frames'[t] = [frames[t] EXCEPT ![1] = f] /\ pc'[t] = "decide"
      BY <2>1, <2>7, TopForm DEF TypeOK, GoTo
    <3>. QED  BY <1>12, <2>1, <3>1, <3>2 DEF Helping
  <2>. QED  BY <1>15, <2>4, <2>5, <2>6, <2>7 DEF RdcssCas
<1>16. CASE RdcssState(t)
  <2>1. /\ pc[t] = "rdcss.state" /\ pc'[t] = "rdcss.write" /\ op'[t] = op[t] /\ met'[t] = met[t] /\ op[t] # None /\ Step(t)
        /\ frames'[t] = frames[t] /\ rdcss[t] \in RdcssSet
    BY <1>16 DEF RdcssState, GoTo, TypeOK, Stages, StageOK, Step
  <2>2. rdcss'[t] \in Writing
    <3>1. rdcss'[t] = [addr2 |-> rdcss[t].addr2, new |-> IF Undecided(rdcss[t].old1) THEN rdcss[t].old1 ELSE Plain(rdcss[t].old2)]
      BY <1>16 DEF RdcssState, TypeOK
    <3>. QED  BY <2>1, <3>1 DEF Writing, RdcssSet
  <2>. QED  BY <1>3, <2>1, <2>2 DEF Stages, StageOK, Helping, HelpingRdcss, Swaps
<1>17. CASE RdcssWrite(t)
  <2>1. /\ pc[t] = "rdcss.write" /\ Step(t) /\ op[t] # None /\ op'[t] = op[t]
        /\ met[t] = OwnRdcss(t) => frames[t] # <<>>
    BY <1>17 DEF RdcssWrite, Stages, StageOK, Step, MetRdcss, HelpingRdcss
  <2>2. CASE met[t] = OwnRdcss(t) /\ NextEntry(t, "rdcss.write")
    BY <1>13, <2>1, <2>2
  <2>3. CASE GoTo(t, "rdcss.write", IF frames[t] = <<>> THEN "read" ELSE "rdcss.cas") /\ UNCHANGED frames
    <3>1. frames[t] = <<>> => op[t].op = "read" /\ ~Swaps(t)
      BY <2>1, OpForm DEF Stages, StageOK
    <3>2. pc'[t] = (IF frames[t] = <<>> THEN "read" ELSE "rdcss.cas") /\ frames'[t] = frames[t]
      BY <2>3 DEF GoTo, TypeOK
    <3>. QED  BY <1>3, <2>1, <3>1, <3>2, StageKept DEF Helping
  <2>. QED  BY <1>17, <2>2, <2>3 DEF RdcssWrite
<1>18. CASE ReadOutcome(t)
  <2>1. pc[t] = "phase2" /\ frames[t] # <<>> /\ op[t] # None /\ Step(t)
    BY <1>18, Invoked DEF ReadOutcome, Helping, Step
  <2>2. CASE ~Current(Top(t).tag)
    BY <1>4, <1>18, <2>1, <2>2 DEF ReadOutcome, Helping
  <2>3. CASE Current(Top(t).tag)
    BY <1>12, <1>18, <2>1, <2>3, OutcomeFacts DEF Helping
  <2>. QED  BY <2>2, <2>3
<1>19. CASE Release(t)
  BY <1>12, <1>19, ReleaseFacts DEF Step, Helping
<1>20. CASE HelpDone(t)
  BY <1>4, <1>20 DEF HelpDone, Helping, Step
<1>21. CASE Step(t)
  BY <1>21, <1>6, <1>7, <1>8, <1>9, <1>10, <1>14, <1>15, <1>16, <1>17, <1>18, <1>19, <1>20 DEF Step
<1>. QED  BY <1>2, <1>21

-----------------------------------------------------------------------------
(* t takes a step from a state that agrees with h; g is the history then.  *)
Moves(t, h, g) ==
  /\ TypeOK /\ TypeOK' /\ Stages /\ Stages'
  /\ h \in Histories /\ Agrees(h) /\ g = Later(h)
  /\ Step(t) \/ \E c : Invoke(t, c)

(* What follows for the history.                                           *)
LEMMA GoingOn ==
  ASSUME Usage, NEW t \in Thread, NEW h, NEW g, Moves(t, h, g)
  PROVE  /\ g \in Histories /\ Kept(g, h)
         /\ \A u \in Thread : kcasDesc'[u].seq > 0 =>
              g[OwnTag(u)'] = [entries |-> kcasDesc'[u].entries, outcome |-> kcasDesc'[u].state]
         /\ \A tag \in KcasTags : tag[3] < kcasDesc'[tag[2]].seq => ~Open(g, tag)
         /\ UNCHANGED kcasDesc => g = h
BY HistoryStep DEF Moves, Agrees

(* The entries of an operation are entries, and no two are of one word.    *)
LEMMA PlanForm ==
  ASSUME NEW s \in Plan, NEW j \in DOMAIN s
  PROVE  /\ s[j] \in Entry /\ s[j].addr \in Addr /\ s[j].old \in Value /\ s[j].new \in Value
         /\ s[j] \in Entries(s) /\ (CHOOSE e \in Entries(s) : e.addr = s[j].addr) = s[j]
         /\ \A i \in DOMAIN s : s[i].addr = s[j].addr => i = j
         /\ DOMAIN s = 1 .. Len(s) /\ Len(s) \in Nat /\ 1 \in DOMAIN s /\ j \in Nat \ {0}
<1>1. s \in Seq(Entry) /\ OncePerWord(s)
  BY DEF Plan
<1>2. s[j] \in Entry
  BY <1>1
<1>3. s[j].addr \in Addr /\ s[j].old \in Value /\ s[j].new \in Value
  BY <1>2 DEF Entry
<1>4. \A i \in DOMAIN s : s[i].addr = s[j].addr => i = j
  BY <1>1 DEF OncePerWord
<1>5. Entries(s) = {s[i] : i \in DOMAIN s}
  BY DEF Entries, ToSet
<1>6. \A e \in Entries(s) : e.addr = s[j].addr => e = s[j]
  BY <1>4, <1>5
<1>7. s[j] \in Entries(s)
  BY <1>5
<1>8. (CHOOSE e \in Entries(s) : e.addr = s[j].addr) = s[j]
  BY <1>6, <1>7
<1>9. DOMAIN s = 1 .. Len(s) /\ Len(s) \in Nat /\ 1 \in DOMAIN s /\ j \in Nat \ {0}
  BY <1>1
<1>. QED  BY <1>2, <1>3, <1>4, <1>7, <1>8, <1>9

(* The descriptor of the last operation of a thread is what the history    *)
(* says; so the operation is undecided if the descriptor says so.          *)
LEMMA CurrentHistory ==
  ASSUME TypeOK, NEW h, Descriptors(h), NEW tag \in KcasTags
  PROVE  /\ Current(tag) => h[tag] = [entries |-> kcasDesc[tag[2]].entries, outcome |-> kcasDesc[tag[2]].state]
         /\ Issued(tag) => (Open(h, tag) <=> Undecided(tag))
<1>1. tag[2] \in Thread /\ tag[3] \in Nat \ {0} /\ tag = KcasTag(tag[2], tag[3]) /\ kcasDesc[tag[2]].seq \in Nat
  BY WordForm, SeqForm
<1>2. ASSUME Current(tag)
      PROVE  h[tag] = [entries |-> kcasDesc[tag[2]].entries, outcome |-> kcasDesc[tag[2]].state]
  <2>1. OwnTag(tag[2]) = tag /\ kcasDesc[tag[2]].seq > 0
    BY <1>1, <1>2 DEF OwnTag, Current
  <2>. QED  BY <1>1, <2>1 DEF Descriptors
<1>3. ASSUME Issued(tag), ~Current(tag)
      PROVE  ~Open(h, tag)
  <2>1. tag[3] < kcasDesc[tag[2]].seq
    BY <1>1, <1>3 DEF Issued, Current
  <2>. QED  BY <2>1 DEF Descriptors, Open
<1>. QED  BY <1>2, <1>3 DEF Open, Undecided

(* A word changes when an RDCSS is placed or completed, or released.       *)
LEMMA WordSteps ==
  ASSUME TypeOK, Stages, OfEntry, NEW t \in Thread, Step(t) \/ \E c : Invoke(t, c)
  PROVE  \/ UNCHANGED word
         \/ /\ RdcssCas(t) /\ rdcssDesc[t] \in RdcssSet
            /\ word[rdcssDesc[t].addr2] = Plain(rdcssDesc[t].old2)
            /\ word' = [word EXCEPT ![rdcssDesc[t].addr2] = OwnRdcss(t)]
         \/ /\ RdcssWrite(t) /\ rdcss[t] \in Writing /\ met[t] \in RdcssTags
            /\ word[rdcss[t].addr2] = met[t]
            /\ word' = [word EXCEPT ![rdcss[t].addr2] = rdcss[t].new]
         \/ /\ Release(t) /\ frames[t] # <<>>
            /\ Top(t).i \in DOMAIN Top(t).entries
            /\ word[Top(t).entries[Top(t).i].addr] = Top(t).tag
            /\ word' = [word EXCEPT ![Top(t).entries[Top(t).i].addr] =
                          Plain(IF Top(t).newstate = "SUCCEEDED" THEN Top(t).entries[Top(t).i].new
                                ELSE Top(t).entries[Top(t).i].old)]
<1>1. ASSUME NEW from, NEW succeeded, LeaveHelp(t, from, succeeded)
      PROVE  UNCHANGED word
  BY <1>1, LeaveFacts
<1>2. ASSUME NEW from, NEW tag, Meet(t, from, tag)
      PROVE  UNCHANGED word
  BY <1>2, MeetFacts
<1>3. CASE \E c : Invoke(t, c)
  BY <1>3 DEF Invoke
<1>4. CASE ReadWord(t)
  BY <1>2, <1>4 DEF ReadWord, Return
<1>5. CASE CopyRdcss(t) \/ CheckRdcss(t) \/ CopyKcas(t) \/ CheckKcas(t)
  BY <1>5 DEF CopyRdcss, CheckRdcss, CopyKcas, CheckKcas
<1>6. CASE HelpState(t) \/ ReadOutcome(t) \/ HelpDone(t)
  BY <1>1, <1>6 DEF HelpState, ReadOutcome, HelpDone
<1>7. CASE NewRdcss(t) \/ RdcssState(t) \/ AllEntries(t) \/ Decide(t)
  BY <1>7 DEF NewRdcss, RdcssState, AllEntries, Decide
<1>8. CASE RdcssCas(t)
  <2>1. rdcssDesc[t] \in RdcssSet
    BY <1>8, EntryForm DEF RdcssCas, AtEntry
  <2>2. CASE Meet(t, "rdcss.cas", word[rdcssDesc[t].addr2])
    BY <1>2, <2>2
  <2>3. CASE ~Meet(t, "rdcss.cas", word[rdcssDesc[t].addr2])
    BY <1>8, <2>1, <2>3 DEF RdcssCas
  <2>. QED  BY <2>2, <2>3
<1>9. CASE RdcssWrite(t)
  <2>1. rdcss[t] \in Writing /\ met[t] \in RdcssTags
    BY <1>9 DEF RdcssWrite, Stages, StageOK, HelpingRdcss
  <2>. QED  BY <1>9, <2>1 DEF RdcssWrite
<1>10. CASE Release(t)
  <2>1. frames[t] # <<>> /\ Top(t).i \in DOMAIN Top(t).entries
    BY <1>10, ReleaseFacts
  <2>. QED  BY <1>10, <2>1 DEF Release
<1>. QED  BY <1>3, <1>4, <1>5, <1>6, <1>7, <1>8, <1>9, <1>10 DEF Step

(* The tag of an operation that is not decided stays in its words.         *)
LEMMA TagStays ==
  ASSUME Usage, NEW t \in Thread, NEW h, NEW g, Moves(t, h, g),
         NEW a \in Addr, word[a] \in KcasTags, Open(g, word[a])
  PROVE  word'[a] = word[a]
<1>1. word \in [Addr -> WordSet]
  BY DEF Moves, TypeOK
<1>2. CASE /\ RdcssCas(t) /\ rdcssDesc[t] \in RdcssSet
           /\ word[rdcssDesc[t].addr2] = Plain(rdcssDesc[t].old2)
           /\ word' = [word EXCEPT ![rdcssDesc[t].addr2] = OwnRdcss(t)]
  BY <1>1, <1>2, WordForm, Kinds DEF RdcssSet
<1>3. CASE /\ RdcssWrite(t) /\ rdcss[t] \in Writing /\ met[t] \in RdcssTags
           /\ word[rdcss[t].addr2] = met[t]
           /\ word' = [word EXCEPT ![rdcss[t].addr2] = rdcss[t].new]
  BY <1>1, <1>3, Kinds
<1>4. CASE Release(t) /\ word'[a] # word[a]
  <2>1. frames[t] # <<>> /\ pc[t] = "release" /\ UNCHANGED kcasDesc
    BY <1>4, ReleaseFacts DEF Moves
  <2>2. word[a] = Top(t).tag
    BY <1>1, <1>4 DEF Release
  <2>3. Top(t) = frames[t][1] /\ 1 \in DOMAIN frames[t]
    BY <2>1, TopForm DEF Moves
  <2>4. ~Open(h, Top(t).tag)
    BY <2>1, <2>3 DEF Moves, Agrees, Frames, FrameOK, Fits
  <2>5. g = h
    BY <2>1, GoingOn
  <2>. QED  BY <2>2, <2>4, <2>5
<1>. QED  BY <1>2, <1>3, <1>4, WordSteps DEF Moves, Agrees

-----------------------------------------------------------------------------
(* When t decides an operation, that is all that becomes of the history.   *)
(* It succeeds when its tag is in all its words.                           *)
Deciding(t, h, g, tag) ==
  /\ tag \in KcasTags /\ Current(tag) /\ Open(h, tag) /\ Issued(tag) /\ h[tag].entries \in Plan
  /\ Top(t).newstate \in {"SUCCEEDED", "FAILED"}
  /\ Top(t).entries = h[tag].entries /\ kcasDesc[tag[2]].entries = h[tag].entries
  /\ g[tag] = [entries |-> h[tag].entries, outcome |-> Top(t).newstate]
  /\ \A w \in KcasTags : w # tag => g[w] = h[w]
  /\ Top(t).newstate = "SUCCEEDED" =>
       \A j \in DOMAIN h[tag].entries : word[h[tag].entries[j].addr] = tag
  /\ Top(t).newstate = "FAILED" => tag[2] \in missed

(* That is what the decision of an undecided operation does.               *)
LEMMA DecideHistory ==
  ASSUME Usage, NEW t \in Thread, NEW h, NEW g, Moves(t, h, g), Decide(t), Undecided(Top(t).tag),
         NEW tag, tag = Top(t).tag
  PROVE  Deciding(t, h, g, tag)
<1>1. /\ frames[t] # <<>> /\ pc[t] = "decide"
      /\ kcasDesc' = [kcasDesc EXCEPT ![tag[2]] = [kcasDesc[tag[2]] EXCEPT !.state = Top(t).newstate]]
  BY DecideFacts DEF Moves
<1>2. tag \in KcasTags /\ tag[2] \in Thread /\ Top(t) = frames[t][1] /\ 1 \in DOMAIN frames[t] /\ Top(t).entries \in Plan
  BY <1>1, TopForm DEF Moves
<1>3. Fits(h, Top(t), "decide")
  BY <1>1, <1>2 DEF Moves, Agrees, Frames, FrameOK
<1>4. Current(tag) /\ kcasDesc[tag[2]].state = "UNDECIDED"
  BY DEF Undecided
<1>5. h[tag] = [entries |-> kcasDesc[tag[2]].entries, outcome |-> kcasDesc[tag[2]].state]
  BY <1>2, <1>4, CurrentHistory DEF Moves, Agrees
<1>6. Open(h, tag) /\ Issued(tag) /\ kcasDesc[tag[2]].entries = h[tag].entries
  BY <1>3, <1>4, <1>5 DEF Open, Fits
<1>7. Top(t).entries = h[tag].entries /\ Top(t).newstate \in {"SUCCEEDED", "FAILED"}
  BY <1>3 DEF Fits
<1>8. Top(t).newstate = "FAILED" => tag[2] \in missed
  BY <1>3, <1>6 DEF Fits
<1>9. Top(t).newstate = "SUCCEEDED" => \A j \in DOMAIN h[tag].entries : word[h[tag].entries[j].addr] = tag
  <2>. SUFFICES ASSUME Top(t).newstate = "SUCCEEDED", NEW j \in DOMAIN Top(t).entries
                PROVE  word[Top(t).entries[j].addr] = tag
    BY <1>7
  <2>1. Top(t).i > Len(Top(t).entries) /\ Top(t).i \in Nat /\ j \in 1 .. Len(Top(t).entries) /\ Len(Top(t).entries) \in Nat
    BY <1>1, <1>2, <1>3, TopForm, PlanForm DEF Fits, Moves
  <2>2. j < Top(t).i
    BY <2>1
  <2>. QED  BY <1>3, <1>6, <2>2 DEF Fits
<1>10. /\ kcasDesc'[tag[2]].seq = tag[3] /\ kcasDesc'[tag[2]].entries = kcasDesc[tag[2]].entries
       /\ kcasDesc'[tag[2]].state = Top(t).newstate
       /\ \A u \in Thread \ {tag[2]} : kcasDesc'[u] = kcasDesc[u]
  BY <1>1, <1>2, <1>4 DEF Moves, TypeOK, Current
<1>11. g[tag] = [entries |-> h[tag].entries, outcome |-> Top(t).newstate]
  BY <1>2, <1>6, <1>10 DEF Moves, Later
<1>12. ASSUME NEW w \in KcasTags, w # tag
       PROVE  g[w] = h[w]
  <2>1. w[2] \in Thread /\ w = KcasTag(w[2], w[3]) /\ tag = KcasTag(tag[2], tag[3])
    BY <1>2, WordForm
  <2>2. CASE w[2] = tag[2]
    <3>1. w[3] # tag[3]
      BY <1>12, <2>1, <2>2
    <3>2. kcasDesc'[w[2]].seq # w[3]
      BY <1>10, <2>2, <3>1
    <3>. QED  BY <3>2 DEF Moves, Later
  <2>3. CASE w[2] # tag[2]
    <3>1. kcasDesc'[w[2]] = kcasDesc[w[2]]
      BY <1>10, <2>1, <2>3
    <3>2. Current(w) => h[w] = [entries |-> kcasDesc[w[2]].entries, outcome |-> kcasDesc[w[2]].state]
      BY CurrentHistory DEF Moves, Agrees
    <3>. QED  BY <3>1, <3>2 DEF Moves, Later, Current
  <2>. QED  BY <2>2, <2>3
<1>13. h[tag].entries \in Plan
  BY <1>2, <1>7
<1>. QED  BY <1>2, <1>4, <1>6, <1>7, <1>8, <1>9, <1>11, <1>12, <1>13 DEF Deciding

(* A successful operation writes its words, and no others; they have held  *)
(* the old values.                                                         *)
LEMMA DecideValues ==
  ASSUME Usage, NEW t \in Thread, NEW h, NEW g, Moves(t, h, g), Decide(t), Undecided(Top(t).tag),
         NEW s, s = Top(t).entries
  PROVE  /\ Top(t).newstate = "SUCCEEDED" =>
              /\ \A j \in DOMAIN s : value[s[j].addr] = s[j].old /\ value'[s[j].addr] = s[j].new
              /\ \A a \in Addr : (\A j \in DOMAIN s : s[j].addr # a) => value'[a] = value[a]
              /\ value' = [a \in Addr |-> IF \E e \in Entries(s) : e.addr = a
                                          THEN (CHOOSE e \in Entries(s) : e.addr = a).new ELSE value[a]]
         /\ Top(t).newstate # "SUCCEEDED" => UNCHANGED value
<1>1. Top(t).newstate # "SUCCEEDED" => UNCHANGED value
  BY DEF Decide
<1>. SUFFICES ASSUME Top(t).newstate = "SUCCEEDED"
              PROVE  /\ \A j \in DOMAIN s : value[s[j].addr] = s[j].old /\ value'[s[j].addr] = s[j].new
                     /\ \A a \in Addr : (\A j \in DOMAIN s : s[j].addr # a) => value'[a] = value[a]
                     /\ value' = [a \in Addr |-> IF \E e \in Entries(s) : e.addr = a
                                                 THEN (CHOOSE e \in Entries(s) : e.addr = a).new ELSE value[a]]
  BY <1>1
<1>2. value' = [a \in Addr |-> IF \E e \in Entries(s) : e.addr = a
                               THEN (CHOOSE e \in Entries(s) : e.addr = a).new ELSE value[a]]
  BY DEF Decide
<1>0. PICK tag : tag = Top(t).tag
  OBVIOUS
<1>3. /\ tag \in KcasTags /\ Open(h, tag) /\ s = h[tag].entries /\ s \in Plan
      /\ \A j \in DOMAIN s : word[s[j].addr] = tag
  <2>1. Deciding(t, h, g, tag)
    BY <1>0, DecideHistory
  <2>. QED  BY <1>0, <2>1 DEF Deciding
<1>4. ASSUME NEW j \in DOMAIN s
      PROVE  value[s[j].addr] = s[j].old /\ value'[s[j].addr] = s[j].new
  <2>1. s[j].addr \in Addr /\ s[j] \in Entries(s) /\ (CHOOSE e \in Entries(s) : e.addr = s[j].addr) = s[j]
    BY <1>3, PlanForm
  <2>2. value'[s[j].addr] = s[j].new
    BY <1>2, <2>1
  <2>3. word[s[j].addr] = tag /\ IsKcas(tag)
    BY <1>3, Kinds
  <2>4. PICK i \in DOMAIN s : s[i].addr = s[j].addr /\ value[s[j].addr] = Holds(h, tag, i)
    BY <1>3, <2>1, <2>3 DEF Moves, Agrees, Words
  <2>5. i = j
    BY <1>3, <2>4, PlanForm
  <2>6. Holds(h, tag, i) = s[i].old
    BY <1>3 DEF Open, Holds
  <2>. QED  BY <2>2, <2>4, <2>5, <2>6
<1>5. ASSUME NEW a \in Addr, \A j \in DOMAIN s : s[j].addr # a
      PROVE  value'[a] = value[a]
  <2>1. ~\E e \in Entries(s) : e.addr = a
    BY <1>5 DEF Entries, ToSet
  <2>. QED  BY <1>2, <2>1
<1>. QED  BY <1>2, <1>4, <1>5

(* When t calls an operation, the history has that in addition.            *)
Calling(t, h, g, c, tag) ==
  /\ tag \in KcasTags /\ ~Issued(tag) /\ Issued(tag)' /\ Current(tag)'
  /\ g[tag] = [entries |-> InOrder(c.entries), outcome |-> "UNDECIDED"]
  /\ \A w \in KcasTags : w # tag => g[w] = h[w]

(* That is what a call of kcas does.                                       *)
LEMMA CallHistory ==
  ASSUME Usage, NEW t \in Thread, NEW h, NEW g, Moves(t, h, g), NEW c, Invoke(t, c), c.op = "kcas",
         NEW tag, tag = KcasTag(t, kcasDesc[t].seq + 1)
  PROVE  Calling(t, h, g, c, tag)
<1>1. kcasDesc' = [kcasDesc EXCEPT ![t] = [seq |-> kcasDesc[t].seq + 1, state |-> "UNDECIDED", entries |-> InOrder(c.entries)]]
  BY InvokeFacts DEF Moves
<1>2. kcasDesc[t].seq \in Nat
  BY SeqForm DEF Moves
<1>3. tag \in KcasTags /\ tag[2] = t /\ tag[3] = kcasDesc[t].seq + 1
  BY <1>2, WordForm DEF KcasTags
<1>4. /\ kcasDesc'[t] = [seq |-> kcasDesc[t].seq + 1, state |-> "UNDECIDED", entries |-> InOrder(c.entries)]
      /\ \A u \in Thread \ {t} : kcasDesc'[u] = kcasDesc[u]
  BY <1>1 DEF Moves, TypeOK
<1>5. ~Issued(tag) /\ Issued(tag)' /\ Current(tag)'
  BY <1>2, <1>3, <1>4 DEF Issued, Current
<1>6. g[tag] = [entries |-> InOrder(c.entries), outcome |-> "UNDECIDED"]
  BY <1>3, <1>4 DEF Moves, Later
<1>7. ASSUME NEW w \in KcasTags, w # tag
      PROVE  g[w] = h[w]
  <2>1. w[2] \in Thread /\ w = KcasTag(w[2], w[3]) /\ tag = KcasTag(tag[2], tag[3])
    BY <1>3, WordForm
  <2>2. CASE w[2] = t
    <3>1. w[3] # tag[3]
      BY <1>3, <1>7, <2>1, <2>2
    <3>2. kcasDesc'[w[2]].seq # w[3]
      BY <1>3, <1>4, <2>2, <3>1
    <3>. QED  BY <3>2 DEF Moves, Later
  <2>3. CASE w[2] # t
    <3>1. kcasDesc'[w[2]] = kcasDesc[w[2]]
      BY <1>4, <2>1, <2>3
    <3>2. Current(w) => h[w] = [entries |-> kcasDesc[w[2]].entries, outcome |-> kcasDesc[w[2]].state]
      BY CurrentHistory DEF Moves, Agrees
    <3>. QED  BY <3>1, <3>2 DEF Moves, Later, Current
  <2>. QED  BY <2>2, <2>3
<1>. QED  BY <1>3, <1>5, <1>6, <1>7 DEF Calling

(* What the history notes of the values, and of those who have missed      *)
(* theirs.                                                                 *)
LEMMA NoteSteps ==
  ASSUME TypeOK, Stages, NEW t \in Thread, Step(t) \/ \E c : Invoke(t, c)
  PROVE  /\ UNCHANGED value \/ (Decide(t) /\ Undecided(Top(t).tag))
         /\ Note \/ UNCHANGED <<missed, op, value, kcasDesc>>
         /\ UNCHANGED kcasDesc \/ (Decide(t) /\ Undecided(Top(t).tag)) \/ \E c : Invoke(t, c)
<1>1. ASSUME NEW from, NEW succeeded, LeaveHelp(t, from, succeeded)
      PROVE  UNCHANGED <<value, kcasDesc>> /\ (Note \/ UNCHANGED <<missed, op>>)
  BY <1>1, LeaveFacts
<1>2. ASSUME NEW from, NEW tag, Meet(t, from, tag)
      PROVE  UNCHANGED <<value, kcasDesc, missed, op>>
  BY <1>2, MeetFacts
<1>3. CASE \E c : Invoke(t, c)
  BY <1>3 DEF Invoke
<1>4. CASE ReadWord(t)
  BY <1>2, <1>4 DEF ReadWord, Return
<1>5. CASE CopyRdcss(t) \/ CheckRdcss(t) \/ CopyKcas(t) \/ CheckKcas(t)
  BY <1>5 DEF CopyRdcss, CheckRdcss, CopyKcas, CheckKcas, history
<1>6. CASE HelpState(t) \/ ReadOutcome(t) \/ HelpDone(t)
  BY <1>1, <1>6 DEF HelpState, ReadOutcome, HelpDone, history
<1>7. CASE NewRdcss(t) \/ RdcssState(t) \/ AllEntries(t) \/ Release(t) \/ RdcssCas(t) \/ RdcssWrite(t)
  BY <1>7 DEF NewRdcss, RdcssState, AllEntries, Release, RdcssCas, RdcssWrite, history
<1>8. CASE Decide(t)
  BY <1>8, DecideFacts DEF Decide
<1>. QED  BY <1>3, <1>4, <1>5, <1>6, <1>7, <1>8 DEF Step

(* A descriptor's state is undecided no longer when it has been decided.   *)
LEMMA StateSteps ==
  ASSUME Usage, NEW t \in Thread, NEW h, NEW g, Moves(t, h, g), NEW u \in Thread, u # t \/ Step(t)
  PROVE  /\ kcasDesc'[u].seq = kcasDesc[u].seq /\ kcasDesc'[u].entries = kcasDesc[u].entries
         /\ \/ kcasDesc'[u].state = kcasDesc[u].state
            \/ /\ kcasDesc'[u].state \in {"SUCCEEDED", "FAILED"} /\ kcasDesc[u].state = "UNDECIDED" /\ kcasDesc[u].seq > 0
               /\ kcasDesc'[u].state = "FAILED" => u \in missed
<1>1. kcasDesc'[u].seq = kcasDesc[u].seq /\ kcasDesc'[u].entries = kcasDesc[u].entries
  BY SeqKept DEF Moves
<1>2. CASE Decide(t) /\ Undecided(Top(t).tag)
  <2>1. /\ Top(t).tag \in KcasTags /\ Current(Top(t).tag) /\ Top(t).newstate \in {"SUCCEEDED", "FAILED"}
        /\ Top(t).newstate = "FAILED" => Top(t).tag[2] \in missed
    BY <1>2, DecideHistory DEF Deciding
  <2>2. Top(t).tag[2] \in Thread /\ Top(t).tag[3] \in Nat \ {0}
    BY <2>1, WordForm
  <2>3. kcasDesc' = [kcasDesc EXCEPT ![Top(t).tag[2]] = [kcasDesc[Top(t).tag[2]] EXCEPT !.state = Top(t).newstate]]
    BY <1>2, DecideFacts DEF Moves
  <2>4. CASE u = Top(t).tag[2]
    <3>1. kcasDesc'[u].state = Top(t).newstate
      BY <2>2, <2>3, <2>4 DEF Moves, TypeOK
    <3>2. kcasDesc[u].seq > 0 /\ kcasDesc[u].state = "UNDECIDED"
      BY <1>2, <2>1, <2>2, <2>4 DEF Current, Undecided
    <3>. QED  BY <1>1, <2>1, <2>4, <3>1, <3>2
  <2>5. CASE u # Top(t).tag[2]
    BY <1>1, <2>2, <2>3, <2>5 DEF Moves, TypeOK
  <2>. QED  BY <2>4, <2>5
<1>3. CASE UNCHANGED kcasDesc
  BY <1>1, <1>3
<1>4. ASSUME NEW c, Invoke(t, c), u # t
      PROVE  kcasDesc'[u] = kcasDesc[u]
  <2>1. UNCHANGED kcasDesc \/ \E d : kcasDesc' = [kcasDesc EXCEPT ![t] = d]
    BY <1>4 DEF Invoke
  <2>. QED  BY <1>4, <2>1 DEF Moves, TypeOK
<1>. QED  BY <1>1, <1>2, <1>3, <1>4, DescSteps DEF Moves

-----------------------------------------------------------------------------
(* The first invocation of help of a swap is about itself; it ends when    *)
(* the operation is decided, and returns what has become of it.            *)
LEMMA OwnReturn ==
  ASSUME Usage, NEW t \in Thread, NEW h, NEW g, Moves(t, h, g), Step(t), Swaps(t), op'[t] # op[t]
  PROVE  /\ HelpDone(t) /\ UNCHANGED <<word, kcasDesc, rdcssDesc, met, rdcss, script, value>> /\ Note
         /\ kcasDesc[t].seq > 0 /\ kcasDesc[t].state \in {"SUCCEEDED", "FAILED"}
         /\ op' = [op EXCEPT ![t] = None]
         /\ answer' = [answer EXCEPT ![t] = <<"swap", kcasDesc[t].state = "SUCCEEDED">>]
<1>1. ASSUME NEW from, NEW succeeded, LeaveHelp(t, from, succeeded), frames[t] # <<>>
      PROVE  /\ Top(t).tag = OwnTag(t) /\ Current(Top(t).tag) /\ Len(frames[t]) = 1
             /\ op' = [op EXCEPT ![t] = None] /\ answer' = [answer EXCEPT ![t] = <<"swap", succeeded>>]
             /\ UNCHANGED <<word, kcasDesc, rdcssDesc, met, rdcss, script, value>> /\ Note
  <2>1. /\ Len(frames[t]) = 1 /\ op' = [op EXCEPT ![t] = None] /\ answer' = [answer EXCEPT ![t] = <<"swap", succeeded>>]
        /\ UNCHANGED <<word, kcasDesc, rdcssDesc, met, rdcss, script, value>> /\ Note
    BY <1>1, LeaveFacts
  <2>2. frames[t][Len(frames[t])].tag = OwnTag(t)
    BY DEF Moves, Stages, StageOK
  <2>3. Top(t) = frames[t][1]
    BY <1>1, TopForm DEF Moves
  <2>4. Top(t).tag = OwnTag(t)
    BY <2>1, <2>2, <2>3
  <2>5. Current(Top(t).tag)
    BY <2>4, WordForm DEF OwnTag, Current
  <2>. QED  BY <2>1, <2>4, <2>5
<1>2. ASSUME UNCHANGED op PROVE FALSE
  BY <1>2
<1>3. ASSUME NEW from, NEW tag, Meet(t, from, tag) PROVE FALSE
  BY <1>2, <1>3, MeetFacts
<1>4. CASE ReadWord(t)
  BY <1>4 DEF ReadWord, Moves, Stages, StageOK, Swaps
<1>5. CASE CopyRdcss(t) \/ CheckRdcss(t) \/ CopyKcas(t) \/ CheckKcas(t)
  BY <1>2, <1>5 DEF CopyRdcss, CheckRdcss, CopyKcas, CheckKcas
<1>6. CASE HelpState(t)
  <2>1. frames[t] # <<>>
    BY <1>6, Invoked DEF HelpState, Moves, Helping
  <2>2. CASE ~Current(Top(t).tag)
    BY <1>1, <1>6, <2>1, <2>2 DEF HelpState
  <2>3. CASE Current(Top(t).tag)
    BY <1>2, <1>6, <2>3 DEF HelpState
  <2>. QED  BY <2>2, <2>3
<1>7. CASE NewRdcss(t) \/ RdcssState(t) \/ AllEntries(t) \/ Release(t) \/ RdcssCas(t) \/ RdcssWrite(t) \/ Decide(t)
  BY <1>2, <1>7 DEF NewRdcss, RdcssState, AllEntries, Release, RdcssCas, RdcssWrite, Decide
<1>8. CASE ReadOutcome(t)
  <2>1. frames[t] # <<>>
    BY <1>8, Invoked DEF ReadOutcome, Moves, Helping
  <2>2. CASE ~Current(Top(t).tag)
    BY <1>1, <1>8, <2>1, <2>2 DEF ReadOutcome
  <2>3. CASE Current(Top(t).tag)
    BY <1>2, <1>8, <2>3 DEF ReadOutcome
  <2>. QED  BY <2>2, <2>3
<1>9. CASE HelpDone(t)
  <2>1. frames[t] # <<>> /\ pc[t] = "release"
    BY <1>9, Invoked DEF HelpDone, Moves, Helping
  <2>2. /\ Top(t).tag = OwnTag(t) /\ Current(Top(t).tag)
        /\ op' = [op EXCEPT ![t] = None] /\ answer' = [answer EXCEPT ![t] = <<"swap", Top(t).newstate = "SUCCEEDED">>]
        /\ UNCHANGED <<word, kcasDesc, rdcssDesc, met, rdcss, script, value>> /\ Note
    BY <1>1, <1>9, <2>1 DEF HelpDone
  <2>3. Top(t) = frames[t][1] /\ 1 \in DOMAIN frames[t] /\ Top(t).tag \in KcasTags /\ Top(t).newstate \in Outcome
    BY <2>1, TopForm DEF Moves, Frame
  <2>4. Fits(h, Top(t), "release")
    BY <2>1, <2>3 DEF Moves, Agrees, Frames, FrameOK
  <2>5. h[Top(t).tag].outcome = kcasDesc[t].state
    <3>1. h[Top(t).tag] = [entries |-> kcasDesc[Top(t).tag[2]].entries, outcome |-> kcasDesc[Top(t).tag[2]].state]
      BY <2>2, <2>3, CurrentHistory DEF Moves, Agrees
    <3>. QED  BY <2>2, <3>1, WordForm DEF OwnTag
  <2>6. Top(t).newstate = kcasDesc[t].state /\ kcasDesc[t].state # "UNDECIDED"
    BY <2>4, <2>5 DEF Fits, Open
  <2>7. kcasDesc[t].seq > 0
    BY DEF Moves, Agrees, Descriptors
  <2>. QED  BY <1>9, <2>2, <2>3, <2>6, <2>7 DEF Outcome
<1>. QED  BY <1>4, <1>5, <1>6, <1>7, <1>8, <1>9 DEF Step

(* A thread's operation is there until it returns.                         *)
LEMMA OpSteps ==
  ASSUME Usage, NEW t \in Thread, NEW h, NEW g, Moves(t, h, g), NEW u \in Thread, u # t \/ Step(t)
  PROVE  \/ op'[u] = op[u]
         \/ op'[u] = None /\ UNCHANGED kcasDesc /\ (kcasDesc[u].seq > 0 => kcasDesc[u].state # "UNDECIDED")
<1>1. CASE u # t
  BY <1>1, AloneStep DEF Moves, Alone
<1>2. CASE u = t /\ Swaps(t) /\ op'[t] # op[t]
  <2>1. Step(t)
    BY <1>2
  <2>2. op' = [op EXCEPT ![t] = None] /\ UNCHANGED kcasDesc /\ kcasDesc[t].state # "UNDECIDED"
    BY <1>2, <2>1, OwnReturn
  <2>. QED  BY <1>2, <2>2 DEF Moves, TypeOK
<1>3. CASE u = t /\ ~Swaps(t) /\ op'[t] # op[t]
  <2>1. kcasDesc[t].seq > 0 => kcasDesc[t].state # "UNDECIDED"
    BY <1>3 DEF Moves, Agrees, Descriptors
  <2>2. ASSUME Step(t)
        PROVE  op' = [op EXCEPT ![t] = None] /\ UNCHANGED kcasDesc
    <3>0. ASSUME UNCHANGED op PROVE FALSE
      BY <1>3, <3>0
    <3>1. ASSUME NEW from, NEW succeeded, LeaveHelp(t, from, succeeded), frames[t] # <<>> PROVE FALSE
      <4>1. pc[t] # "idle" /\ op[t] # None
        BY <3>1 DEF Moves, Stages, StageOK
      <4>. QED  BY <1>3, <3>0, <3>1, <4>1, LeaveFacts DEF Swaps
    <3>2. ASSUME NEW from, NEW tag, Meet(t, from, tag) PROVE FALSE
      BY <3>0, <3>2, MeetFacts
    <3>3. CASE ReadWord(t)
      BY <3>2, <3>3 DEF ReadWord, Return
    <3>4. CASE CopyRdcss(t) \/ CheckRdcss(t) \/ CopyKcas(t) \/ CheckKcas(t)
      BY <3>0, <3>4 DEF CopyRdcss, CheckRdcss, CopyKcas, CheckKcas
    <3>5. CASE HelpState(t) \/ ReadOutcome(t) \/ HelpDone(t)
      <4>1. frames[t] # <<>>
        BY <3>5, Invoked DEF HelpState, ReadOutcome, HelpDone, Moves, Helping
      <4>. QED  BY <3>0, <3>1, <3>5, <4>1 DEF HelpState, ReadOutcome, HelpDone
    <3>6. CASE NewRdcss(t) \/ RdcssState(t) \/ AllEntries(t) \/ Release(t) \/ RdcssCas(t) \/ RdcssWrite(t) \/ Decide(t)
      BY <3>0, <3>6 DEF NewRdcss, RdcssState, AllEntries, Release, RdcssCas, RdcssWrite, Decide
    <3>. QED  BY <2>2, <3>3, <3>4, <3>5, <3>6 DEF Step
  <2>. QED  BY <1>3, <2>1, <2>2 DEF Moves, TypeOK
<1>. QED  BY <1>1, <1>2, <1>3

-----------------------------------------------------------------------------
(* The descriptors go on to hold what the history says.                    *)
LEMMA DescriptorsStep ==
  ASSUME Usage, NEW t \in Thread, NEW h, NEW g, Moves(t, h, g)
  PROVE  Descriptors(g)'
<1>. SUFFICES ASSUME NEW u \in Thread
              PROVE  /\ Swaps(u)' => kcasDesc'[u].seq > 0 /\ Entries(kcasDesc'[u].entries) = Entries(op'[u].entries)
                     /\ kcasDesc'[u].seq > 0 /\ kcasDesc'[u].state = "UNDECIDED" => Swaps(u)'
  BY GoingOn DEF Descriptors, Open
<1>1. /\ Swaps(u) => kcasDesc[u].seq > 0 /\ Entries(kcasDesc[u].entries) = Entries(op[u].entries)
      /\ kcasDesc[u].seq > 0 /\ kcasDesc[u].state = "UNDECIDED" => Swaps(u)
  BY DEF Moves, Agrees, Descriptors
<1>2. CASE u # t \/ Step(t)
  <2>1. /\ kcasDesc'[u].seq = kcasDesc[u].seq /\ kcasDesc'[u].entries = kcasDesc[u].entries
        /\ kcasDesc'[u].state = "UNDECIDED" => kcasDesc[u].state = "UNDECIDED"
    BY <1>2, StateSteps
  <2>2. CASE op'[u] = op[u]
    BY <1>1, <2>1, <2>2 DEF Swaps
  <2>3. CASE op'[u] = None /\ (kcasDesc[u].seq > 0 => kcasDesc[u].state # "UNDECIDED")
    BY <1>1, <2>1, <2>3 DEF Swaps
  <2>. QED  BY <1>2, <2>2, <2>3, OpSteps
<1>3. ASSUME NEW c, Invoke(t, c), u = t, c.op = "kcas"
      PROVE  /\ kcasDesc'[u].seq > 0 /\ Entries(kcasDesc'[u].entries) = Entries(op'[u].entries)
             /\ Swaps(u)'
  <2>1. /\ c \in Called /\ op'[t] = c /\ Entries(InOrder(c.entries)) = Entries(c.entries)
        /\ kcasDesc' = [kcasDesc EXCEPT ![t] =
             [seq |-> kcasDesc[t].seq + 1, state |-> "UNDECIDED", entries |-> InOrder(c.entries)]]
    BY <1>3, InvokeFacts DEF Moves
  <2>2. kcasDesc'[t].seq = kcasDesc[t].seq + 1 /\ kcasDesc'[t].entries = InOrder(c.entries)
    BY <2>1 DEF Moves, TypeOK
  <2>3. kcasDesc[t].seq \in Nat /\ c # None
    BY <2>1, SeqForm, CallForm DEF Moves
  <2>. QED  BY <1>3, <2>1, <2>2, <2>3 DEF Swaps
<1>4. ASSUME NEW c, Invoke(t, c), u = t, c.op # "kcas"
      PROVE  ~Swaps(u)' /\ (kcasDesc'[u].seq > 0 => kcasDesc'[u].state # "UNDECIDED")
  <2>1. op'[t] = c /\ UNCHANGED kcasDesc /\ op[t] = None
    BY <1>4, InvokeFacts DEF Moves
  <2>. QED  BY <1>1, <1>4, <2>1 DEF Swaps
<1>. QED  BY <1>2, <1>3, <1>4 DEF Moves

(* Whoever has missed a value has done so as long as his operation is      *)
(* pending.                                                                *)
LEMMA MissedStays ==
  ASSUME Usage, NEW t \in Thread, NEW h, NEW g, Moves(t, h, g)
  PROVE  /\ \A u \in Thread : u \in missed /\ Swaps(u)' => u \in missed'
         /\ \A tag \in KcasTags : Issued(tag) /\ Open(g, tag) /\ tag[2] \in missed => tag[2] \in missed'
<1>1. ASSUME NEW u \in Thread, u \in missed, Swaps(u)'
      PROVE  u \in missed'
  BY <1>1, NoteSteps DEF Moves, Note, Swaps
<1>2. ASSUME NEW tag \in KcasTags, Issued(tag), Open(g, tag), tag[2] \in missed
      PROVE  tag[2] \in missed'
  <2>1. Descriptors(g)' /\ Issued(tag)'
    BY <1>2, DescriptorsStep, GoingOn DEF Kept
  <2>2. tag[2] \in Thread /\ tag[3] \in Nat \ {0} /\ kcasDesc'[tag[2]].seq \in Nat
    BY WordForm DEF Moves, TypeOK
  <2>3. ~(tag[3] < kcasDesc'[tag[2]].seq)
    BY <1>2, GoingOn
  <2>4. kcasDesc'[tag[2]].seq = tag[3] /\ kcasDesc'[tag[2]].seq > 0
    BY <2>1, <2>2, <2>3 DEF Issued
  <2>5. OwnTag(tag[2])' = tag
    BY <2>4, WordForm DEF OwnTag
  <2>6. kcasDesc'[tag[2]].state = "UNDECIDED"
    <3>1. g[OwnTag(tag[2])'] = [entries |-> kcasDesc'[tag[2]].entries, outcome |-> kcasDesc'[tag[2]].state]
      BY <2>2, <2>4, GoingOn
    <3>. QED  BY <1>2, <2>5, <3>1 DEF Open
  <2>7. Swaps(tag[2])'
    BY <2>1, <2>2, <2>4, <2>6 DEF Descriptors
  <2>. QED  BY <1>1, <1>2, <2>2, <2>7
<1>. QED  BY <1>1, <1>2

(* Whoever has missed a value is noted, and nobody else that may fail.     *)
LEMMA MissedStep ==
  ASSUME Usage, NEW t \in Thread, NEW h, NEW g, Moves(t, h, g)
  PROVE  Missed'
<1>1. ASSUME NEW u \in Thread
      PROVE  /\ u \in missed' => Swaps(u)'
             /\ Swaps(u)' /\ Differ(value', op'[u].entries) => u \in missed'
  <2>1. CASE Note
    BY <2>1 DEF Note, Swaps
  <2>2. CASE UNCHANGED <<missed, op, value>>
    BY <2>2 DEF Moves, Agrees, Missed, Swaps
  <2>. QED  BY <2>1, <2>2, NoteSteps DEF Moves
<1>2. ASSUME NEW u \in Thread, Swaps(u)', kcasDesc'[u].state = "FAILED"
      PROVE  u \in missed'
  <2>1. CASE u # t \/ Step(t)
    <3>1. op'[u] = op[u]
      BY <1>2, <2>1, OpSteps DEF Swaps
    <3>2. kcasDesc[u].state = "FAILED" \/ u \in missed
      BY <1>2, <2>1, StateSteps
    <3>3. u \in missed
      BY <1>2, <3>1, <3>2 DEF Swaps, Moves, Agrees, Missed
    <3>. QED  BY <1>2, <3>3, MissedStays
  <2>2. ASSUME NEW c, Invoke(t, c), u = t PROVE FALSE
    <3>1. op'[t] = c
      BY <2>2, InvokeFacts DEF Moves
    <3>3. c.op = "kcas"
      BY <1>2, <2>2, <3>1 DEF Swaps
    <3>2. kcasDesc' = [kcasDesc EXCEPT ![t] =
             [seq |-> kcasDesc[t].seq + 1, state |-> "UNDECIDED", entries |-> InOrder(c.entries)]]
      BY <2>2, <3>3, InvokeFacts DEF Moves
    <3>. QED  BY <1>2, <2>2, <3>2 DEF Moves, TypeOK
  <2>. QED  BY <2>1, <2>2 DEF Moves
<1>. QED  BY <1>1, <1>2 DEF Missed, Differ, Entries

-----------------------------------------------------------------------------
(* What t is about to help.  It has met no tag, or the one that it has met *)
(* before...                                                               *)
Elsewhere(t) ==
  /\ pc'[t] \notin HelpingRdcss \cup {"rdcss.cas", "kcas.copy"}
  /\ met'[t] \in {met[t], None} /\ (pc'[t] = "kcas.check" => pc[t] = "kcas.copy" /\ met'[t] = met[t])
  /\ UNCHANGED rdcssDesc

(* ...or it is about to place an RDCSS, has placed it...                   *)
Renewed(t) ==
  /\ NewRdcss(t) /\ pc[t] = "entry" /\ pc'[t] = "rdcss.cas" /\ frames[t] # <<>>
  /\ UNCHANGED <<word, kcasDesc, frames, met, rdcss>> /\ rdcssDesc[t].seq + 1 \in Nat \ {0}
  /\ Top(t).i \in DOMAIN Top(t).entries
  /\ rdcssDesc' = [rdcssDesc EXCEPT ![t] =
       [seq |-> rdcssDesc[t].seq + 1, old1 |-> Top(t).tag,
        addr2 |-> Top(t).entries[Top(t).i].addr, old2 |-> Top(t).entries[Top(t).i].old]]

Placing(t) ==
  /\ pc[t] = "rdcss.cas" /\ pc'[t] = "rdcss.state" /\ frames[t] # <<>> /\ rdcssDesc[t] \in RdcssSet
  /\ word[rdcssDesc[t].addr2] = Plain(rdcssDesc[t].old2)
  /\ word' = [word EXCEPT ![rdcssDesc[t].addr2] = OwnRdcss(t)]
  /\ met'[t] = OwnRdcss(t) /\ rdcss'[t] = rdcssDesc[t]
  /\ UNCHANGED <<kcasDesc, rdcssDesc, frames>>

(* ...or has met the tag of a word; it looks at the descriptor of that...  *)
Meeting(t) ==
  /\ \/ pc[t] = "read" /\ frames[t] = <<>>
     \/ pc[t] = "rdcss.cas" /\ frames[t] # <<>>
  /\ \E a \in Addr :
       /\ met'[t] = word[a]
       /\ \/ pc'[t] = "rdcss.copy" /\ word[a] \in RdcssTags
          \/ pc'[t] = "kcas.copy" /\ word[a] \in KcasTags
  /\ UNCHANGED <<word, kcasDesc, rdcssDesc, frames>>

Copying(t) ==
  /\ pc[t] = "rdcss.copy" /\ pc'[t] = "rdcss.check" /\ met'[t] = met[t]
  /\ rdcss'[t] = [rdcssDesc[met[t][2]] EXCEPT !.seq = met[t][3]]
  /\ UNCHANGED <<word, kcasDesc, rdcssDesc, frames>>

Checking(t) ==
  /\ pc[t] = "rdcss.check" /\ pc'[t] = "rdcss.state" /\ met'[t] = met[t] /\ rdcss'[t] = rdcss[t]
  /\ UNCHANGED <<word, kcasDesc, rdcssDesc, frames>>

Stating(t) ==
  /\ pc[t] = "rdcss.state" /\ pc'[t] = "rdcss.write" /\ met'[t] = met[t]
  /\ rdcss'[t] = [addr2 |-> rdcss[t].addr2,
                  new |-> IF Undecided(rdcss[t].old1) THEN rdcss[t].old1 ELSE Plain(rdcss[t].old2)]
  /\ UNCHANGED <<word, kcasDesc, rdcssDesc, frames>>

(* ...and tries the entry again.                                           *)
Retrying(t) ==
  /\ \/ pc[t] = "rdcss.check" /\ rdcssDesc[met[t][2]].seq # met[t][3]
     \/ pc[t] = "rdcss.write" /\ met[t] # OwnRdcss(t)
  /\ pc'[t] = "rdcss.cas" /\ met'[t] = None /\ frames[t] # <<>>
  /\ UNCHANGED <<kcasDesc, rdcssDesc, frames>>

(* Every step is one of these.                                             *)
LEMMA RdcssSteps ==
  ASSUME Usage, NEW t \in Thread, NEW h, NEW g, Moves(t, h, g)
  PROVE  \/ Elsewhere(t) \/ Renewed(t) \/ Placing(t) \/ Meeting(t)
         \/ Copying(t) \/ Checking(t) \/ Stating(t) \/ Retrying(t)
<1>1. ASSUME NEW from, NEW succeeded, LeaveHelp(t, from, succeeded)
      PROVE  Elsewhere(t)
  <2>1. UNCHANGED <<rdcssDesc, met>> /\ \E p \in {"idle", "read", "entry"} : pc' = [pc EXCEPT ![t] = p]
    BY <1>1, LeaveFacts
  <2>2. pc'[t] \in {"idle", "read", "entry"}
    BY <2>1 DEF Moves, TypeOK
  <2>. QED  BY <2>1, <2>2 DEF Elsewhere, HelpingRdcss
<1>2. ASSUME NEW from, NEW a \in Addr, Meet(t, from, word[a]), ~IsValue(word[a]),
             (from = "read" /\ frames[t] = <<>>) \/ (from = "rdcss.cas" /\ frames[t] # <<>>)
      PROVE  Meeting(t)
  <2>1. /\ UNCHANGED <<word, kcasDesc, rdcssDesc, frames>> /\ pc[t] = from
        /\ pc'[t] = (IF IsRdcss(word[a]) THEN "rdcss.copy" ELSE "kcas.copy") /\ met'[t] = word[a]
    BY <1>2, MeetFacts DEF Moves, TypeOK
  <2>2. IF IsRdcss(word[a]) THEN word[a] \in RdcssTags ELSE word[a] \in KcasTags
    <3>1. word[a] \in WordSet
      BY DEF Moves, TypeOK
    <3>. QED  BY <1>2, <3>1, WordForm
  <2>. QED  BY <1>2, <2>1, <2>2 DEF Meeting
<1>3. ASSUME NEW c, Invoke(t, c)
      PROVE  Elsewhere(t)
  <2>1. UNCHANGED <<rdcssDesc, met>> /\ pc'[t] \in {"read", "help"}
    BY <1>3, InvokeFacts DEF Moves
  <2>. QED  BY <2>1 DEF Elsewhere, HelpingRdcss
<1>4. CASE ReadWord(t)
  <2>1. op[t].addr \in Addr /\ frames[t] = <<>> /\ pc[t] = "read"
    <3>1. pc[t] = "read" /\ frames[t] = <<>> /\ op[t].op = "read" /\ op[t] # None
      BY <1>4 DEF ReadWord, Moves, Stages, StageOK
    <3>2. IsRead(op[t])
      BY <3>1, OpForm DEF Moves, Swaps
    <3>. QED  BY <3>1, <3>2 DEF IsRead
  <2>2. CASE IsValue(word[op[t].addr])
    <3>1. UNCHANGED <<rdcssDesc, met>> /\ pc'[t] = "idle"
      BY <1>4, <2>2 DEF ReadWord, Return, GoTo, Moves, TypeOK
    <3>. QED  BY <3>1 DEF Elsewhere, HelpingRdcss
  <2>3. CASE ~IsValue(word[op[t].addr])
    BY <1>2, <1>4, <2>1, <2>3 DEF ReadWord
  <2>. QED  BY <2>2, <2>3
<1>5. CASE CopyRdcss(t)
  BY <1>5 DEF CopyRdcss, GoTo, Copying, Moves, TypeOK
<1>6. CASE CheckRdcss(t)
  <2>1. pc[t] = "rdcss.check" /\ UNCHANGED <<word, kcasDesc, rdcssDesc, frames>>
    BY <1>6 DEF CheckRdcss
  <2>2. CASE rdcssDesc[met[t][2]].seq = met[t][3]
    BY <1>6, <2>1, <2>2 DEF CheckRdcss, GoTo, Checking, Moves, TypeOK
  <2>3. CASE rdcssDesc[met[t][2]].seq # met[t][3]
    <3>1. pc'[t] = (IF frames[t] = <<>> THEN "read" ELSE "rdcss.cas") /\ met'[t] = None
      BY <1>6, <2>3 DEF CheckRdcss, GoTo, Moves, TypeOK
    <3>. QED  BY <2>1, <2>3, <3>1 DEF Elsewhere, Retrying, HelpingRdcss
  <2>. QED  BY <2>2, <2>3
<1>7. CASE CopyKcas(t)
  BY <1>7 DEF CopyKcas, GoTo, Elsewhere, HelpingRdcss, Moves, TypeOK
<1>8. CASE CheckKcas(t)
  <2>1. UNCHANGED rdcssDesc /\ met'[t] = None /\ pc'[t] \in {"help", "read", "entry"}
    BY <1>8 DEF CheckKcas, GoTo, Resume, Moves, TypeOK
  <2>. QED  BY <2>1 DEF Elsewhere, HelpingRdcss
<1>9. CASE HelpState(t) \/ ReadOutcome(t) \/ HelpDone(t)
  BY <1>1, <1>9 DEF HelpState, ReadOutcome, HelpDone, GoTo, Elsewhere, HelpingRdcss, Moves, TypeOK
<1>10. CASE AllEntries(t) \/ Decide(t) \/ Release(t)
  BY <1>10 DEF AllEntries, Decide, Release, GoTo, Elsewhere, HelpingRdcss, Moves, TypeOK
<1>11. CASE NewRdcss(t)
  <2>1. pc[t] = "entry" /\ pc'[t] = "rdcss.cas" /\ UNCHANGED <<word, kcasDesc, frames, met, rdcss>>
    BY <1>11 DEF NewRdcss, GoTo, Moves, TypeOK
  <2>2. frames[t] # <<>>
    BY <2>1, Invoked DEF Moves, Helping
  <2>3. Top(t).i \in Nat \ {0} /\ Top(t).entries \in Seq(Entry) /\ rdcssDesc[t].seq + 1 \in Nat \ {0}
    BY <2>2, TopForm, SeqForm DEF Moves, Plan
  <2>4. Top(t).i \in DOMAIN Top(t).entries
    BY <1>11, <2>3 DEF NewRdcss
  <2>5. rdcssDesc' = [rdcssDesc EXCEPT ![t] =
          [seq |-> rdcssDesc[t].seq + 1, old1 |-> Top(t).tag,
           addr2 |-> Top(t).entries[Top(t).i].addr, old2 |-> Top(t).entries[Top(t).i].old]]
    BY <1>11 DEF NewRdcss, Moves, TypeOK
  <2>. QED  BY <1>11, <2>1, <2>2, <2>3, <2>4, <2>5 DEF Renewed
<1>12. CASE RdcssState(t)
  BY <1>12 DEF RdcssState, GoTo, Stating, Moves, TypeOK
<1>13. CASE RdcssCas(t)
  <2>1. pc[t] = "rdcss.cas" /\ frames[t] # <<>> /\ UNCHANGED <<kcasDesc, rdcssDesc>> /\ rdcssDesc[t] \in RdcssSet
    BY <1>13, Invoked, EntryForm DEF RdcssCas, Moves, Helping, Agrees, AtEntry
  <2>. DEFINE d == rdcssDesc[t]
              r == word[d.addr2]
  <2>2. d.addr2 \in Addr /\ r \in WordSet
    BY <2>1 DEF RdcssSet, Moves, TypeOK
  <2>3. CASE r = Plain(d.old2)
    <3>1. ~IsRdcss(r) /\ ~IsKcas(r) /\ r # Top(t).tag
      BY <2>1, <2>3, WordForm, Kinds, TopForm DEF Moves
    <3>2. /\ pc'[t] = "rdcss.state" /\ rdcss'[t] = d /\ met'[t] = OwnRdcss(t) /\ frames' = frames
          /\ word' = [word EXCEPT ![d.addr2] = OwnRdcss(t)]
      BY <1>13, <2>3, <3>1 DEF RdcssCas, GoTo, Moves, TypeOK
    <3>. QED  BY <2>1, <2>3, <3>2 DEF Placing
  <2>4. CASE Meet(t, "rdcss.cas", r) /\ (IsRdcss(r) \/ IsKcas(r))
    BY <1>2, <2>1, <2>2, <2>4, Kinds
  <2>5. CASE (NextEntry(t, "rdcss.cas") \/ GoTo(t, "rdcss.cas", "decide")) /\ UNCHANGED met
    BY <2>1, <2>5 DEF NextEntry, GoTo, Elsewhere, HelpingRdcss, Moves, TypeOK
  <2>. QED  BY <1>13, <2>3, <2>4, <2>5 DEF RdcssCas
<1>14. CASE RdcssWrite(t)
  <2>1. pc[t] = "rdcss.write" /\ met'[t] = None /\ UNCHANGED <<kcasDesc, rdcssDesc>>
    BY <1>14 DEF RdcssWrite, Moves, TypeOK
  <2>2. CASE NextEntry(t, "rdcss.write")
    BY <2>1, <2>2 DEF NextEntry, GoTo, Elsewhere, HelpingRdcss, Moves, TypeOK
  <2>3. CASE met[t] # OwnRdcss(t) /\ GoTo(t, "rdcss.write", IF frames[t] = <<>> THEN "read" ELSE "rdcss.cas") /\ UNCHANGED frames
    <3>1. pc'[t] = (IF frames[t] = <<>> THEN "read" ELSE "rdcss.cas")
      BY <2>3 DEF GoTo, Moves, TypeOK
    <3>. QED  BY <2>1, <2>3, <3>1 DEF Elsewhere, Retrying, HelpingRdcss
  <2>. QED  BY <1>14, <2>2, <2>3 DEF RdcssWrite
<1>. QED
  BY <1>3, <1>4, <1>5, <1>6, <1>7, <1>8, <1>9, <1>10, <1>11, <1>12, <1>13, <1>14 DEF Moves, Step

-----------------------------------------------------------------------------
(* What has been called has been called.                                   *)
LEMMA IssuedStays ==
  ASSUME Usage, NEW t \in Thread, NEW h, NEW g, Moves(t, h, g), NEW tag \in KcasTags, Issued(tag)
  PROVE  Issued(tag)' /\ g[tag].entries = h[tag].entries /\ (Open(g, tag) => Open(h, tag) /\ g[tag] = h[tag])
BY GoingOn DEF Kept, Open

(* An RDCSS descriptor that is in use has been filled in.                  *)
LEMMA RdcssForm ==
  ASSUME TypeOK, NEW u \in Thread, rdcssDesc[u].seq > 0
  PROVE  rdcssDesc[u] \in RdcssSet /\ rdcssDesc[u].old1 \in KcasTags /\ rdcssDesc[u].addr2 \in Addr
BY DEF TypeOK, RdcssSet

(* The RDCSS of a thread is about the entry that it is at.                 *)
LEMMA OfEntryStep ==
  ASSUME Usage, NEW t \in Thread, NEW h, NEW g, Moves(t, h, g)
  PROVE  OfEntry'
<1>1. ASSUME NEW u \in Thread, rdcssDesc'[u] = rdcssDesc[u], rdcssDesc'[u].seq > 0
      PROVE  Issued(rdcssDesc[u].old1)'
  <2>1. rdcssDesc[u].old1 \in KcasTags /\ Issued(rdcssDesc[u].old1)
    BY <1>1, RdcssForm DEF Moves, Agrees, OfEntry
  <2>2. PICK tag : tag = rdcssDesc[u].old1
    OBVIOUS
  <2>3. Issued(tag)'
    BY <2>1, <2>2, IssuedStays
  <2>. QED  BY <1>1, <2>2, <2>3 DEF Issued
<1>2. ASSUME NEW u \in Thread, AtEntry(u), frames'[u] = frames[u], rdcssDesc'[u] = rdcssDesc[u]
      PROVE  LET f == Top(u)'
             IN  /\ f.i \in DOMAIN f.entries
                 /\ rdcssDesc'[u] = [seq |-> rdcssDesc'[u].seq, old1 |-> f.tag,
                                     addr2 |-> f.entries[f.i].addr, old2 |-> f.entries[f.i].old]
                 /\ rdcssDesc'[u].seq > 0
  <2>1. Top(u)' = Top(u)
    BY <1>2 DEF Top
  <2>. QED  BY <1>2, <2>1 DEF Moves, Agrees, OfEntry
<1>3. ASSUME NEW u \in Thread, u # t
      PROVE  /\ rdcssDesc'[u].seq > 0 => Issued(rdcssDesc[u].old1)'
             /\ AtEntry(u)' => AtEntry(u) /\ frames'[u] = frames[u] /\ rdcssDesc'[u] = rdcssDesc[u]
  <2>1. /\ pc'[u] = pc[u] /\ frames'[u] = frames[u] /\ rdcssDesc'[u] = rdcssDesc[u]
    BY <1>3, AloneStep DEF Moves, Alone
  <2>. QED  BY <1>1, <2>1 DEF AtEntry
<1>4. CASE Renewed(t)
  <2>1. /\ frames'[t] = frames[t] /\ frames[t] # <<>> /\ UNCHANGED kcasDesc
        /\ Top(t).i \in DOMAIN Top(t).entries /\ rdcssDesc[t].seq + 1 > 0
        /\ rdcssDesc'[t] = [seq |-> rdcssDesc[t].seq + 1, old1 |-> Top(t).tag,
                            addr2 |-> Top(t).entries[Top(t).i].addr, old2 |-> Top(t).entries[Top(t).i].old]
    BY <1>4 DEF Renewed, Moves, TypeOK
  <2>2. Top(t)' = Top(t) /\ Issued(Top(t).tag)
    BY <2>1, TopForm DEF Moves, Agrees, Frames, FrameOK, Fits, Top
  <2>3. Issued(rdcssDesc[t].old1)'
    BY <2>1, <2>2 DEF Issued
  <2>4. LET f == Top(t)'
        IN  /\ f.i \in DOMAIN f.entries
            /\ rdcssDesc'[t] = [seq |-> rdcssDesc'[t].seq, old1 |-> f.tag,
                                addr2 |-> f.entries[f.i].addr, old2 |-> f.entries[f.i].old]
            /\ rdcssDesc'[t].seq > 0
    BY <2>1, <2>2
  <2>. QED  BY <1>2, <1>3, <2>3, <2>4 DEF OfEntry
<1>5. CASE Elsewhere(t) \/ Placing(t) \/ Meeting(t) \/ Copying(t) \/ Checking(t) \/ Stating(t) \/ Retrying(t)
  <2>1. UNCHANGED rdcssDesc
    BY <1>5 DEF Elsewhere, Placing, Meeting, Copying, Checking, Stating, Retrying
  <2>2. AtEntry(t)' => AtEntry(t) /\ frames'[t] = frames[t]
    BY <1>5 DEF Elsewhere, Placing, Meeting, Copying, Checking, Stating, Retrying, AtEntry, HelpingRdcss
  <2>. QED  BY <1>1, <1>2, <1>3, <2>1, <2>2 DEF OfEntry
<1>. QED  BY <1>4, <1>5, RdcssSteps

(* The tag of an operation that t has met was in its first word, and still *)
(* is if the operation is not decided.                                     *)
LEMMA MetStep ==
  ASSUME Usage, NEW t \in Thread, NEW h, NEW g, Moves(t, h, g)
  PROVE  Met(g)'
<1>1. ASSUME NEW tag \in KcasTags, Issued(tag),
             Open(h, tag) => h[tag].entries # <<>> /\ word[h[tag].entries[1].addr] = tag
      PROVE  Issued(tag)' /\ (Open(g, tag) => g[tag].entries # <<>> /\ word'[g[tag].entries[1].addr] = tag)
  <2>1. Issued(tag)' /\ g[tag].entries = h[tag].entries /\ (Open(g, tag) => Open(h, tag))
    BY <1>1, IssuedStays
  <2>2. ASSUME Open(g, tag)
        PROVE  word'[h[tag].entries[1].addr] = tag
    <3>1. h[tag].entries \in Plan /\ h[tag].entries # <<>> /\ word[h[tag].entries[1].addr] = tag
      BY <1>1, <2>1, <2>2 DEF Moves, Histories
    <3>2. 1 \in DOMAIN h[tag].entries
      BY <3>1 DEF Plan
    <3>3. h[tag].entries[1].addr \in Addr
      BY <3>1, <3>2, PlanForm
    <3>. QED  BY <2>2, <3>1, <3>3, TagStays
  <2>. QED  BY <1>1, <2>1, <2>2
<1>2. ASSUME NEW u \in Thread, pc'[u] \in {"kcas.copy", "kcas.check"}
      PROVE  \/ pc[u] \in {"kcas.copy", "kcas.check"} /\ met'[u] = met[u]
             \/ Meeting(t) /\ u = t /\ pc'[t] = "kcas.copy"
  <2>1. CASE u # t
    BY <1>2, <2>1, AloneStep DEF Moves, Alone
  <2>2. CASE u = t
    BY <1>2, <2>2, RdcssSteps DEF Elsewhere, Renewed, Placing, Meeting, Copying, Checking, Stating, Retrying
  <2>. QED  BY <2>1, <2>2
<1>3. ASSUME NEW u \in Thread, pc[u] \in {"kcas.copy", "kcas.check"}
      PROVE  met[u] \in KcasTags
  BY <1>3 DEF Moves, Stages, StageOK
<1>4. ASSUME Meeting(t), pc'[t] = "kcas.copy"
      PROVE  /\ met'[t] \in KcasTags /\ Issued(met'[t])
             /\ Open(h, met'[t]) => h[met'[t]].entries # <<>> /\ word[h[met'[t]].entries[1].addr] = met'[t]
  <2>1. PICK a \in Addr : met'[t] = word[a] /\ word[a] \in KcasTags
    BY <1>4 DEF Meeting
  <2>2. IsKcas(word[a])
    BY <2>1, Kinds
  <2>3. /\ Issued(word[a]) /\ (Open(h, word[a]) => word[h[word[a]].entries[1].addr] = word[a])
        /\ h[word[a]].entries # <<>>
    BY <2>2 DEF Moves, Agrees, Words
  <2>. QED  BY <2>1, <2>3
<1>5. ASSUME NEW u \in Thread, pc'[u] \in {"kcas.copy", "kcas.check"}
      PROVE  /\ Issued(met[u])'
             /\ Open(g, met'[u]) => g[met'[u]].entries # <<>> /\ word'[g[met'[u]].entries[1].addr] = met'[u]
  <2>1. PICK tag : tag = met'[u]
    OBVIOUS
  <2>2. /\ tag \in KcasTags /\ Issued(tag)
        /\ Open(h, tag) => h[tag].entries # <<>> /\ word[h[tag].entries[1].addr] = tag
    BY <1>2, <1>3, <1>4, <1>5, <2>1 DEF Moves, Agrees, Met
  <2>3. Issued(tag)' /\ (Open(g, tag) => g[tag].entries # <<>> /\ word'[g[tag].entries[1].addr] = tag)
    BY <1>1, <2>2
  <2>. QED  BY <2>1, <2>3 DEF Issued
<1>. QED  BY <1>5 DEF Met, Open

-----------------------------------------------------------------------------
(* The RDCSS descriptors change when they are used again.                  *)
LEMMA RdcssSeq ==
  ASSUME Usage, NEW t \in Thread, NEW h, NEW g, Moves(t, h, g), NEW v \in Thread
  PROVE  /\ \/ rdcssDesc'[v] = rdcssDesc[v] /\ OwnRdcss(v)' = OwnRdcss(v)
            \/ v = t /\ Renewed(t) /\ rdcssDesc'[v].seq = rdcssDesc[v].seq + 1 /\ OwnRdcss(v)' = RdcssTag(v, rdcssDesc[v].seq + 1)
         /\ rdcssDesc[v].seq <= rdcssDesc'[v].seq /\ rdcssDesc[v].seq \in Nat /\ rdcssDesc'[v].seq \in Nat
<1>1. rdcssDesc[v].seq \in Nat
  BY SeqForm DEF Moves
<1>2. CASE UNCHANGED rdcssDesc
  BY <1>1, <1>2 DEF OwnRdcss
<1>3. CASE Renewed(t)
  <2>1. rdcssDesc' = [rdcssDesc EXCEPT ![t] =
         [seq |-> rdcssDesc[t].seq + 1, old1 |-> Top(t).tag,
          addr2 |-> Top(t).entries[Top(t).i].addr, old2 |-> Top(t).entries[Top(t).i].old]]
    BY <1>3 DEF Renewed
  <2>2. CASE v = t
    <3>1. rdcssDesc'[v].seq = rdcssDesc[v].seq + 1
      BY <2>1, <2>2 DEF Moves, TypeOK
    <3>. QED  BY <1>1, <1>3, <2>2, <3>1 DEF OwnRdcss
  <2>3. CASE v # t
    <3>1. rdcssDesc'[v] = rdcssDesc[v]
      BY <2>1, <2>3 DEF Moves, TypeOK
    <3>. QED  BY <1>1, <3>1 DEF OwnRdcss
  <2>. QED  BY <2>2, <2>3
<1>4. Renewed(t) \/ UNCHANGED rdcssDesc
  BY RdcssSteps DEF Elsewhere, Placing, Meeting, Copying, Checking, Stating, Retrying
<1>. QED  BY <1>2, <1>3, <1>4

(* A word that holds the tag of an RDCSS has been placed there.            *)
LEMMA PlacedTag ==
  ASSUME TypeOK, NEW h, Words(h), NEW a \in Addr, word[a] \in RdcssTags
  PROVE  \E u \in Thread : word[a] = OwnRdcss(u) /\ Placed(u, a)
<1>1. IsRdcss(word[a])
  BY Kinds
<1>. QED  BY <1>1 DEF Words

(* Whose tag is in a word is at an entry and has placed it.                *)
LEMMA PlacedForm ==
  ASSUME TypeOK, NEW u \in Thread, NEW a, Placed(u, a)
  PROVE  AtEntry(u) /\ ~Unplaced(u) /\ pc[u] \notin {"read", "rdcss.cas", "kcas.check"} /\ frames[u] # <<>>
BY DEF Placed, AtEntry, Unplaced, HelpingRdcss

(* Tags of RDCSSs are the same if threads and numbers are.                 *)
LEMMA RdcssTagForm ==
  ASSUME NEW u, NEW v, NEW m, NEW n, RdcssTag(u, m) = RdcssTag(v, n)
  PROVE  u = v /\ m = n
BY DEF RdcssTag

(* Nobody has met the tag of an RDCSS before it was placed.                *)
LEMMA MetRdcssStep ==
  ASSUME Usage, NEW t \in Thread, NEW h, NEW g, Moves(t, h, g)
  PROVE  MetRdcss'
<1>1. /\ \A u \in Thread : met[u] \in RdcssTags => met[u][3] <= rdcssDesc[met[u][2]].seq
      /\ \A u \in Thread : Unplaced(u) => \A w \in Thread : met[w] # OwnRdcss(u)
      /\ \A u \in Thread : pc[u] \in HelpingRdcss /\ frames[u] = <<>> => met[u] # OwnRdcss(u)
  BY DEF Moves, Agrees, MetRdcss
<1>2. \A u \in Thread : OwnRdcss(u) = RdcssTag(u, rdcssDesc[u].seq) /\ OwnRdcss(u)[2] = u /\ OwnRdcss(u)[3] = rdcssDesc[u].seq
  BY WordForm DEF OwnRdcss
<1>3. \/ met'[t] \in {met[t], None}
      \/ met'[t] = OwnRdcss(t) /\ Placing(t)
      \/ Meeting(t) /\ met'[t] \in KcasTags
      \/ Meeting(t) /\ \E v \in Thread, a \in Addr : met'[t] = OwnRdcss(v) /\ Placed(v, a)
  <2>1. CASE Elsewhere(t) \/ Renewed(t) \/ Copying(t) \/ Checking(t) \/ Stating(t) \/ Retrying(t)
    BY <2>1 DEF Elsewhere, Renewed, Copying, Checking, Stating, Retrying
  <2>2. CASE Meeting(t)
    <3>1. PICK a \in Addr : met'[t] = word[a] /\ (word[a] \in RdcssTags \/ word[a] \in KcasTags)
      BY <2>2 DEF Meeting
    <3>. QED  BY <2>2, <3>1, PlacedTag DEF Moves, Agrees
  <2>3. CASE Placing(t)
    BY <2>3 DEF Placing
  <2>. QED  BY <2>1, <2>2, <2>3, RdcssSteps
<1>4. \A w \in Thread \ {t} : met'[w] = met[w] /\ pc'[w] = pc[w] /\ frames'[w] = frames[w] /\ rdcssDesc'[w] = rdcssDesc[w]
  BY AloneStep DEF Moves, Alone
<1>5. ASSUME NEW u \in Thread, met'[u] \in RdcssTags
      PROVE  met'[u][3] <= rdcssDesc'[met'[u][2]].seq
  <2>1. met'[u][3] <= rdcssDesc[met'[u][2]].seq
    <3>1. CASE met'[u] = met[u]
      BY <1>1, <1>5, <3>1
    <3>2. CASE \E v \in Thread : met'[u] = OwnRdcss(v)
      <4>1. PICK v \in Thread : met'[u] = OwnRdcss(v)
        BY <3>2
      <4>2. rdcssDesc[v].seq \in Nat
        BY SeqForm DEF Moves
      <4>. QED  BY <1>2, <4>1, <4>2
    <3>. QED  BY <1>3, <1>4, <1>5, <3>1, <3>2, NoneIsNoTag, Kinds
  <2>2. met'[u][2] \in Thread /\ met'[u][3] \in Nat
    BY <1>5, WordForm
  <2>3. /\ rdcssDesc[met'[u][2]].seq <= rdcssDesc'[met'[u][2]].seq
        /\ rdcssDesc[met'[u][2]].seq \in Nat /\ rdcssDesc'[met'[u][2]].seq \in Nat
    <3>1. PICK v \in Thread : v = met'[u][2]
      BY <2>2
    <3>. QED  BY <3>1, RdcssSeq
  <2>. QED  BY <2>1, <2>2, <2>3
<1>6. ASSUME NEW u \in Thread, Unplaced(u)', NEW w \in Thread, met'[w] = OwnRdcss(u)', OwnRdcss(u)' = OwnRdcss(u)
      PROVE  FALSE
  <2>1. Unplaced(u)
    <3>1. CASE u # t
      BY <1>4, <1>6, <3>1 DEF Unplaced, AtEntry
    <3>2. CASE u = t
      <4>1. AtEntry(t)' /\ (pc'[t] = "rdcss.cas" \/ met'[t] # OwnRdcss(t))
        BY <1>6, <3>2 DEF Unplaced
      <4>2. ~Renewed(t)
        BY <1>6, <3>2 DEF Renewed, OwnRdcss, RdcssTag, Moves, TypeOK
      <4>3. CASE Elsewhere(t) \/ Placing(t)
        BY <4>1, <4>3 DEF Elsewhere, Placing, AtEntry
      <4>4. CASE Meeting(t)
        BY <3>2, <4>1, <4>4 DEF Meeting, AtEntry, Unplaced, HelpingRdcss
      <4>5. CASE Copying(t) \/ Checking(t) \/ Stating(t)
        BY <3>2, <4>1, <4>5 DEF Copying, Checking, Stating, AtEntry, Unplaced, HelpingRdcss
      <4>6. CASE Retrying(t)
        <5>1. met[t] # OwnRdcss(t)
          BY <1>2, <4>6 DEF Retrying
        <5>. QED  BY <3>2, <4>6, <5>1 DEF Retrying, AtEntry, Unplaced, HelpingRdcss
      <4>. QED  BY <3>2, <4>2, <4>3, <4>4, <4>5, <4>6, RdcssSteps
    <3>. QED  BY <3>1, <3>2
  <2>2. met'[w] # met[w] /\ w = t
    BY <1>1, <1>4, <1>6, <2>1
  <2>3. OwnRdcss(u) \in RdcssTags
    <3>1. rdcssDesc[u].seq \in Nat \ {0}
      <4>1. AtEntry(u)
        BY <2>1 DEF Unplaced
      <4>2. rdcssDesc[u].seq > 0
        BY <4>1 DEF Moves, Agrees, OfEntry
      <4>3. rdcssDesc[u].seq \in Nat
        BY SeqForm DEF Moves
      <4>. QED  BY <4>2, <4>3
    <3>. QED  BY <3>1 DEF OwnRdcss, RdcssTags
  <2>4. CASE met'[t] = OwnRdcss(t) /\ Placing(t)
    <3>1. u = t
      BY <1>2, <1>6, <2>2, <2>4
    <3>. QED  BY <1>6, <2>4, <3>1 DEF Placing, Unplaced
  <2>5. CASE \E v \in Thread, a \in Addr : met'[t] = OwnRdcss(v) /\ Placed(v, a)
    <3>1. PICK v \in Thread, a \in Addr : met'[t] = OwnRdcss(v) /\ Placed(v, a)
      BY <2>5
    <3>2. v = u
      BY <1>2, <1>6, <2>2, <3>1
    <3>. QED  BY <2>1, <3>1, <3>2, PlacedForm DEF Moves
  <2>. QED  BY <1>3, <1>6, <2>2, <2>3, <2>4, <2>5, NoneIsNoTag, Kinds
<1>7. ASSUME NEW u \in Thread, Unplaced(u)', NEW w \in Thread, met'[w] = OwnRdcss(u)'
      PROVE  FALSE
  <2>1. u = t /\ Renewed(t) /\ OwnRdcss(u)' = RdcssTag(u, rdcssDesc[u].seq + 1)
    BY <1>6, <1>7, RdcssSeq
  <2>2. met'[w] = met[w]
    BY <1>4, <2>1 DEF Renewed
  <2>3. rdcssDesc[u].seq \in Nat
    BY SeqForm DEF Moves
  <2>4. met[w] \in RdcssTags /\ met[w][2] = u /\ met[w][3] = rdcssDesc[u].seq + 1
    BY <1>7, <2>1, <2>2, <2>3, WordForm DEF RdcssTags
  <2>5. rdcssDesc[u].seq + 1 <= rdcssDesc[u].seq
    BY <1>1, <2>4
  <2>. QED  BY <2>3, <2>5
<1>8. ASSUME NEW u \in Thread, pc'[u] \in HelpingRdcss, frames'[u] = <<>>
      PROVE  met'[u] # OwnRdcss(u)'
  <2>1. CASE u # t
    <3>1. OwnRdcss(u)' = OwnRdcss(u)
      BY <1>4, <2>1 DEF OwnRdcss
    <3>. QED  BY <1>1, <1>4, <1>8, <2>1, <3>1
  <2>2. CASE u = t
    <3>1. ~Elsewhere(t) /\ ~Renewed(t) /\ ~Placing(t) /\ ~Retrying(t)
      BY <1>8, <2>2 DEF Elsewhere, Renewed, Placing, Retrying, HelpingRdcss
    <3>2. CASE Copying(t) \/ Checking(t) \/ Stating(t)
      <4>1. pc[t] \in HelpingRdcss /\ frames[t] = <<>> /\ met'[t] = met[t] /\ UNCHANGED rdcssDesc
        BY <1>8, <2>2, <3>2 DEF Copying, Checking, Stating, HelpingRdcss
      <4>2. OwnRdcss(t)' = OwnRdcss(t)
        BY <4>1 DEF OwnRdcss
      <4>. QED  BY <1>1, <2>2, <4>1, <4>2
    <3>3. CASE Meeting(t)
      <4>1. pc[t] = "read" /\ pc'[t] = "rdcss.copy" /\ UNCHANGED rdcssDesc
        BY <1>8, <2>2, <3>3 DEF Meeting, HelpingRdcss
      <4>2. PICK a \in Addr : met'[t] = word[a] /\ word[a] \in RdcssTags
        BY <3>3, <4>1 DEF Meeting
      <4>3. PICK v \in Thread : word[a] = OwnRdcss(v) /\ Placed(v, a)
        BY <4>2, PlacedTag DEF Moves, Agrees
      <4>4. v # t
        BY <4>1, <4>3, PlacedForm DEF Moves
      <4>5. OwnRdcss(t)' = OwnRdcss(t)
        BY <4>1 DEF OwnRdcss
      <4>. QED  BY <1>2, <2>2, <4>2, <4>3, <4>4, <4>5
    <3>. QED  BY <3>1, <3>2, <3>3, RdcssSteps
  <2>. QED  BY <2>1, <2>2
<1>. QED  BY <1>5, <1>7, <1>8 DEF MetRdcss

-----------------------------------------------------------------------------
(* The RDCSS of t is about an entry of an operation; if that is undecided, *)
(* its tag is in the words of the entries before.                          *)
EntryOfTag(h, u) ==
  LET d == rdcssDesc[u]
      s == h[d.old1].entries
      i == Top(u).i
  IN  /\ d \in RdcssSet /\ d.old1 \in KcasTags /\ Issued(d.old1) /\ d.old1 = Top(u).tag
      /\ s \in Plan /\ i \in DOMAIN s /\ d.addr2 = s[i].addr /\ d.old2 = s[i].old /\ Top(u).entries = s
      /\ Open(h, d.old1) => \A j \in DOMAIN s : j < i => word[s[j].addr] = d.old1

(* This follows from what is known of the current invocation.              *)
LEMMA EntryFacts ==
  ASSUME TypeOK, Stages, NEW h, Agrees(h), NEW u \in Thread, AtEntry(u)
  PROVE  EntryOfTag(h, u)
<1>1. frames[u] # <<>>
  BY DEF AtEntry, Stages, StageOK, Helping
<1>2. Top(u) = frames[u][1] /\ 1 \in DOMAIN frames[u] /\ Top(u).entries \in Plan
  BY <1>1, TopForm
<1>3. Fits(h, Top(u), pc[u])
  BY <1>2 DEF Agrees, Frames, FrameOK
<1>4. pc[u] \notin {"kcas.check", "decide", "phase2", "release"}
  BY DEF AtEntry, HelpingRdcss
<1>5. rdcssDesc[u] \in RdcssSet
  BY EntryForm DEF Agrees
<1>6. rdcssDesc[u].old1 \in KcasTags
  BY <1>5 DEF RdcssSet
<1>7. /\ Top(u).i \in DOMAIN Top(u).entries
      /\ rdcssDesc[u].old1 = Top(u).tag
      /\ rdcssDesc[u].addr2 = Top(u).entries[Top(u).i].addr
      /\ rdcssDesc[u].old2 = Top(u).entries[Top(u).i].old
  <2>1. /\ Top(u).i \in DOMAIN Top(u).entries
        /\ rdcssDesc[u] = [seq |-> rdcssDesc[u].seq, old1 |-> Top(u).tag,
                           addr2 |-> Top(u).entries[Top(u).i].addr, old2 |-> Top(u).entries[Top(u).i].old]
    BY DEF Agrees, OfEntry
  <2>. DEFINE x == Top(u).tag
              y == Top(u).entries[Top(u).i].addr
              z == Top(u).entries[Top(u).i].old
  <2>2. rdcssDesc[u] = [seq |-> rdcssDesc[u].seq, old1 |-> x, addr2 |-> y, old2 |-> z]
    BY <2>1
  <2>. HIDE DEF x, y, z
  <2>3. rdcssDesc[u].old1 = x /\ rdcssDesc[u].addr2 = y /\ rdcssDesc[u].old2 = z
    BY <2>2
  <2>. QED  BY <2>1, <2>3 DEF x, y, z
<1>8. /\ Issued(Top(u).tag) /\ Top(u).entries = h[Top(u).tag].entries
      /\ Open(h, Top(u).tag) => \A j \in DOMAIN Top(u).entries : j < Top(u).i => word[Top(u).entries[j].addr] = Top(u).tag
  BY <1>3, <1>4 DEF Fits
<1>. QED  BY <1>2, <1>5, <1>6, <1>7, <1>8 DEF EntryOfTag

(* The completion of an RDCSS, that of u.                                  *)
Completes(t, h, u) ==
  LET d == rdcssDesc[u]
  IN  /\ met[t] = OwnRdcss(u) /\ Placed(u, d.addr2) /\ AtEntry(u) /\ ~Unplaced(u)
      /\ rdcss[t].addr2 = d.addr2
      /\ \/ rdcss[t].new = d.old1 /\ h[d.old1].outcome # "SUCCEEDED"
         \/ rdcss[t].new = Plain(d.old2) /\ ~Open(h, d.old1)

(* A helper that still finds the tag of an RDCSS in the word is about to   *)
(* write what that stands for.                                             *)
LEMMA CompleteFacts ==
  ASSUME TypeOK, Stages, NEW h, Agrees(h), NEW t \in Thread, pc[t] = "rdcss.write",
         rdcss[t] \in Writing, met[t] \in RdcssTags, word[rdcss[t].addr2] = met[t]
  PROVE  \E u \in Thread : Completes(t, h, u)
<1>1. rdcss[t].addr2 \in Addr
  BY DEF Writing
<1>2. PICK u \in Thread : met[t] = OwnRdcss(u) /\ Placed(u, rdcss[t].addr2)
  BY <1>1, PlacedTag DEF Agrees
<1>3. AtEntry(u) /\ ~Unplaced(u) /\ rdcss[t].addr2 = rdcssDesc[u].addr2
  BY <1>2, PlacedForm DEF Placed
<1>4. met[t][2] = u /\ met[t][3] = rdcssDesc[u].seq
  BY <1>2, WordForm DEF OwnRdcss
<1>5. pc[t] \in HelpingRdcss
  BY DEF HelpingRdcss
<1>6. \/ rdcss[t].new = rdcssDesc[u].old1 /\ h[rdcssDesc[u].old1].outcome # "SUCCEEDED"
      \/ rdcss[t].new = Plain(rdcssDesc[u].old2) /\ ~Open(h, rdcssDesc[u].old1)
  BY <1>3, <1>4, <1>5 DEF Agrees, Copies
<1>. QED  BY <1>2, <1>3, <1>6 DEF Completes

(* An operation that has been called is decided by a step or left alone.   *)
LEMMA OutcomeSteps ==
  ASSUME Usage, NEW t \in Thread, NEW h, NEW g, Moves(t, h, g), NEW w \in KcasTags, Issued(w)
  PROVE  g[w] = h[w] \/ (Decide(t) /\ Undecided(Top(t).tag) /\ w = Top(t).tag)
<1>1. CASE UNCHANGED kcasDesc
  BY <1>1, GoingOn
<1>2. CASE Decide(t) /\ Undecided(Top(t).tag)
  <2>1. PICK tag : tag = Top(t).tag
    OBVIOUS
  <2>2. Deciding(t, h, g, tag)
    BY <1>2, <2>1, DecideHistory
  <2>. QED  BY <1>2, <2>1, <2>2 DEF Deciding
<1>3. ASSUME NEW c, Invoke(t, c)
      PROVE  g[w] = h[w]
  <2>1. CASE c.op = "kcas"
    <3>1. PICK tag : tag = KcasTag(t, kcasDesc[t].seq + 1)
      OBVIOUS
    <3>2. Calling(t, h, g, c, tag)
      BY <1>3, <2>1, <3>1, CallHistory
    <3>. QED  BY <3>2 DEF Calling
  <2>2. CASE c.op # "kcas"
    <3>1. UNCHANGED kcasDesc
      BY <1>3, <2>2, InvokeFacts DEF Moves
    <3>. QED  BY <3>1, GoingOn
  <2>. QED  BY <2>1, <2>2
<1>. QED  BY <1>1, <1>2, <1>3, NoteSteps DEF Moves

(* A word gets a new value when the operation succeeds whose tag it holds. *)
LEMMA ValueStays ==
  ASSUME Usage, NEW t \in Thread, NEW h, NEW g, Moves(t, h, g), NEW a \in Addr
  PROVE  \/ value'[a] = value[a]
         \/ /\ Decide(t) /\ Undecided(Top(t).tag) /\ Top(t).newstate = "SUCCEEDED"
            /\ word[a] = Top(t).tag /\ Top(t).tag \in KcasTags
<1>. SUFFICES ASSUME Decide(t), Undecided(Top(t).tag), Top(t).newstate = "SUCCEEDED"
              PROVE  value'[a] = value[a] \/ (word[a] = Top(t).tag /\ Top(t).tag \in KcasTags)
  BY NoteSteps, DecideValues DEF Moves
<1>1. PICK s : s = Top(t).entries
  OBVIOUS
<1>2. \A b \in Addr : (\A j \in DOMAIN s : s[j].addr # b) => value'[b] = value[b]
  BY <1>1, DecideValues
<1>3. PICK tag : tag = Top(t).tag
  OBVIOUS
<1>4. Deciding(t, h, g, tag)
  BY <1>3, DecideHistory
<1>5. tag \in KcasTags /\ s = h[tag].entries /\ \A j \in DOMAIN s : word[s[j].addr] = tag
  BY <1>1, <1>4 DEF Deciding
<1>. QED  BY <1>2, <1>3, <1>5

-----------------------------------------------------------------------------
(* What t does in the last two stages of an RDCSS.                         *)
LEMMA PlacedSteps ==
  ASSUME Usage, NEW t \in Thread, NEW h, NEW g, Moves(t, h, g), pc[t] \in {"rdcss.state", "rdcss.write"}
  PROVE  /\ pc[t] = "rdcss.state" => Stating(t)
         /\ pc[t] = "rdcss.write" => RdcssWrite(t)
<1>1. ASSUME NEW from, NEW succeeded, LeaveHelp(t, from, succeeded), from \in Helping PROVE FALSE
  BY <1>1, LeaveFacts DEF Helping
<1>2. ASSUME NEW from, NEW tag, Meet(t, from, tag), from \in {"read", "rdcss.cas"} PROVE FALSE
  BY <1>2, MeetFacts
<1>3. ~\E c : Invoke(t, c)
  BY DEF Invoke
<1>4. ~ReadWord(t) /\ ~CopyRdcss(t) /\ ~CheckRdcss(t) /\ ~CopyKcas(t) /\ ~CheckKcas(t)
  BY DEF ReadWord, CopyRdcss, CheckRdcss, CopyKcas, CheckKcas, GoTo
<1>5. ~HelpState(t) /\ ~NewRdcss(t) /\ ~RdcssCas(t) /\ ~AllEntries(t) /\ ~Decide(t)
  BY DEF HelpState, NewRdcss, RdcssCas, AllEntries, Decide, GoTo
<1>6. ~ReadOutcome(t) /\ ~Release(t) /\ ~HelpDone(t)
  BY DEF ReadOutcome, Release, HelpDone, GoTo
<1>7. RdcssState(t) \/ RdcssWrite(t)
  BY <1>3, <1>4, <1>5, <1>6 DEF Moves, Step
<1>8. RdcssState(t) => pc[t] = "rdcss.state" /\ Stating(t)
  BY DEF RdcssState, GoTo, Stating, Moves, TypeOK
<1>9. RdcssWrite(t) => pc[t] = "rdcss.write"
  BY DEF RdcssWrite
<1>. QED  BY <1>7, <1>8, <1>9

(* An RDCSS that is in a word stays as it is.                              *)
LEMMA PlacedStays ==
  ASSUME Usage, NEW t \in Thread, NEW h, NEW g, Moves(t, h, g),
         NEW u \in Thread, NEW a \in Addr, word[a] = OwnRdcss(u), Placed(u, a), word'[a] = word[a],
         word[a] \in RdcssTags
  PROVE  word'[a] = OwnRdcss(u)' /\ Placed(u, a)'
<1>1. value'[a] = value[a]
  BY ValueStays, Kinds
<1>2. CASE u # t
  <2>1. pc'[u] = pc[u] /\ frames'[u] = frames[u] /\ met'[u] = met[u] /\ rdcssDesc'[u] = rdcssDesc[u]
    BY <1>2, AloneStep DEF Moves, Alone
  <2>. QED  BY <1>1, <2>1 DEF Placed, OwnRdcss
<1>3. CASE u = t /\ pc[t] = "rdcss.state"
  <2>1. Stating(t)
    BY <1>3, PlacedSteps
  <2>. QED  BY <1>1, <1>3, <2>1 DEF Stating, Placed, OwnRdcss
<1>4. CASE u = t /\ pc[t] = "rdcss.write"
  <2>1. RdcssWrite(t)
    BY <1>4, PlacedSteps
  <2>2. rdcss[t] \in Writing /\ met[t] = word[a] /\ rdcssDesc[t].addr2 = a
    BY <1>4 DEF Moves, Stages, StageOK, Placed
  <2>3. rdcss[t].addr2 = a
    <3>1. met[t][2] = t /\ met[t][3] = rdcssDesc[t].seq /\ pc[t] \in HelpingRdcss
      BY <1>4, <2>2, WordForm DEF OwnRdcss, HelpingRdcss
    <3>. QED  BY <1>4, <2>2, <3>1 DEF Moves, Agrees, Copies
  <2>4. word'[a] = rdcss[t].new
    BY <2>1, <2>2, <2>3 DEF RdcssWrite, Moves, TypeOK
  <2>5. rdcss[t].new \notin RdcssTags
    <3>1. rdcss[t].new \in {Plain(v) : v \in Value} \/ rdcss[t].new \in KcasTags
      BY <2>2 DEF Writing
    <3>. QED  BY <3>1, Kinds, WordForm
  <2>. QED  BY <2>4, <2>5
<1>. QED  BY <1>2, <1>3, <1>4 DEF Placed

(* The words go on to hold what their tags say: only a decision changes    *)
(* values, and for all tags of the operation at once.                      *)
LEMMA WordsStep ==
  ASSUME Usage, NEW t \in Thread, NEW h, NEW g, Moves(t, h, g)
  PROVE  Words(g)'
<1>. SUFFICES ASSUME NEW a \in Addr
              PROVE  /\ IsValue(word'[a]) => word'[a] = Plain(value'[a])
                     /\ IsRdcss(word'[a]) => \E u \in Thread : word'[a] = OwnRdcss(u)' /\ Placed(u, a)'
                     /\ IsKcas(word'[a]) =>
                          /\ Issued(word[a])'
                          /\ \E j \in DOMAIN g[word'[a]].entries :
                               g[word'[a]].entries[j].addr = a /\ value'[a] = Holds(g, word'[a], j)
                          /\ Open(g, word'[a]) => word'[g[word'[a]].entries[1].addr] = word'[a]
  BY DEF Words, Open, Holds, IsValue, IsRdcss, IsKcas
<1>w. word[a] \in WordSet /\ word'[a] \in WordSet
  BY DEF Moves, TypeOK
(* The tag of an operation stays, or comes.                                *)
<1>1. ASSUME NEW tag \in KcasTags, Issued(tag), word'[a] = tag, value'[a] = value[a], g[tag] = h[tag],
             NEW j \in DOMAIN h[tag].entries, h[tag].entries[j].addr = a, value[a] = Holds(h, tag, j),
             Open(h, tag) => word'[h[tag].entries[1].addr] = tag
      PROVE  /\ Issued(word[a])'
             /\ \E k \in DOMAIN g[word'[a]].entries :
                  g[word'[a]].entries[k].addr = a /\ value'[a] = Holds(g, word'[a], k)
             /\ Open(g, word'[a]) => word'[g[word'[a]].entries[1].addr] = word'[a]
  <2>1. Issued(tag)'
    BY <1>1, IssuedStays
  <2>2. Issued(word[a])'
    BY <1>1, <2>1 DEF Issued
  <2>3. Holds(g, tag, j) = Holds(h, tag, j)
    BY <1>1 DEF Holds
  <2>. QED  BY <1>1, <2>2, <2>3 DEF Open
<1>2. CASE word'[a] = word[a]
  <2>1. CASE IsValue(word[a])
    <3>1. word[a] \notin KcasTags /\ word[a] = Plain(value[a])
      BY <2>1, Kinds DEF Moves, Agrees, Words
    <3>2. value'[a] = value[a]
      BY <3>1, ValueStays
    <3>. QED  BY <1>2, <2>1, <3>1, <3>2, Kinds
  <2>2. CASE IsRdcss(word[a])
    <3>1. word[a] \in RdcssTags
      BY <1>w, <2>2, WordForm
    <3>2. PICK u \in Thread : word[a] = OwnRdcss(u) /\ Placed(u, a)
      BY <3>1, PlacedTag DEF Moves, Agrees
    <3>3. word'[a] = OwnRdcss(u)' /\ Placed(u, a)'
      BY <1>2, <3>1, <3>2, PlacedStays
    <3>. QED  BY <1>2, <2>2, <3>3, Kinds
  <2>3. CASE IsKcas(word[a])
    <3>1. PICK tag : tag = word[a]
      OBVIOUS
    <3>2. /\ tag \in KcasTags /\ Issued(tag)
          /\ \E j \in DOMAIN h[tag].entries : h[tag].entries[j].addr = a /\ value[a] = Holds(h, tag, j)
          /\ Open(h, tag) => word[h[tag].entries[1].addr] = tag
      BY <1>w, <2>3, <3>1, WordForm DEF Moves, Agrees, Words
    <3>3. PICK j \in DOMAIN h[tag].entries : h[tag].entries[j].addr = a /\ value[a] = Holds(h, tag, j)
      BY <3>2
    <3>4. CASE Decide(t) /\ Undecided(Top(t).tag) /\ tag = Top(t).tag
      <4>1. Deciding(t, h, g, tag)
        BY <3>4, DecideHistory
      <4>2. /\ g[tag].entries = h[tag].entries /\ g[tag].outcome = Top(t).newstate /\ ~Open(g, tag)
            /\ Open(h, tag) /\ Top(t).entries = h[tag].entries
        BY <4>1 DEF Deciding, Open
      <4>3. value'[a] = Holds(g, tag, j)
        <5>1. CASE Top(t).newstate = "SUCCEEDED"
          <6>1. PICK s : s = Top(t).entries
            OBVIOUS
          <6>2. value'[s[j].addr] = s[j].new
            BY <3>3, <3>4, <4>2, <5>1, <6>1, DecideValues
          <6>. QED  BY <3>3, <4>2, <5>1, <6>1, <6>2 DEF Holds
        <5>2. CASE Top(t).newstate # "SUCCEEDED"
          <6>1. UNCHANGED value
            BY <3>4, <5>2 DEF Decide
          <6>. QED  BY <3>3, <4>2, <5>2, <6>1 DEF Holds, Open
        <5>. QED  BY <5>1, <5>2
      <4>4. Issued(tag)'
        BY <3>2, IssuedStays
      <4>5. Issued(word[a])'
        BY <1>2, <3>1, <4>4 DEF Issued
      <4>. QED  BY <1>2, <2>3, <3>1, <3>3, <4>2, <4>3, <4>5, Kinds
    <3>5. CASE ~(Decide(t) /\ Undecided(Top(t).tag) /\ tag = Top(t).tag)
      <4>1. g[tag] = h[tag] /\ value'[a] = value[a]
        BY <3>1, <3>2, <3>5, OutcomeSteps, ValueStays
      <4>2. Open(h, tag) => word'[h[tag].entries[1].addr] = tag
        <5>. SUFFICES ASSUME Open(h, tag) PROVE word'[h[tag].entries[1].addr] = tag
          OBVIOUS
        <5>1. h[tag].entries \in Plan
          BY <3>2 DEF Moves, Histories
        <5>2. 1 \in DOMAIN h[tag].entries
          BY <3>3, <5>1, PlanForm
        <5>3. h[tag].entries[1].addr \in Addr
          BY <5>1, <5>2, PlanForm
        <5>4. Open(g, tag)
          BY <4>1 DEF Open
        <5>. QED  BY <3>2, <5>3, <5>4, TagStays
      <4>. QED  BY <1>1, <1>2, <2>3, <3>1, <3>2, <3>3, <4>1, <4>2, Kinds
    <3>. QED  BY <3>4, <3>5
  <2>. QED  BY <1>w, <2>1, <2>2, <2>3, WordForm
<1>3. CASE word'[a] # word[a]
  <2>0. word \in [Addr -> WordSet]
    BY DEF Moves, TypeOK
  <2>1. CASE /\ RdcssCas(t) /\ rdcssDesc[t] \in RdcssSet
             /\ word[rdcssDesc[t].addr2] = Plain(rdcssDesc[t].old2)
             /\ word' = [word EXCEPT ![rdcssDesc[t].addr2] = OwnRdcss(t)]
    <3>1. a = rdcssDesc[t].addr2 /\ word'[a] = OwnRdcss(t)
      BY <1>3, <2>0, <2>1
    <3>2. Placing(t)
      <4>1. ~Elsewhere(t) /\ ~Renewed(t) /\ ~Meeting(t) /\ ~Copying(t) /\ ~Checking(t) /\ ~Stating(t)
        <5>1. met'[t] = OwnRdcss(t) /\ pc'[t] = "rdcss.state" /\ word' # word /\ pc[t] = "rdcss.cas"
          <6>1. word' # word
            BY <1>3
          <6>2. word[rdcssDesc[t].addr2] = Plain(rdcssDesc[t].old2)
            BY <2>1
          <6>3. ~NextEntry(t, "rdcss.cas") \/ ~UNCHANGED word
            BY <6>1
          <6>. QED  BY <2>1, <6>1, MeetFacts DEF RdcssCas, GoTo, Moves, TypeOK
        <5>. QED  BY <5>1 DEF Elsewhere, Renewed, Meeting, Copying, Checking, Stating, HelpingRdcss
      <4>2. ~Retrying(t)
        BY <2>1 DEF Retrying, RdcssCas
      <4>. QED  BY <4>1, <4>2, RdcssSteps
    <3>3. word[a] = Plain(value[a]) /\ value'[a] = value[a] /\ rdcssDesc[t].old2 = value[a]
      <4>1. IsValue(word[a]) /\ word[a] \notin KcasTags
        BY <2>1, <3>1, WordForm, Kinds
      <4>2. word[a] = Plain(value[a]) /\ value'[a] = value[a]
        BY <4>1, ValueStays DEF Moves, Agrees, Words
      <4>. QED  BY <2>1, <3>1, <4>2 DEF Plain
    <3>4. word'[a] = OwnRdcss(t)' /\ Placed(t, a)'
      BY <3>1, <3>2, <3>3 DEF Placing, Placed, OwnRdcss
    <3>5. IsRdcss(word'[a])
      BY <3>1, WordForm DEF OwnRdcss
    <3>. QED  BY <3>4, <3>5, Kinds
  <2>2. CASE /\ RdcssWrite(t) /\ rdcss[t] \in Writing /\ met[t] \in RdcssTags
             /\ word[rdcss[t].addr2] = met[t]
             /\ word' = [word EXCEPT ![rdcss[t].addr2] = rdcss[t].new]
    <3>1. a = rdcss[t].addr2 /\ word'[a] = rdcss[t].new /\ word[a] = met[t]
      BY <1>3, <2>0, <2>2
    <3>2. PICK u \in Thread : Completes(t, h, u)
      BY <2>2, CompleteFacts DEF Moves, RdcssWrite
    <3>3. value'[a] = value[a]
      BY <2>2, <3>1, ValueStays, Kinds
    <3>4. rdcssDesc[u].addr2 = a /\ rdcssDesc[u].old2 = value[a] /\ AtEntry(u)
      BY <3>1, <3>2 DEF Completes, Placed
    <3>5. CASE rdcss[t].new = Plain(rdcssDesc[u].old2)
      BY <3>1, <3>3, <3>4, <3>5, WordForm, Kinds
    <3>6. CASE rdcss[t].new = rdcssDesc[u].old1 /\ h[rdcssDesc[u].old1].outcome # "SUCCEEDED"
      <4>1. EntryOfTag(h, u)
        BY <3>4, EntryFacts DEF Moves
      <4>2. PICK tag, i : tag = rdcssDesc[u].old1 /\ i = Top(u).i
        OBVIOUS
      <4>3. /\ tag \in KcasTags /\ Issued(tag) /\ h[tag].entries \in Plan /\ i \in DOMAIN h[tag].entries
            /\ h[tag].entries[i].addr = a /\ value[a] = h[tag].entries[i].old
            /\ Open(h, tag) => \A j \in DOMAIN h[tag].entries : j < i => word[h[tag].entries[j].addr] = tag
        BY <3>4, <4>1, <4>2 DEF EntryOfTag
      <4>4. value[a] = Holds(h, tag, i)
        BY <3>6, <4>2, <4>3 DEF Holds
      <4>5. g[tag] = h[tag]
        <5>1. UNCHANGED kcasDesc
          BY <2>2 DEF RdcssWrite
        <5>. QED  BY <5>1, GoingOn
      <4>6. Open(h, tag) => word'[h[tag].entries[1].addr] = tag
        <5>. SUFFICES ASSUME Open(h, tag) PROVE word'[h[tag].entries[1].addr] = tag
          OBVIOUS
        <5>1. CASE i = 1
          BY <3>1, <3>6, <4>2, <4>3, <5>1
        <5>2. CASE i # 1
          <6>1. 1 \in DOMAIN h[tag].entries /\ 1 < i
            BY <4>3, <5>2, PlanForm
          <6>2. word[h[tag].entries[1].addr] = tag /\ h[tag].entries[1].addr \in Addr
            BY <4>3, <6>1, PlanForm
          <6>3. Open(g, tag)
            BY <4>5 DEF Open
          <6>. QED  BY <4>3, <6>2, <6>3, TagStays
        <5>. QED  BY <5>1, <5>2
      <4>. QED  BY <1>1, <3>1, <3>3, <3>6, <4>2, <4>3, <4>4, <4>5, <4>6, Kinds
    <3>. QED  BY <3>2, <3>5, <3>6 DEF Completes
  <2>3. CASE /\ Release(t) /\ frames[t] # <<>>
             /\ Top(t).i \in DOMAIN Top(t).entries
             /\ word[Top(t).entries[Top(t).i].addr] = Top(t).tag
             /\ word' = [word EXCEPT ![Top(t).entries[Top(t).i].addr] =
                           Plain(IF Top(t).newstate = "SUCCEEDED" THEN Top(t).entries[Top(t).i].new
                                 ELSE Top(t).entries[Top(t).i].old)]
    <3>1. PICK tag, s, i : tag = Top(t).tag /\ s = Top(t).entries /\ i = Top(t).i
      OBVIOUS
    <3>2. /\ a = s[i].addr /\ word[a] = tag /\ i \in DOMAIN s
          /\ word'[a] = Plain(IF Top(t).newstate = "SUCCEEDED" THEN s[i].new ELSE s[i].old)
      BY <1>3, <2>0, <2>3, <3>1
    <3>3. /\ Top(t) = frames[t][1] /\ 1 \in DOMAIN frames[t] /\ tag \in KcasTags /\ s \in Plan
          /\ pc[t] = "release" /\ UNCHANGED value
      BY <2>3, <3>1, TopForm, ReleaseFacts DEF Moves
    <3>4. Fits(h, Top(t), "release")
      BY <3>3 DEF Moves, Agrees, Frames, FrameOK
    <3>5. s = h[tag].entries /\ Top(t).newstate = h[tag].outcome
      BY <3>1, <3>4 DEF Fits
    <3>6. PICK j \in DOMAIN s : s[j].addr = a /\ value[a] = Holds(h, tag, j)
      BY <3>2, <3>3, <3>5, Kinds DEF Moves, Agrees, Words
    <3>7. i = j
      BY <3>2, <3>3, <3>6, PlanForm
    <3>8. word'[a] = Plain(value[a])
      BY <3>2, <3>5, <3>6, <3>7 DEF Holds
    <3>. QED  BY <3>3, <3>8, WordForm, Kinds
  <2>. QED  BY <1>3, <2>1, <2>2, <2>3, WordSteps DEF Moves, Agrees
<1>. QED  BY <1>2, <1>3

-----------------------------------------------------------------------------
(* An RDCSS that is no longer in its word has done its work, unless the    *)
(* operation is decided.                                                   *)
LEMMA ReplacedStep ==
  ASSUME Usage, NEW t \in Thread, NEW h, NEW g, Moves(t, h, g)
  PROVE  Replaced(g)'
<1>. SUFFICES ASSUME NEW u \in Thread, AtEntry(u)', ~Unplaced(u)'
              PROVE  LET d == rdcssDesc'[u]
                     IN  word'[d.addr2] = OwnRdcss(u)' \/ (Open(g, d.old1) => word'[d.addr2] = d.old1)
  BY DEF Replaced, Open
<1>1. CASE u = t /\ Placing(t)
  <2>1. rdcssDesc'[t] = rdcssDesc[t] /\ OwnRdcss(t)' = OwnRdcss(t) /\ rdcssDesc[t].addr2 \in Addr
        /\ word' = [word EXCEPT ![rdcssDesc[t].addr2] = OwnRdcss(t)]
    BY <1>1 DEF Placing, OwnRdcss, RdcssSet
  <2>2. word'[rdcssDesc[t].addr2] = OwnRdcss(t)
    BY <2>1 DEF Moves, TypeOK
  <2>. QED  BY <1>1, <2>1, <2>2
<1>2. CASE ~(u = t /\ Placing(t))
  <2>1. AtEntry(u) /\ ~Unplaced(u) /\ rdcssDesc'[u] = rdcssDesc[u]
    <3>1. CASE u # t
      <4>1. pc'[u] = pc[u] /\ frames'[u] = frames[u] /\ met'[u] = met[u] /\ rdcssDesc'[u] = rdcssDesc[u]
        BY <3>1, AloneStep DEF Moves, Alone
      <4>. QED  BY <4>1 DEF AtEntry, Unplaced, OwnRdcss
    <3>2. CASE u = t
      <4>1. pc'[t] # "rdcss.cas" /\ met'[t] = OwnRdcss(t)' /\ pc'[t] \in HelpingRdcss
        BY <3>2 DEF AtEntry, Unplaced
      <4>2. ~Elsewhere(t) /\ ~Renewed(t) /\ ~Retrying(t)
        BY <4>1 DEF Elsewhere, Renewed, Retrying
      <4>3. CASE Copying(t) \/ Checking(t) \/ Stating(t)
        BY <3>2, <4>1, <4>3 DEF Copying, Checking, Stating, AtEntry, Unplaced, OwnRdcss, HelpingRdcss
      <4>4. CASE Meeting(t)
        <5>1. frames[t] # <<>> /\ pc[t] = "rdcss.cas" /\ pc'[t] = "rdcss.copy" /\ OwnRdcss(t)' = OwnRdcss(t)
          BY <3>2, <4>1, <4>4 DEF Meeting, AtEntry, OwnRdcss, HelpingRdcss
        <5>2. PICK a \in Addr : met'[t] = word[a] /\ word[a] \in RdcssTags
          BY <4>4, <5>1 DEF Meeting
        <5>3. PICK v \in Thread : word[a] = OwnRdcss(v) /\ Placed(v, a)
          BY <5>2, PlacedTag DEF Moves, Agrees
        <5>4. v = t
          BY <4>1, <5>1, <5>2, <5>3 DEF OwnRdcss, RdcssTag
        <5>. QED  BY <5>1, <5>3, <5>4, PlacedForm DEF Moves
      <4>. QED  BY <1>2, <3>2, <4>2, <4>3, <4>4, RdcssSteps
    <3>. QED  BY <3>1, <3>2
  <2>2. EntryOfTag(h, u)
    BY <2>1, EntryFacts DEF Moves
  <2>3. PICK tag, a : tag = rdcssDesc[u].old1 /\ a = rdcssDesc[u].addr2
    OBVIOUS
  <2>4. tag \in KcasTags /\ Issued(tag) /\ a \in Addr /\ rdcssDesc[u].seq \in Nat \ {0}
    BY <2>2, <2>3 DEF EntryOfTag, RdcssSet
  <2>5. Open(g, tag) => Open(h, tag) /\ g[tag] = h[tag]
    BY <2>4, IssuedStays
  <2>6. word[a] = OwnRdcss(u) \/ (Open(h, tag) => word[a] = tag)
    BY <2>1, <2>3 DEF Moves, Agrees, Replaced
  <2>7. OwnRdcss(u)' = OwnRdcss(u) /\ OwnRdcss(u) \in RdcssTags
    BY <2>1, <2>4 DEF OwnRdcss, RdcssTags
  <2>8. ASSUME word[a] = OwnRdcss(u), word'[a] # word[a], Open(g, tag)
        PROVE  word'[a] = tag
    <3>0. word \in [Addr -> WordSet]
      BY DEF Moves, TypeOK
    <3>1. CASE /\ rdcssDesc[t] \in RdcssSet
               /\ word[rdcssDesc[t].addr2] = Plain(rdcssDesc[t].old2)
               /\ word' = [word EXCEPT ![rdcssDesc[t].addr2] = OwnRdcss(t)]
      <4>1. word[a] = Plain(rdcssDesc[t].old2)
        BY <2>8, <3>0, <3>1
      <4>. QED  BY <2>7, <2>8, <4>1, WordForm, Kinds
    <3>2. CASE /\ RdcssWrite(t) /\ rdcss[t] \in Writing /\ met[t] \in RdcssTags
               /\ word[rdcss[t].addr2] = met[t]
               /\ word' = [word EXCEPT ![rdcss[t].addr2] = rdcss[t].new]
      <4>1. word'[a] = rdcss[t].new /\ word[a] = met[t]
        BY <2>8, <3>0, <3>2
      <4>2. PICK v \in Thread : Completes(t, h, v)
        BY <3>2, CompleteFacts DEF Moves, RdcssWrite
      <4>3. v = u
        BY <2>8, <4>1, <4>2 DEF Completes, OwnRdcss, RdcssTag
      <4>. QED  BY <2>3, <2>5, <2>8, <4>1, <4>2, <4>3 DEF Completes
    <3>3. CASE /\ frames[t] # <<>>
               /\ word[Top(t).entries[Top(t).i].addr] = Top(t).tag
               /\ word' = [word EXCEPT ![Top(t).entries[Top(t).i].addr] =
                             Plain(IF Top(t).newstate = "SUCCEEDED" THEN Top(t).entries[Top(t).i].new
                                   ELSE Top(t).entries[Top(t).i].old)]
      <4>1. word[a] = Top(t).tag
        BY <2>8, <3>0, <3>3
      <4>2. Top(t).tag \in KcasTags
        BY <3>3, TopForm DEF Moves
      <4>. QED  BY <2>7, <2>8, <4>1, <4>2, Kinds
    <3>. QED  BY <2>8, <3>1, <3>2, <3>3, WordSteps DEF Moves, Agrees
  <2>9. ASSUME Open(g, tag), word[a] = tag
        PROVE  word'[a] = tag
    BY <2>4, <2>9, TagStays
  <2>. QED  BY <2>1, <2>3, <2>5, <2>6, <2>7, <2>8, <2>9
<1>. QED  BY <1>1, <1>2

(* A copy of an RDCSS in use is right, and writes what the history         *)
(* allows.                                                                 *)
LEMMA CopiesStep ==
  ASSUME Usage, NEW t \in Thread, NEW h, NEW g, Moves(t, h, g)
  PROVE  Copies(g)'
<1>. SUFFICES ASSUME NEW u \in Thread, pc'[u] \in HelpingRdcss, met'[u][3] = rdcssDesc'[met'[u][2]].seq
              PROVE  LET d == rdcssDesc'[met'[u][2]]
                         r == rdcss'[u]
                     IN  /\ pc'[u] \in {"rdcss.check", "rdcss.state"} => r = d
                         /\ pc'[u] = "rdcss.write" =>
                              /\ r.addr2 = d.addr2
                              /\ \/ /\ r.new = d.old1
                                    /\ word'[d.addr2] = met'[u] => g[d.old1].outcome # "SUCCEEDED"
                                 \/ r.new = Plain(d.old2) /\ ~Open(g, d.old1)
  BY DEF Copies, Open
<1>1. met'[u] \in RdcssTags /\ met'[u][2] \in Thread /\ met'[u][3] \in Nat \ {0}
  BY WordForm DEF Moves, Stages, StageOK
<1>2. PICK v \in Thread : v = met'[u][2]
  BY <1>1
<1>3. rdcssDesc'[v].seq > 0 /\ rdcssDesc'[v].seq \in Nat
  BY <1>1, <1>2
(* Whoever has met a tag before t places an RDCSS has met another one.     *)
<1>4. ASSUME Renewed(t), v = t, met'[u] = met[u]
      PROVE  FALSE
  <2>1. rdcssDesc'[v].seq = rdcssDesc[v].seq + 1 /\ rdcssDesc[v].seq \in Nat
    <3>1. rdcssDesc[v].seq \in Nat
      BY SeqForm DEF Moves
    <3>. QED  BY <1>4, <3>1 DEF Renewed, Moves, TypeOK
  <2>2. met[u][3] <= rdcssDesc[v].seq
    BY <1>1, <1>2, <1>4 DEF Moves, Agrees, MetRdcss
  <2>. QED  BY <1>2, <1>4, <2>1, <2>2
<1>5. ASSUME met'[u] = met[u]
      PROVE  rdcssDesc'[v] = rdcssDesc[v] /\ OwnRdcss(v)' = OwnRdcss(v) /\ met[u] = OwnRdcss(v)
  <2>1. rdcssDesc'[v] = rdcssDesc[v] /\ OwnRdcss(v)' = OwnRdcss(v)
    BY <1>4, <1>5, RdcssSeq
  <2>2. met[u] = RdcssTag(met[u][2], met[u][3])
    BY <1>1, <1>5, WordForm
  <2>. QED  BY <1>2, <1>5, <2>1, <2>2 DEF OwnRdcss
<1>6. ASSUME met'[u] = met[u], rdcssDesc'[v] = rdcssDesc[v]
      PROVE  /\ rdcssDesc[v] \in RdcssSet /\ rdcssDesc[v].old1 \in KcasTags /\ Issued(rdcssDesc[v].old1)
             /\ rdcssDesc[v].addr2 \in Addr
  BY <1>3, <1>6, RdcssForm DEF Moves, Agrees, OfEntry
<1>7. CASE u # t
  <2>1. pc'[u] = pc[u] /\ met'[u] = met[u] /\ rdcss'[u] = rdcss[u]
    BY <1>7, AloneStep DEF Moves, Alone
  <2>2. PICK d : d = rdcssDesc[v]
    OBVIOUS
  <2>3. /\ rdcssDesc'[v] = d /\ rdcssDesc[v] = d /\ met[u] = OwnRdcss(v)
        /\ d.old1 \in KcasTags /\ Issued(d.old1) /\ d.addr2 \in Addr
    BY <1>5, <1>6, <2>1, <2>2
  <2>4. /\ pc[u] \in {"rdcss.check", "rdcss.state"} => rdcss[u] = d
        /\ pc[u] = "rdcss.write" =>
             /\ rdcss[u].addr2 = d.addr2
             /\ \/ /\ rdcss[u].new = d.old1
                   /\ word[d.addr2] = met[u] => h[d.old1].outcome # "SUCCEEDED"
                \/ rdcss[u].new = Plain(d.old2) /\ ~Open(h, d.old1)
    BY <1>2, <2>1, <2>3 DEF Moves, Agrees, Copies
  <2>5. ~Open(h, d.old1) => ~Open(g, d.old1)
    BY <2>3, IssuedStays
  <2>6. ASSUME word'[d.addr2] = met[u], word[d.addr2] # met[u]
        PROVE  FALSE
    <3>0. word \in [Addr -> WordSet] /\ met[u] \in RdcssTags
      BY <1>1, <2>1 DEF Moves, TypeOK
    <3>1. CASE /\ RdcssCas(t)
               /\ word' = [word EXCEPT ![rdcssDesc[t].addr2] = OwnRdcss(t)]
      <4>1. met[u] = OwnRdcss(t)
        BY <2>3, <2>6, <3>0, <3>1
      <4>2. Unplaced(t)
        BY <3>1 DEF RdcssCas, Unplaced, AtEntry
      <4>. QED  BY <4>1, <4>2 DEF Moves, Agrees, MetRdcss
    <3>2. CASE /\ rdcss[t] \in Writing
               /\ word' = [word EXCEPT ![rdcss[t].addr2] = rdcss[t].new]
      <4>1. met[u] = rdcss[t].new
        BY <2>3, <2>6, <3>0, <3>2
      <4>2. rdcss[t].new \in {Plain(x) : x \in Value} \cup KcasTags
        BY <3>2 DEF Writing
      <4>. QED  BY <3>0, <4>1, <4>2, WordForm, Kinds
    <3>3. CASE word' = [word EXCEPT ![Top(t).entries[Top(t).i].addr] =
                          Plain(IF Top(t).newstate = "SUCCEEDED" THEN Top(t).entries[Top(t).i].new
                                ELSE Top(t).entries[Top(t).i].old)]
      <4>1. PICK b, x : word' = [word EXCEPT ![b] = Plain(x)]
        BY <3>3
      <4>2. met[u] = Plain(x)
        BY <2>3, <2>6, <3>0, <4>1
      <4>. QED  BY <3>0, <4>2, WordForm, Kinds
    <3>. QED  BY <2>6, <3>1, <3>2, <3>3, WordSteps DEF Moves, Agrees
  <2>7. ASSUME word[d.addr2] = met[u], h[d.old1].outcome # "SUCCEEDED"
        PROVE  g[d.old1].outcome # "SUCCEEDED"
    <3>1. CASE g[d.old1] = h[d.old1]
      BY <2>7, <3>1
    <3>2. CASE Decide(t) /\ Undecided(Top(t).tag) /\ d.old1 = Top(t).tag
      <4>1. PICK tag : tag = d.old1
        OBVIOUS
      <4>2. Deciding(t, h, g, tag)
        BY <3>2, <4>1, DecideHistory
      <4>3. PICK w \in Thread : met[u] = OwnRdcss(w) /\ Placed(w, d.addr2)
        BY <1>1, <2>1, <2>3, <2>7, PlacedTag DEF Moves, Agrees
      <4>4. w = v
        BY <2>3, <4>3 DEF OwnRdcss, RdcssTag
      <4>5. EntryOfTag(h, v)
        BY <4>3, <4>4, EntryFacts, PlacedForm DEF Moves
      <4>6. \E j \in DOMAIN h[tag].entries : h[tag].entries[j].addr = d.addr2
        BY <2>3, <4>1, <4>5 DEF EntryOfTag
      <4>7. word[d.addr2] # tag
        BY <1>1, <2>1, <2>3, <2>7, <4>1, Kinds
      <4>8. Top(t).newstate # "SUCCEEDED"
        BY <4>2, <4>6, <4>7 DEF Deciding
      <4>9. g[tag].outcome = Top(t).newstate
        BY <4>2 DEF Deciding
      <4>. QED  BY <4>1, <4>8, <4>9
    <3>. QED  BY <2>3, <3>1, <3>2, OutcomeSteps
  <2>. QED  BY <1>2, <2>1, <2>3, <2>4, <2>5, <2>6, <2>7
<1>8. CASE u = t
  <2>1. CASE Elsewhere(t) \/ Renewed(t) \/ Meeting(t) \/ Retrying(t)
    <3>1. pc'[t] \notin {"rdcss.check", "rdcss.state", "rdcss.write"}
      BY <1>8, <2>1 DEF Elsewhere, Renewed, Meeting, Retrying, HelpingRdcss
    <3>. QED  BY <1>8, <3>1
  <2>2. CASE Placing(t)
    <3>1. met'[t] = OwnRdcss(t) /\ rdcss'[t] = rdcssDesc[t] /\ rdcssDesc' = rdcssDesc /\ pc'[t] = "rdcss.state"
      BY <2>2 DEF Placing
    <3>2. met'[t][2] = t
      BY <3>1, WordForm DEF OwnRdcss
    <3>. QED  BY <1>8, <3>1, <3>2
  <2>3. CASE Copying(t)
    <3>1. /\ rdcss'[t] = [rdcssDesc[met[t][2]] EXCEPT !.seq = met[t][3]] /\ met'[t] = met[t]
          /\ rdcssDesc' = rdcssDesc /\ pc'[t] = "rdcss.check"
      BY <2>3 DEF Copying
    <3>2. rdcssDesc[v] \in RdcssSet /\ v = met[t][2] /\ met[t][3] = rdcssDesc[v].seq
      BY <1>2, <1>6, <1>8, <3>1
    <3>3. [rdcssDesc[v] EXCEPT !.seq = rdcssDesc[v].seq] = rdcssDesc[v]
      BY <3>2 DEF RdcssSet
    <3>. QED  BY <1>8, <3>1, <3>2, <3>3
  <2>4. CASE Checking(t)
    <3>1. /\ rdcss'[t] = rdcss[t] /\ met'[t] = met[t] /\ rdcssDesc' = rdcssDesc /\ pc'[t] = "rdcss.state"
          /\ pc[t] = "rdcss.check"
      BY <2>4 DEF Checking
    <3>2. rdcss[t] = rdcssDesc[met[t][2]]
      BY <1>8, <3>1 DEF Moves, Agrees, Copies, HelpingRdcss
    <3>. QED  BY <1>8, <3>1, <3>2
  <2>5. CASE Stating(t)
    <3>1. /\ met'[t] = met[t] /\ rdcssDesc' = rdcssDesc /\ pc'[t] = "rdcss.write" /\ pc[t] = "rdcss.state"
          /\ rdcss'[t] = [addr2 |-> rdcss[t].addr2,
                          new |-> IF Undecided(rdcss[t].old1) THEN rdcss[t].old1 ELSE Plain(rdcss[t].old2)]
          /\ UNCHANGED kcasDesc
      BY <2>5 DEF Stating
    <3>2. rdcss[t] = rdcssDesc[v]
      BY <1>2, <1>8, <3>1 DEF Moves, Agrees, Copies, HelpingRdcss
    <3>3. PICK d : d = rdcssDesc[v]
      OBVIOUS
    <3>4. /\ rdcss'[t].addr2 = d.addr2
          /\ rdcss'[t].new = IF Undecided(d.old1) THEN d.old1 ELSE Plain(d.old2)
      BY <3>1, <3>2, <3>3
    <3>5. d.old1 \in KcasTags /\ Issued(d.old1)
      BY <1>6, <1>8, <3>1, <3>3
    <3>6. (Open(h, d.old1) <=> Undecided(d.old1)) /\ g = h
      <4>1. Open(h, d.old1) <=> Undecided(d.old1)
        BY <3>5, CurrentHistory DEF Moves, Agrees
      <4>2. g = h
        BY <3>1, GoingOn
      <4>. QED  BY <4>1, <4>2
    <3>7. \/ rdcss'[t].new = d.old1 /\ g[d.old1].outcome # "SUCCEEDED"
          \/ rdcss'[t].new = Plain(d.old2) /\ ~Open(g, d.old1)
      BY <3>4, <3>6 DEF Open
    <3>. QED  BY <1>2, <1>8, <3>1, <3>3, <3>4, <3>7
  <2>. QED  BY <2>1, <2>2, <2>3, <2>4, <2>5, RdcssSteps
<1>. QED  BY <1>7, <1>8

-----------------------------------------------------------------------------
(* The stages in which the current invocation is not merely at an entry.   *)
Special == {"kcas.check", "decide", "phase2", "release"}

(* What an invocation of help has found stays so.                          *)
LEMMA FitsStays ==
  ASSUME Usage, NEW t \in Thread, NEW h, NEW g, Moves(t, h, g),
         NEW f \in Frame, NEW s, NEW s2, s = s2 \/ (s \notin Special /\ s2 \notin Special), Fits(h, f, s)
  PROVE  Fits(g, f, s2)'
<1>1. f.tag \in KcasTags /\ f.entries \in Plan /\ f.i \in Nat
  BY DEF Frame
<1>2. Issued(f.tag)
  BY DEF Fits
<1>3. /\ Issued(f.tag)' /\ g[f.tag].entries = h[f.tag].entries
      /\ Open(g, f.tag) => Open(h, f.tag)
      /\ g[f.tag] = h[f.tag] \/ Open(h, f.tag)
      /\ Current(f.tag)' => Current(f.tag)
  <2>1. PICK tag : tag = f.tag
    OBVIOUS
  <2>2. /\ Issued(tag)' /\ g[tag].entries = h[tag].entries
        /\ Open(g, tag) => Open(h, tag)
        /\ g[tag] = h[tag] \/ Open(h, tag)
        /\ Current(tag)' => Current(tag)
    BY <1>1, <1>2, <2>1, IssuedStays, GoingOn DEF Kept
  <2>. QED  BY <2>1, <2>2 DEF Issued, Current
<1>4. ASSUME ~(s2 = "kcas.check" /\ ~Current(f.tag)')
      PROVE  /\ f.entries = g[f.tag].entries
             /\ Open(g, f.tag) /\ f.newstate # "FAILED" =>
                  \A j \in DOMAIN f.entries : j < f.i => word'[f.entries[j].addr] = f.tag
  <2>1. ~(s = "kcas.check" /\ ~Current(f.tag))
    BY <1>3, <1>4 DEF Special
  <2>2. /\ f.entries = h[f.tag].entries
        /\ Open(h, f.tag) /\ f.newstate # "FAILED" =>
             \A j \in DOMAIN f.entries : j < f.i => word[f.entries[j].addr] = f.tag
    BY <2>1 DEF Fits
  <2>3. ASSUME Open(g, f.tag), f.newstate # "FAILED", NEW j \in DOMAIN f.entries, j < f.i
        PROVE  word'[f.entries[j].addr] = f.tag
    <3>1. word[f.entries[j].addr] = f.tag /\ f.entries[j].addr \in Addr
      BY <1>1, <1>3, <2>2, <2>3, PlanForm
    <3>2. PICK a : a = f.entries[j].addr
      OBVIOUS
    <3>3. word'[a] = word[a]
      BY <1>1, <2>3, <3>1, <3>2, TagStays
    <3>. QED  BY <3>1, <3>2, <3>3
  <2>. QED  BY <1>3, <2>2, <2>3
<1>5. f.tag[2] \in missed /\ Open(g, f.tag) => f.tag[2] \in missed'
  <2>1. PICK tag : tag = f.tag
    OBVIOUS
  <2>. QED  BY <1>1, <1>2, <2>1, MissedStays
<1>6. /\ s \notin {"decide", "phase2", "release"} => f.newstate = "SUCCEEDED"
      /\ s = "decide" =>
           /\ f.newstate \in {"SUCCEEDED", "FAILED"}
           /\ f.newstate = "SUCCEEDED" => f.i > Len(f.entries)
           /\ f.newstate = "FAILED" /\ Open(h, f.tag) => f.tag[2] \in missed
      /\ s \in {"phase2", "release"} => ~Open(h, f.tag)
      /\ s = "release" => f.newstate = h[f.tag].outcome
  BY DEF Fits
<1>7. /\ s2 \notin {"decide", "phase2", "release"} => f.newstate = "SUCCEEDED"
      /\ s2 = "decide" =>
           /\ f.newstate \in {"SUCCEEDED", "FAILED"}
           /\ f.newstate = "SUCCEEDED" => f.i > Len(f.entries)
           /\ f.newstate = "FAILED" /\ Open(g, f.tag) => f.tag[2] \in missed'
      /\ s2 \in {"phase2", "release"} => ~Open(g, f.tag)
      /\ s2 = "release" => f.newstate = g[f.tag].outcome
  BY <1>3, <1>5, <1>6 DEF Special
<1>. QED  BY <1>3, <1>4, <1>7 DEF Fits, Issued, Current, Open

(* The stack of t, when only its first invocation has changed...           *)
LEMMA TopStep ==
  ASSUME Usage, NEW t \in Thread, NEW h, NEW g, Moves(t, h, g), frames[t] # <<>>,
         NEW f \in Frame, frames'[t] = [frames[t] EXCEPT ![1] = f], NEW s, s = pc'[t], Fits(g, f, s)'
  PROVE  \A k \in DOMAIN frames'[t] : FrameOK(g, t, k)'
<1>1. frames[t] \in Seq(Frame)
  BY DEF Moves, TypeOK
<1>2. /\ frames'[t][1] = f /\ DOMAIN frames'[t] = DOMAIN frames[t]
      /\ \A k \in DOMAIN frames[t] : k # 1 => frames'[t][k] = frames[t][k]
  BY <1>1, Change
<1>3. FrameOK(g, t, 1)'
  BY <1>2 DEF FrameOK, Fits, Issued, Current, Open
<1>4. ASSUME NEW k \in DOMAIN frames[t], k # 1
      PROVE  FrameOK(g, t, k)'
  <2>1. PICK x : x = frames[t][k]
    OBVIOUS
  <2>2. x \in Frame /\ frames'[t][k] = x
    BY <1>1, <1>2, <1>4, <2>1
  <2>3. Fits(h, x, "entry")
    BY <1>4, <2>1 DEF Moves, Agrees, Frames, FrameOK
  <2>4. Fits(g, x, "entry")'
    BY <2>2, <2>3, FitsStays
  <2>. QED  BY <1>4, <2>2, <2>4 DEF FrameOK, Fits, Issued, Current, Open
<1>. QED  BY <1>2, <1>3, <1>4

(* ...or its stage...                                                      *)
LEMMA StageStep ==
  ASSUME Usage, NEW t \in Thread, NEW h, NEW g, Moves(t, h, g), frames[t] # <<>>,
         NEW f \in Frame, frames'[t] = [frames[t] EXCEPT ![1] = f], NEW s, s = pc'[t], Fits(h, f, s)
  PROVE  \A k \in DOMAIN frames'[t] : FrameOK(g, t, k)'
BY FitsStays, TopStep

(* ...or nothing...                                                        *)
LEMMA SameStep ==
  ASSUME Usage, NEW t \in Thread, NEW h, NEW g, Moves(t, h, g), NEW u \in Thread, frames'[u] = frames[u],
         pc'[u] = pc[u] \/ (pc[u] \notin Special /\ pc'[u] \notin Special)
  PROVE  \A k \in DOMAIN frames'[u] : FrameOK(g, u, k)'
<1>. SUFFICES ASSUME NEW k \in DOMAIN frames[u] PROVE FrameOK(g, u, k)'
  OBVIOUS
<1>1. PICK x, s, s2 : /\ x = frames[u][k] /\ s = (IF k = 1 THEN pc[u] ELSE "entry")
                      /\ s2 = (IF k = 1 THEN pc'[u] ELSE "entry")
  OBVIOUS
<1>2. frames[u] \in Seq(Frame)
  BY DEF Moves, TypeOK
<1>3. x \in Frame /\ frames'[u][k] = x
  BY <1>1, <1>2
<1>4. Fits(h, x, s)
  BY <1>1 DEF Moves, Agrees, Frames, FrameOK
<1>5. Fits(g, x, s2)'
  BY <1>1, <1>3, <1>4, FitsStays
<1>. QED  BY <1>1, <1>3, <1>5 DEF FrameOK, Fits, Issued, Current, Open

(* ...or it has returned.                                                  *)
LEMMA PopStep ==
  ASSUME Usage, NEW t \in Thread, NEW h, NEW g, Moves(t, h, g), frames[t] # <<>>, frames'[t] = Tail(frames[t]),
         pc'[t] \notin Special
  PROVE  \A k \in DOMAIN frames'[t] : FrameOK(g, t, k)'
<1>. SUFFICES ASSUME NEW k \in DOMAIN Tail(frames[t]) PROVE FrameOK(g, t, k)'
  OBVIOUS
<1>1. frames[t] \in Seq(Frame)
  BY DEF Moves, TypeOK
<1>2. k + 1 \in DOMAIN frames[t] /\ Tail(frames[t])[k] = frames[t][k + 1] /\ k + 1 # 1 /\ Tail(frames[t]) \in Seq(Frame)
  BY <1>1, Pop
<1>3. PICK x, s2 : x = frames[t][k + 1] /\ s2 = (IF k = 1 THEN pc'[t] ELSE "entry")
  OBVIOUS
<1>4. x \in Frame /\ frames'[t][k] = x
  BY <1>1, <1>2, <1>3
<1>5. Fits(h, x, "entry")
  BY <1>2, <1>3 DEF Moves, Agrees, Frames, FrameOK
<1>6. Fits(g, x, s2)'
  BY <1>3, <1>4, <1>5, FitsStays DEF Special
<1>. QED  BY <1>3, <1>4, <1>6 DEF FrameOK, Fits, Issued, Current, Open

-----------------------------------------------------------------------------
(* The invocations of help know their operations, and what they have       *)
(* found in place stays there until these are decided.                     *)
LEMMA FramesStep ==
  ASSUME Usage, NEW t \in Thread, NEW h, NEW g, Moves(t, h, g)
  PROVE  Frames(g)'
<1>1. ASSUME NEW u \in Thread, u # t
      PROVE  \A k \in DOMAIN frames'[u] : FrameOK(g, u, k)'
  BY <1>1, AloneStep, SameStep DEF Moves, Alone
<1>. SUFFICES \A k \in DOMAIN frames'[t] : FrameOK(g, t, k)'
  BY <1>1 DEF Frames
<1>2. CASE frames'[t] = <<>>
  BY <1>2
<1>3. frames[t] \in Seq(Frame)
  BY DEF Moves, TypeOK
(* The invocation that t is in.                                            *)
<1>4. ASSUME frames[t] # <<>>
      PROVE  /\ Top(t) \in Frame /\ Top(t) = frames[t][1] /\ 1 \in DOMAIN frames[t]
             /\ [frames[t] EXCEPT ![1] = Top(t)] = frames[t]
             /\ Fits(h, Top(t), pc[t])
             /\ Top(t).tag \in KcasTags /\ Top(t).entries \in Plan /\ Top(t).i \in Nat \ {0}
  <2>1. /\ Top(t) \in Frame /\ Top(t) = frames[t][1] /\ 1 \in DOMAIN frames[t]
        /\ Top(t).tag \in KcasTags /\ Top(t).entries \in Plan /\ Top(t).i \in Nat \ {0}
    BY <1>4, TopForm DEF Moves
  <2>2. Fits(h, Top(t), pc[t])
    BY <2>1 DEF Moves, Agrees, Frames, FrameOK
  <2>3. [frames[t] EXCEPT ![1] = Top(t)] = frames[t]
    BY <1>3, <2>1
  <2>. QED  BY <2>1, <2>2, <2>3
<1>5. ASSUME NEW from, NEW succeeded, LeaveHelp(t, from, succeeded), frames[t] # <<>>
      PROVE  \A k \in DOMAIN frames'[t] : FrameOK(g, t, k)'
  <2>1. frames'[t] = <<>> \/ (frames'[t] = Tail(frames[t]) /\ pc'[t] \in {"read", "entry"})
    <3>1. \/ frames' = [frames EXCEPT ![t] = <<>>]
          \/ /\ pc' = [pc EXCEPT ![t] = IF Tail(frames[t]) = <<>> THEN "read" ELSE "entry"]
             /\ frames' = [frames EXCEPT ![t] = Tail(frames[t])]
      BY <1>5, LeaveFacts
    <3>2. t \in DOMAIN frames /\ t \in DOMAIN pc
      BY DEF Moves, TypeOK
    <3>3. PICK q : q = Tail(frames[t])
      OBVIOUS
    <3>4. \/ frames'[t] = <<>>
          \/ pc'[t] = (IF q = <<>> THEN "read" ELSE "entry") /\ frames'[t] = q
      BY <3>1, <3>2, <3>3
    <3>. QED  BY <3>3, <3>4
  <2>2. CASE frames'[t] = Tail(frames[t]) /\ pc'[t] \in {"read", "entry"}
    BY <1>5, <2>2, PopStep DEF Special
  <2>. QED  BY <1>2, <2>1, <2>2
<1>6. ASSUME NEW s, s = pc'[t], frames[t] # <<>>, frames'[t] = frames[t], Fits(h, Top(t), s)
      PROVE  \A k \in DOMAIN frames'[t] : FrameOK(g, t, k)'
  <2>1. PICK f : f = Top(t)
    OBVIOUS
  <2>2. f \in Frame /\ frames'[t] = [frames[t] EXCEPT ![1] = f] /\ Fits(h, f, s)
    BY <1>4, <1>6, <2>1
  <2>. QED  BY <1>6, <2>2, StageStep
<1>7. ASSUME NEW from, NextEntry(t, from), frames[t] # <<>>
      PROVE  \E f \in Frame : /\ f = [Top(t) EXCEPT !.i = @ + 1] /\ frames'[t] = [frames[t] EXCEPT ![1] = f]
                              /\ pc'[t] = "entry" /\ f.i = Top(t).i + 1 /\ f.tag = Top(t).tag
                              /\ f.entries = Top(t).entries /\ f.newstate = Top(t).newstate
  <2>1. PICK f : f = [Top(t) EXCEPT !.i = @ + 1]
    OBVIOUS
  <2>2. f \in Frame /\ frames' = [frames EXCEPT ![t] = [frames[t] EXCEPT ![1] = f]] /\ pc' = [pc EXCEPT ![t] = "entry"]
    BY <1>7, <2>1, NextFacts DEF Moves
  <2>3. f.i = Top(t).i + 1 /\ f.tag = Top(t).tag /\ f.entries = Top(t).entries /\ f.newstate = Top(t).newstate
    BY <1>4, <1>7, <2>1 DEF Frame
  <2>4. frames'[t] = [frames[t] EXCEPT ![1] = f] /\ pc'[t] = "entry"
    BY <2>2 DEF Moves, TypeOK
  <2>. QED  BY <2>1, <2>2, <2>3, <2>4
<1>8. ASSUME NEW c, Invoke(t, c)
      PROVE  \A k \in DOMAIN frames'[t] : FrameOK(g, t, k)'
  <2>1. CASE UNCHANGED frames
    BY <1>2, <1>8, <2>1, InvokeFacts DEF Moves
  <2>2. CASE c.op = "kcas"
    <3>1. PICK tag, f, s : /\ tag = KcasTag(t, kcasDesc[t].seq + 1) /\ s = pc'[t]
                           /\ f = [tag |-> tag, entries |-> InOrder(c.entries), i |-> 1, newstate |-> "SUCCEEDED"]
      OBVIOUS
    <3>2. frames'[t] = <<f>> /\ s = "help" /\ InOrder(c.entries) \in Plan
      BY <1>8, <2>2, <3>1, InvokeFacts DEF Moves
    <3>3. Calling(t, h, g, c, tag)
      BY <1>8, <2>2, <3>1, CallHistory
    <3>4. /\ tag \in KcasTags /\ Issued(tag)' /\ g[tag].entries = f.entries
          /\ f.tag = tag /\ f.i = 1 /\ f.newstate = "SUCCEEDED" /\ f.entries \in Plan
      BY <3>1, <3>2, <3>3 DEF Calling
    <3>5. \A j \in DOMAIN f.entries : ~(j < f.i)
      BY <3>4, PlanForm
    <3>6. Fits(g, f, s)'
      BY <3>2, <3>4, <3>5 DEF Fits, Issued
    <3>7. FrameOK(g, t, 1)'
      BY <3>1, <3>2, <3>6 DEF FrameOK, Fits, Issued, Current, Open
    <3>. QED  BY <3>2, <3>7
  <2>. QED  BY <1>8, <2>1, <2>2, InvokeFacts DEF Moves
<1>9. CASE ReadWord(t)
  <2>1. frames[t] = <<>> /\ UNCHANGED frames
    BY <1>9, MeetFacts DEF ReadWord, Moves, Stages, StageOK
  <2>. QED  BY <1>2, <2>1
<1>10. CASE CopyRdcss(t) \/ CheckRdcss(t) \/ NewRdcss(t) \/ RdcssState(t)
  <2>1. frames'[t] = frames[t] /\ pc[t] \notin Special /\ pc'[t] \notin Special
    BY <1>10 DEF CopyRdcss, CheckRdcss, NewRdcss, RdcssState, GoTo, Special, Moves, TypeOK
  <2>. QED  BY <2>1, SameStep
<1>11. CASE CopyKcas(t)
  <2>1. PICK f, s : /\ f = [tag |-> met[t], entries |-> kcasDesc[met[t][2]].entries, i |-> 2, newstate |-> "SUCCEEDED"]
                    /\ s = "kcas.check"
    OBVIOUS
  <2>2. /\ pc[t] = "kcas.copy" /\ pc'[t] = s /\ frames'[t] = <<f>> \o frames[t] /\ UNCHANGED <<word, kcasDesc, missed>>
    BY <1>11, <2>1 DEF CopyKcas, GoTo, history, Moves, TypeOK
  <2>3. met[t] \in KcasTags /\ Issued(met[t])
        /\ (Open(h, met[t]) => h[met[t]].entries # <<>> /\ word[h[met[t]].entries[1].addr] = met[t])
    BY <2>2 DEF Moves, Agrees, Met, Stages, StageOK
  <2>4. f \in Frame /\ f.tag = met[t] /\ f.entries = kcasDesc[met[t][2]].entries /\ f.i = 2 /\ f.newstate = "SUCCEEDED"
    BY <2>1, <2>3, WordForm DEF Frame, Outcome, Moves, TypeOK
  <2>5. Current(f.tag) => f.entries = h[f.tag].entries
    <3>1. PICK tag : tag = met[t]
      OBVIOUS
    <3>2. TypeOK /\ Descriptors(h) /\ tag \in KcasTags
      BY <2>3, <3>1 DEF Moves, Agrees
    <3>3. Current(tag) => h[tag] = [entries |-> kcasDesc[tag[2]].entries, outcome |-> kcasDesc[tag[2]].state]
      BY <3>2, CurrentHistory
    <3>4. f.tag = tag /\ f.entries = kcasDesc[tag[2]].entries
      BY <2>4, <3>1
    <3>. QED  BY <3>3, <3>4
  <2>6. \A j \in DOMAIN f.entries : j < f.i => j = 1
    BY <2>4, PlanForm DEF Frame
  <2>7. Fits(h, f, s)
    BY <2>1, <2>3, <2>4, <2>5, <2>6 DEF Fits
  <2>8. Fits(g, f, s)'
    BY <2>4, <2>7, FitsStays
  <2>9. /\ frames'[t][1] = f
        /\ \A k \in DOMAIN frames'[t] : k # 1 => k - 1 \in DOMAIN frames[t] /\ frames'[t][k] = frames[t][k - 1]
    BY <1>3, <2>2, <2>4, Push
  <2>10. FrameOK(g, t, 1)'
    BY <2>2, <2>8, <2>9 DEF FrameOK, Fits, Issued, Current, Open
  <2>11. ASSUME NEW k \in DOMAIN frames'[t], k # 1
         PROVE  FrameOK(g, t, k)'
    <3>1. PICK x, s2 : x = frames[t][k - 1] /\ s2 = (IF k - 1 = 1 THEN pc[t] ELSE "entry")
      OBVIOUS
    <3>2. k - 1 \in DOMAIN frames[t] /\ frames'[t][k] = x /\ x \in Frame
      BY <1>3, <2>9, <2>11, <3>1
    <3>3. Fits(h, x, s2)
      BY <3>1, <3>2 DEF Moves, Agrees, Frames, FrameOK
    <3>4. Fits(g, x, "entry")'
      BY <2>2, <3>1, <3>2, <3>3, FitsStays DEF Special
    <3>. QED  BY <2>11, <3>2, <3>4 DEF FrameOK, Fits, Issued, Current, Open
  <2>. QED  BY <2>10, <2>11
<1>12. CASE CheckKcas(t)
  <2>1. pc[t] = "kcas.check" /\ frames[t] # <<>>
    BY <1>12, Invoked DEF CheckKcas, Moves
  <2>2. CASE Current(Top(t).tag)
    <3>1. pc'[t] = "help" /\ frames'[t] = frames[t]
      BY <1>12, <2>2 DEF CheckKcas, GoTo, Moves, TypeOK
    <3>2. Fits(h, Top(t), "help")
      BY <1>4, <2>1, <2>2 DEF Fits
    <3>. QED  BY <1>6, <2>1, <3>1, <3>2
  <2>3. CASE ~Current(Top(t).tag)
    <3>1. pc'[t] \in {"read", "entry"} /\ frames'[t] = Tail(frames[t])
      BY <1>12, <2>3 DEF CheckKcas, GoTo, Resume, Moves, TypeOK
    <3>. QED  BY <2>1, <3>1, PopStep DEF Special
  <2>. QED  BY <2>2, <2>3
<1>13. CASE HelpState(t)
  <2>1. pc[t] = "help" /\ frames[t] # <<>>
    BY <1>13, Invoked DEF HelpState, Moves, Helping
  <2>2. CASE ~Current(Top(t).tag)
    BY <1>5, <1>13, <2>1, <2>2 DEF HelpState
  <2>3. CASE Current(Top(t).tag)
    <3>1. pc'[t] = (IF Undecided(Top(t).tag) THEN "entry" ELSE "phase2") /\ frames'[t] = frames[t]
      BY <1>13, <2>3 DEF HelpState, GoTo, Moves, TypeOK
    <3>2. Issued(Top(t).tag)
      BY <1>4, <2>1 DEF Fits
    <3>3. Open(h, Top(t).tag) <=> Undecided(Top(t).tag)
      BY <1>4, <2>1, <3>2, CurrentHistory DEF Moves, Agrees
    <3>4. CASE Undecided(Top(t).tag)
      <4>1. Fits(h, Top(t), "entry")
        BY <1>4, <2>1 DEF Fits
      <4>. QED  BY <1>6, <2>1, <3>1, <3>4, <4>1
    <3>5. CASE ~Undecided(Top(t).tag)
      <4>1. Fits(h, Top(t), "phase2")
        BY <1>4, <2>1, <3>3, <3>5 DEF Fits
      <4>. QED  BY <1>6, <2>1, <3>1, <3>5, <4>1
    <3>. QED  BY <3>4, <3>5
  <2>. QED  BY <2>2, <2>3
<1>14. CASE AllEntries(t)
  <2>1. pc[t] = "entry" /\ pc'[t] = "decide" /\ frames'[t] = frames[t] /\ frames[t] # <<>> /\ Top(t).i > Len(Top(t).entries)
    BY <1>14, Invoked DEF AllEntries, GoTo, Moves, TypeOK, Helping
  <2>2. Fits(h, Top(t), "decide")
    BY <1>4, <2>1 DEF Fits
  <2>. QED  BY <1>6, <2>1, <2>2
<1>15. CASE Decide(t)
  <2>1. PICK f, tag, s : f = Top(t) /\ tag = f.tag /\ s = "phase2"
    OBVIOUS
  <2>2. frames[t] # <<>> /\ pc[t] = "decide" /\ pc'[t] = s /\ frames'[t] = frames[t]
    BY <1>15, <2>1, DecideFacts DEF Moves, TypeOK
  <2>3. f \in Frame /\ frames'[t] = [frames[t] EXCEPT ![1] = f] /\ tag \in KcasTags /\ Fits(h, f, "decide")
    BY <1>4, <2>1, <2>2
  <2>4. Fits(g, f, "decide")'
    BY <2>3, FitsStays
  <2>5. Issued(tag)
    BY <2>1, <2>3 DEF Fits
  <2>6. ~Open(g, tag)
    <3>1. CASE Undecided(tag)
      <4>1. Deciding(t, h, g, tag)
        BY <1>15, <2>1, <3>1, DecideHistory
      <4>. QED  BY <4>1 DEF Deciding, Open
    <3>2. CASE ~Undecided(tag)
      <4>1. ~Open(h, tag)
        BY <2>3, <2>5, <3>2, CurrentHistory DEF Moves, Agrees
      <4>2. UNCHANGED kcasDesc
        BY <1>15, <2>1, <3>2, DecideFacts DEF Moves
      <4>. QED  BY <4>1, <4>2, GoingOn
    <3>. QED  BY <3>1, <3>2
  <2>7. Fits(g, f, s)'
    BY <2>1, <2>4, <2>6 DEF Fits, Open, Issued, Current
  <2>. QED  BY <2>2, <2>3, <2>7, TopStep
<1>16. CASE ReadOutcome(t)
  <2>1. pc[t] = "phase2" /\ frames[t] # <<>>
    BY <1>16, Invoked DEF ReadOutcome, Moves, Helping
  <2>2. CASE ~Current(Top(t).tag)
    BY <1>5, <1>16, <2>1, <2>2 DEF ReadOutcome
  <2>3. CASE Current(Top(t).tag)
    <3>1. PICK f \in Frame : /\ f.tag = Top(t).tag /\ f.entries = Top(t).entries
                             /\ f.newstate = kcasDesc[Top(t).tag[2]].state
                             /\ frames'[t] = [frames[t] EXCEPT ![1] = f]
      BY <1>16, <2>3, OutcomeFacts DEF Moves
    <3>2. PICK s : s = "release"
      OBVIOUS
    <3>3. pc'[t] = s
      BY <1>16, <2>3, <3>2, OutcomeFacts DEF Moves
    <3>4. h[Top(t).tag].outcome = f.newstate
      <4>1. h[Top(t).tag] = [entries |-> kcasDesc[Top(t).tag[2]].entries, outcome |-> kcasDesc[Top(t).tag[2]].state]
        BY <1>4, <2>1, <2>3, CurrentHistory DEF Moves, Agrees
      <4>. QED  BY <3>1, <4>1
    <3>5. Fits(h, f, s)
      BY <1>4, <2>1, <3>1, <3>2, <3>4 DEF Fits
    <3>. QED  BY <2>1, <3>1, <3>3, <3>5, StageStep
  <2>. QED  BY <2>2, <2>3
<1>17. CASE Release(t)
  <2>1. PICK f \in Frame : /\ f.tag = Top(t).tag /\ f.entries = Top(t).entries /\ f.newstate = Top(t).newstate
                           /\ frames'[t] = [frames[t] EXCEPT ![1] = f]
    BY <1>17, ReleaseFacts DEF Moves
  <2>2. PICK s : s = "release"
    OBVIOUS
  <2>3. pc[t] = s /\ pc'[t] = s /\ frames[t] # <<>>
    BY <1>17, <2>2, ReleaseFacts DEF Moves
  <2>4. Fits(h, f, s)
    BY <1>4, <2>1, <2>2, <2>3 DEF Fits
  <2>. QED  BY <2>1, <2>3, <2>4, StageStep
<1>18. CASE HelpDone(t)
  <2>1. frames[t] # <<>>
    BY <1>18, Invoked DEF HelpDone, Moves, Helping
  <2>. QED  BY <1>5, <1>18, <2>1 DEF HelpDone
<1>19. CASE RdcssCas(t)
  <2>1. pc[t] = "rdcss.cas" /\ frames[t] # <<>> /\ AtEntry(t)
    BY <1>19, Invoked DEF RdcssCas, Moves, Helping, AtEntry
  <2>2. EntryOfTag(h, t)
    BY <2>1, EntryFacts DEF Moves
  <2>3. PICK tag, a, old, e, i : tag = Top(t).tag /\ a = rdcssDesc[t].addr2 /\ old = rdcssDesc[t].old2
                                 /\ e = Top(t).entries /\ i = Top(t).i
    OBVIOUS
  <2>4. /\ tag \in KcasTags /\ a \in Addr /\ Issued(tag) /\ e = h[tag].entries /\ e \in Plan
        /\ i \in DOMAIN e /\ e[i].addr = a /\ e[i].old = old
        /\ Open(h, tag) => \A j \in DOMAIN e : j < i => word[e[j].addr] = tag
    BY <2>2, <2>3 DEF EntryOfTag, RdcssSet
  <2>5. CASE UNCHANGED frames /\ pc'[t] \notin Special
    BY <2>1, <2>5, SameStep DEF Special
  <2>6. CASE NextEntry(t, "rdcss.cas") /\ word[a] = tag
    <3>1. PICK f \in Frame : /\ frames'[t] = [frames[t] EXCEPT ![1] = f]
                             /\ pc'[t] = "entry" /\ f.i = Top(t).i + 1 /\ f.tag = Top(t).tag
                             /\ f.entries = Top(t).entries /\ f.newstate = Top(t).newstate
      BY <1>7, <2>1, <2>6
    <3>2. f.newstate = "SUCCEEDED"
      BY <1>4, <2>1, <3>1 DEF Fits
    <3>3. ASSUME Open(h, tag), NEW j \in DOMAIN e, j < f.i
          PROVE  word[e[j].addr] = tag
      <4>1. j < i \/ j = i
        BY <1>4, <2>1, <2>3, <2>4, <3>1, <3>3, PlanForm
      <4>. QED  BY <2>4, <2>6, <3>3, <4>1
    <3>4. PICK s : s = "entry"
      OBVIOUS
    <3>5. f.tag = tag /\ f.entries = e /\ s = "entry"
      BY <2>3, <3>1, <3>4
    <3>6. Open(h, tag) => \A j \in DOMAIN e : j < f.i => word[e[j].addr] = tag
      BY <3>3
    <3>7. Fits(h, f, s)
      BY <2>4, <3>2, <3>5, <3>6 DEF Fits
    <3>. QED  BY <2>1, <3>1, <3>4, <3>7, StageStep
  <2>7. CASE /\ IsValue(word[a]) /\ word[a] # Plain(old) /\ GoTo(t, "rdcss.cas", "decide")
             /\ frames' = [frames EXCEPT ![t][1].newstate = "FAILED"]
    <3>1. PICK f, s : f = [Top(t) EXCEPT !.newstate = "FAILED"] /\ s = "decide"
      OBVIOUS
    <3>2. f \in Frame /\ f.tag = tag /\ f.entries = e /\ f.newstate = "FAILED"
      BY <1>4, <2>1, <2>3, <3>1 DEF Frame, Outcome
    <3>3. frames'[t] = [frames[t] EXCEPT ![1] = f] /\ pc'[t] = s
      BY <1>4, <2>1, <2>7, <3>1 DEF Moves, TypeOK, GoTo
    <3>4. ASSUME Open(h, tag)
          PROVE  tag[2] \in missed
      <4>1. word[a] = Plain(value[a])
        BY <2>4, <2>7 DEF Moves, Agrees, Words
      <4>2. value[a] # old
        BY <2>7, <4>1
      <4>3. PICK v \in Thread : v = tag[2]
        BY <2>4, WordForm
      <4>4. Undecided(tag)
        BY <2>4, <3>4, CurrentHistory DEF Moves, Agrees
      <4>5. /\ kcasDesc[v].seq = tag[3] /\ tag[3] \in Nat \ {0} /\ kcasDesc[v].state = "UNDECIDED"
        BY <2>4, <4>3, <4>4, WordForm DEF Undecided, Current
      <4>6. Swaps(v) /\ Entries(kcasDesc[v].entries) = Entries(op[v].entries)
        BY <4>5 DEF Moves, Agrees, Descriptors
      <4>7. kcasDesc[v].entries = e
        <5>1. h[tag] = [entries |-> kcasDesc[tag[2]].entries, outcome |-> kcasDesc[tag[2]].state]
          BY <2>4, <4>4, CurrentHistory DEF Moves, Agrees, Undecided
        <5>. QED  BY <2>4, <4>3, <5>1
      <4>8. e[i] \in Entries(op[v].entries)
        BY <2>4, <4>6, <4>7, PlanForm
      <4>9. Differ(value, op[v].entries)
        BY <2>4, <4>2, <4>8 DEF Differ
      <4>. QED  BY <4>3, <4>6, <4>9 DEF Moves, Agrees, Missed
    <3>5. Fits(h, f, s)
      BY <2>4, <3>1, <3>2, <3>4 DEF Fits
    <3>. QED  BY <2>1, <3>2, <3>3, <3>5, StageStep
  <2>8. \/ UNCHANGED frames /\ pc'[t] \notin Special
        \/ NextEntry(t, "rdcss.cas") /\ word[a] = tag
        \/ /\ IsValue(word[a]) /\ word[a] # Plain(old) /\ GoTo(t, "rdcss.cas", "decide")
           /\ frames' = [frames EXCEPT ![t][1].newstate = "FAILED"]
    <3>1. ASSUME Meet(t, "rdcss.cas", word[a])
          PROVE  UNCHANGED frames /\ pc'[t] \notin Special
      <4>1. PICK w : w = word[a]
        OBVIOUS
      <4>2. UNCHANGED frames /\ pc' = [pc EXCEPT ![t] = IF IsRdcss(w) THEN "rdcss.copy" ELSE "kcas.copy"]
        BY <3>1, <4>1, MeetFacts
      <4>3. pc'[t] \in {"rdcss.copy", "kcas.copy"}
        BY <4>2 DEF Moves, TypeOK
      <4>. QED  BY <4>2, <4>3 DEF Special
    <3>2. GoTo(t, "rdcss.cas", "rdcss.state") => pc'[t] \notin Special
      BY DEF GoTo, Special, Moves, TypeOK
    <3>. QED  BY <1>19, <2>3, <3>1, <3>2 DEF RdcssCas
  <2>. QED  BY <2>5, <2>6, <2>7, <2>8
<1>20. CASE RdcssWrite(t)
  <2>1. pc[t] = "rdcss.write" /\ UNCHANGED kcasDesc /\ rdcss[t] \in Writing /\ met[t] \in RdcssTags
    BY <1>20 DEF RdcssWrite, Moves, Stages, StageOK, HelpingRdcss
  <2>2. CASE met[t] # OwnRdcss(t)
    <3>1. frames'[t] = frames[t] /\ pc'[t] \notin Special
      BY <1>20, <2>2 DEF RdcssWrite, GoTo, Special, Moves, TypeOK
    <3>. QED  BY <2>1, <3>1, SameStep DEF Special
  <2>3. CASE met[t] = OwnRdcss(t) /\ NextEntry(t, "rdcss.write")
    <3>1. frames[t] # <<>>
      BY <2>1, <2>3 DEF Moves, Agrees, MetRdcss, HelpingRdcss
    <3>2. AtEntry(t) /\ ~Unplaced(t) /\ pc[t] \in HelpingRdcss
      BY <2>1, <2>3, <3>1 DEF AtEntry, Unplaced, HelpingRdcss
    <3>3. EntryOfTag(h, t)
      BY <3>2, EntryFacts DEF Moves
    <3>4. PICK tag, a, e, i : tag = Top(t).tag /\ a = rdcssDesc[t].addr2 /\ e = Top(t).entries /\ i = Top(t).i
      OBVIOUS
    <3>5. /\ tag \in KcasTags /\ a \in Addr /\ Issued(tag) /\ e = h[tag].entries /\ e \in Plan
          /\ rdcssDesc[t].old1 = tag /\ i \in DOMAIN e /\ e[i].addr = a
          /\ Open(h, tag) => \A j \in DOMAIN e : j < i => word[e[j].addr] = tag
      BY <3>3, <3>4 DEF EntryOfTag, RdcssSet
    <3>6. rdcss[t].addr2 = a
      <4>1. met[t][2] = t /\ met[t][3] = rdcssDesc[t].seq
        BY <2>3, WordForm DEF OwnRdcss
      <4>. QED  BY <2>1, <3>2, <3>4, <4>1 DEF Moves, Agrees, Copies
    <3>7. g = h
      BY <2>1, GoingOn
    <3>8. ASSUME Open(h, tag)
          PROVE  word'[a] = tag
      <4>1. CASE word[a] = OwnRdcss(t)
        <5>1. PICK u \in Thread : Completes(t, h, u)
          BY <2>1, <2>3, <3>6, <4>1, CompleteFacts DEF Moves
        <5>2. u = t
          BY <2>3, <5>1 DEF Completes, OwnRdcss, RdcssTag
        <5>3. rdcss[t].new = tag
          BY <3>5, <3>8, <5>1, <5>2 DEF Completes
        <5>. QED  BY <1>20, <2>3, <3>5, <3>6, <4>1, <5>3 DEF RdcssWrite, Moves, TypeOK
      <4>2. CASE word[a] # OwnRdcss(t)
        <5>1. word[a] = tag
          BY <3>2, <3>4, <3>5, <3>8, <4>2 DEF Moves, Agrees, Replaced
        <5>. QED  BY <3>5, <3>7, <3>8, <5>1, TagStays
      <4>. QED  BY <4>1, <4>2
    <3>9. PICK f \in Frame : /\ frames'[t] = [frames[t] EXCEPT ![1] = f]
                             /\ pc'[t] = "entry" /\ f.i = Top(t).i + 1 /\ f.tag = Top(t).tag
                             /\ f.entries = Top(t).entries /\ f.newstate = Top(t).newstate
      BY <1>7, <2>3, <3>1
    <3>10. f.newstate = "SUCCEEDED"
      BY <1>4, <2>1, <3>1, <3>9 DEF Fits
    <3>11. ASSUME Open(h, tag), NEW j \in DOMAIN e, j < f.i
           PROVE  word'[e[j].addr] = tag
      <4>1. j < i \/ j = i
        BY <1>4, <3>1, <3>4, <3>5, <3>9, <3>11, PlanForm
      <4>2. CASE j < i
        <5>1. word[e[j].addr] = tag /\ e[j].addr \in Addr
          BY <3>5, <3>11, <4>2, PlanForm
        <5>2. PICK b : b = e[j].addr
          OBVIOUS
        <5>3. word'[b] = word[b]
          BY <3>5, <3>7, <3>11, <5>1, <5>2, TagStays
        <5>. QED  BY <5>1, <5>2, <5>3
      <4>. QED  BY <3>5, <3>8, <3>11, <4>1, <4>2
    <3>12. Issued(tag)'
      BY <3>5, IssuedStays
    <3>13. PICK s : s = "entry"
      OBVIOUS
    <3>14. f.tag = tag /\ f.entries = e /\ s = "entry"
      BY <3>4, <3>9, <3>13
    <3>15. Open(h, tag) => \A j \in DOMAIN e : j < f.i => word'[e[j].addr] = tag
      BY <3>11
    <3>16. e = g[tag].entries /\ (Open(g, tag) => Open(h, tag))
      BY <3>5, <3>7
    <3>17. Fits(g, f, s)'
      BY <3>10, <3>12, <3>14, <3>15, <3>16 DEF Fits, Issued, Current, Open
    <3>. QED  BY <3>1, <3>9, <3>13, <3>17, TopStep
  <2>. QED  BY <1>20, <2>2, <2>3 DEF RdcssWrite
<1>. QED
  BY <1>8, <1>9, <1>10, <1>11, <1>12, <1>13, <1>14, <1>15, <1>16, <1>17, <1>18, <1>19, <1>20 DEF Moves, Step

-----------------------------------------------------------------------------
(* Every step keeps the agreement.                                         *)
LEMMA AgreesStep ==
  ASSUME Usage, NEW t \in Thread, NEW h, NEW g, Moves(t, h, g)
  PROVE  Agrees(g)'
BY DescriptorsStep, WordsStep, FramesStep, MetStep, OfEntryStep, MetRdcssStep, ReplacedStep, CopiesStep, MissedStep
   DEF Agrees

(* At first every word is a value and nobody has called anything.          *)
LEMMA InitialInvariant ==
  ASSUME Usage, Init
  PROVE  KcasInv
<1>1. <<>> \in Plan
  BY DEF Plan, OncePerWord
<1>2. TypeOK
  <2>1. /\ word \in [Addr -> WordSet] /\ value \in [Addr -> Value]
        /\ script \in [Thread -> Seq(SUBSET Called)]
    BY DEF Usage, Init, WordSet
  <2>2. /\ kcasDesc \in [Thread -> [seq : Nat, state : Outcome, entries : Plan]]
        /\ rdcssDesc \in [Thread -> RdcssSet \cup {[seq |-> 0, old1 |-> None, addr2 |-> None, old2 |-> None]}]
    BY <1>1 DEF Init, Outcome
  <2>3. /\ pc \in [Thread -> Stage] /\ op \in [Thread -> Called \cup {None}]
        /\ frames \in [Thread -> Seq(Frame)]
        /\ met \in [Thread -> KcasTags \cup RdcssTags \cup {None}]
        /\ rdcss \in [Thread -> RdcssSet \cup Writing \cup {NoRdcss}]
        /\ answer \in [Thread -> Answer \cup {None}] /\ missed \in SUBSET Thread
    BY DEF Init, Stage
  <2>. QED  BY <2>1, <2>2, <2>3 DEF TypeOK
<1>3. ASSUME NEW t \in Thread
      PROVE  /\ pc[t] = "idle" /\ op[t] = None /\ frames[t] = <<>> /\ met[t] = None
             /\ kcasDesc[t].seq = 0 /\ rdcssDesc[t].seq = 0
  BY DEF Init
<1>4. Stages
  BY <1>3 DEF Stages, StageOK, Helping, HelpingRdcss, Swaps
<1>5. PICK h : h = [tag \in KcasTags |-> [entries |-> <<>>, outcome |-> "SUCCEEDED"]]
  OBVIOUS
<1>6. h \in Histories
  BY <1>1, <1>5 DEF Histories, Outcome
<1>7. Descriptors(h)
  <2>1. \A tag \in KcasTags : h[tag].outcome # "UNDECIDED"
    BY <1>5
  <2>. QED  BY <1>3, <2>1 DEF Descriptors, Swaps
<1>8. Words(h)
  <2>1. \A a \in Addr : word[a] = Plain(First) /\ value[a] = First
    BY DEF Init
  <2>. QED  BY <2>1, WordForm, Kinds DEF Words
<1>9. Frames(h) /\ Met(h) /\ Replaced(h) /\ Copies(h) /\ OfEntry
  BY <1>3 DEF Frames, Met, Replaced, Copies, OfEntry, AtEntry, HelpingRdcss
<1>10. MetRdcss
  BY <1>3, NoneIsNoTag DEF MetRdcss, Unplaced, AtEntry, HelpingRdcss
<1>11. Missed
  BY <1>3 DEF Missed, Swaps, Init
<1>. QED  BY <1>2, <1>4, <1>6, <1>7, <1>8, <1>9, <1>10, <1>11 DEF KcasInv, Agrees

(* A step that changes nothing keeps everything.                           *)
LEMMA StutterKeeps ==
  ASSUME KcasInv, UNCHANGED vars
  PROVE  KcasInv'
<1>1. PICK h \in Histories : Agrees(h)
  BY DEF KcasInv
<1>2. TypeOK'
  BY DEF KcasInv, TypeOK, vars
<1>3. Stages'
  BY DEF KcasInv, Stages, StageOK, Swaps, OwnTag, Top, vars
<1>4. Descriptors(h)' /\ Words(h)' /\ Met(h)'
  BY <1>1 DEF Agrees, Descriptors, Words, Met, OwnTag, Swaps, Issued, Placed, OwnRdcss, vars
<1>5. Frames(h)'
  BY <1>1 DEF Agrees, Frames, FrameOK, Fits, Issued, Current, vars
<1>6. OfEntry' /\ MetRdcss'
  BY <1>1 DEF Agrees, OfEntry, MetRdcss, AtEntry, Unplaced, OwnRdcss, Issued, Top, vars
<1>7. Replaced(h)' /\ Copies(h)'
  BY <1>1 DEF Agrees, Replaced, Copies, AtEntry, Unplaced, OwnRdcss, vars
<1>8. Missed'
  BY <1>1 DEF Agrees, Missed, Swaps, vars
<1>. QED  BY <1>1, <1>2, <1>3, <1>4, <1>5, <1>6, <1>7, <1>8 DEF KcasInv, Agrees

(* The invariant holds before a step of a thread, and with the history     *)
(* that goes on after it.                                                  *)
LEMMA MovesForm ==
  ASSUME Usage, KcasInv, NEW t \in Thread, Step(t) \/ \E c : Invoke(t, c), [Next]_vars
  PROVE  \E h, g : Moves(t, h, g)
<1>1. PICK h \in Histories : Agrees(h)
  BY DEF KcasInv
<1>2. TypeOK'
  BY <1>1, TypeStep DEF KcasInv, Agrees
<1>3. Stages'
  BY <1>1, <1>2, StagesStep DEF KcasInv, Agrees
<1>4. PICK g : g = Later(h)
  OBVIOUS
<1>5. Moves(t, h, g)
  BY <1>1, <1>2, <1>3, <1>4 DEF Moves, KcasInv
<1>. QED  BY <1>5

(* So every step keeps the invariant.                                      *)
LEMMA StepInvariant ==
  ASSUME Usage, KcasInv, [Next]_vars
  PROVE  KcasInv'
<1>1. CASE Next
  <2>1. PICK t \in Thread : Step(t) \/ \E c : Invoke(t, c)
    BY <1>1 DEF Next
  <2>2. PICK h, g : Moves(t, h, g)
    BY <2>1, MovesForm
  <2>3. g \in Histories
    BY <2>2, GoingOn
  <2>4. Agrees(g)'
    BY <2>2, AgreesStep
  <2>5. TypeOK' /\ Stages'
    BY <2>2 DEF Moves
  <2>. QED  BY <2>3, <2>4, <2>5 DEF KcasInv
<1>. QED  BY <1>1, StutterKeeps

(* The invariant holds: there is a history that the state agrees with.     *)
THEOREM KcasInvariance == ASSUME Usage PROVE Spec => []KcasInv
<1>1. Init => KcasInv
  BY InitialInvariant
<1>2. KcasInv /\ [Next]_vars => KcasInv'
  BY StepInvariant
<1>. QED  BY <1>1, <1>2, PTL DEF Spec

(* A word holds one value for its readers, whoever owns it: its tag says   *)
(* which, as long as that is the last one of its thread.                   *)
THEOREM KcasWordsHold == ASSUME Usage PROVE Spec => []WordsHold
<1>1. ASSUME KcasInv PROVE WordsHold
  <2>1. PICK h : TypeOK /\ Agrees(h)
    BY <1>1 DEF KcasInv
  <2>. SUFFICES ASSUME NEW a \in Addr, NEW w, w = word[a]
                PROVE  /\ IsValue(w) => w[2] = value[a]
                       /\ IsRdcss(w) => rdcssDesc[w[2]].old2 = value[a]
                       /\ IsKcas(w) /\ Current(w) =>
                            value[a] = IF kcasDesc[w[2]].state = "SUCCEEDED"
                                       THEN EntryOf(w, a).new ELSE EntryOf(w, a).old
    BY DEF WordsHold
  <2>2. w \in WordSet /\ Words(h) /\ Descriptors(h)
    BY <2>1 DEF TypeOK, Agrees
  <2>3. CASE IsValue(w)
    <3>1. w = Plain(value[a])
      BY <2>2, <2>3 DEF Words
    <3>. QED  BY <2>3, <3>1, WordForm, Kinds
  <2>4. CASE IsRdcss(w)
    <3>1. PICK u \in Thread : w = OwnRdcss(u) /\ Placed(u, a)
      BY <2>2, <2>4 DEF Words
    <3>. QED  BY <2>4, <3>1, WordForm, Kinds DEF OwnRdcss, Placed
  <2>5. CASE IsKcas(w) /\ Current(w)
    <3>1. w \in KcasTags /\ w[2] \in Thread
      BY <2>2, <2>5, WordForm
    <3>2. PICK s, o : s = kcasDesc[w[2]].entries /\ o = kcasDesc[w[2]].state
      OBVIOUS
    <3>3. h[w] = [entries |-> s, outcome |-> o]
      BY <2>1, <2>2, <2>5, <3>1, <3>2, CurrentHistory
    <3>4. s \in Plan
      BY <2>1, <3>1, <3>2 DEF TypeOK
    <3>5. PICK j \in DOMAIN s : s[j].addr = a /\ value[a] = (IF o = "SUCCEEDED" THEN s[j].new ELSE s[j].old)
      BY <2>2, <2>5, <3>3 DEF Words, Holds
    <3>6. EntryOf(w, a) = s[j]
      BY <3>2, <3>4, <3>5, PlanForm DEF EntryOf
    <3>. QED  BY <2>5, <3>2, <3>5, <3>6, Kinds
  <2>. QED  BY <2>2, <2>3, <2>4, <2>5, WordForm
<1>. QED  BY <1>1, KcasInvariance, PTL

-----------------------------------------------------------------------------
(* What AtomicWords takes for the requests and for the operations done.    *)
Req(c) ==
  IF c = None THEN None
  ELSE IF c.op = "read" THEN [op |-> "read", addr |-> c.addr]
  ELSE [op |-> "swap", entries |-> Entries(c.entries)]
Request == [t \in Thread |-> Req(op[t])]
Done == {t \in Thread : /\ op[t] # None /\ op[t].op = "kcas"
                        /\ kcasDesc[t].state = "SUCCEEDED"}

(* A swap asks for its entries, a read for its word.                       *)
LEMMA RequestForm ==
  ASSUME Usage, NEW c \in Called \cup {None}, NEW r, r = Req(c)
  PROVE  /\ Abstract!Swaps(r) <=> c # None /\ c.op = "kcas"
         /\ r = None <=> c = None
         /\ Abstract!Swaps(r) => /\ r = Abstract!Swapping(Entries(c.entries)) /\ r.entries = Entries(c.entries)
                                 /\ r.entries \subseteq Abstract!Entry /\ c.entries \in Plan
         /\ c # None /\ c.op = "read" => /\ r = Abstract!Reading(c.addr) /\ c.addr \in Addr
                                         /\ r.op = "read" /\ r.addr = c.addr
<1>1. CASE c = None
  BY <1>1 DEF Req, Abstract!Swaps
<1>2. CASE c # None /\ c.op = "read"
  <2>1. r = [op |-> "read", addr |-> c.addr] /\ c.addr \in Addr
    BY <1>2, CallForm DEF Req, IsRead
  <2>2. r # None
    BY <2>1 DEF Usage
  <2>. QED  BY <1>2, <2>1, <2>2 DEF Abstract!Swaps, Abstract!Reading
<1>3. CASE c # None /\ c.op = "kcas"
  <2>1. r = [op |-> "swap", entries |-> Entries(c.entries)] /\ c.entries \in Plan
    BY <1>3, CallForm DEF Req, IsSwap
  <2>2. r # None
    BY <2>1 DEF Usage
  <2>3. Entries(c.entries) \subseteq Abstract!Entry
    <3>1. PICK s : s = c.entries
      OBVIOUS
    <3>2. \A j \in DOMAIN s : s[j] \in Entry
      BY <2>1, <3>1, PlanForm
    <3>3. Entries(s) \subseteq Entry
      BY <3>2 DEF Entries, ToSet
    <3>. QED  BY <3>1, <3>3 DEF Entry, Abstract!Entry
  <2>. QED  BY <1>3, <2>1, <2>2, <2>3 DEF Abstract!Swaps, Abstract!Swapping
<1>. QED  BY <1>1, <1>2, <1>3, CallForm

(* The same in a state.                                                    *)
LEMMA Requests ==
  ASSUME Usage, TypeOK, NEW t \in Thread
  PROVE  /\ Abstract!Swaps(Request[t]) <=> Swaps(t)
         /\ Swaps(t) => Request[t].entries = Entries(op[t].entries)
         /\ Request[t] = None <=> op[t] = None
         /\ op[t] # None /\ op[t].op = "read" => /\ Request[t].op = "read" /\ Request[t].addr = op[t].addr
                                                 /\ op[t].addr \in Addr
<1>1. op[t] \in Called \cup {None} /\ Request[t] = Req(op[t])
  BY DEF TypeOK, Request
<1>. QED  BY <1>1, RequestForm DEF Swaps

(* The same in the next one.                                               *)
LEMMA RequestsNext ==
  ASSUME Usage, TypeOK', NEW t \in Thread
  PROVE  /\ Abstract!Swaps(Request'[t]) <=> Swaps(t)'
         /\ Swaps(t)' => Request'[t].entries = Entries(op'[t].entries)
<1>1. op'[t] \in Called \cup {None} /\ Request'[t] = Req(op'[t])
  BY DEF TypeOK, Request
<1>. QED  BY <1>1, RequestForm DEF Swaps

(* KCAS reserves nothing.                                                  *)
LEMMA NothingTaken ==
  /\ \A t : Abstract!Taken(t) = {}
  /\ Abstract!Reserve
BY DEF Abstract!Taken, Abstract!Reserve

(* The history of misses is the one that AtomicWords keeps.                *)
LEMMA MissedMeets ==
  ASSUME Usage, NEW t \in Thread, NEW h, NEW g, Moves(t, h, g)
  PROVE  missed' = Abstract!Missed
<1>1. Abstract!Missed =
        {u \in Thread : Abstract!Swaps(Request'[u])
                        /\ (u \in missed \/ ~Abstract!Matches(value', Request'[u].entries))}
  BY DEF Abstract!Missed, Request, Req
<1>2. ASSUME NEW u \in Thread
      PROVE  Abstract!Swaps(Request'[u]) /\ (u \in missed \/ ~Abstract!Matches(value', Request'[u].entries))
             <=> Swaps(u)' /\ (u \in missed \/ Differ(value', op'[u].entries))
  BY RequestsNext DEF Abstract!Matches, Differ, Moves
<1>3. CASE Note
  <2>1. missed' = {u \in Thread : Swaps(u)' /\ (u \in missed \/ Differ(value', op'[u].entries))}
    BY <1>3 DEF Note, Swaps
  <2>. QED  BY <1>1, <1>2, <2>1
<1>4. CASE UNCHANGED <<missed, op, value, kcasDesc>>
  <2>1. missed' \subseteq Thread
    BY DEF Moves, TypeOK
  <2>2. \A u \in Thread : u \in missed' <=> Swaps(u)' /\ (u \in missed \/ Differ(value', op'[u].entries))
    BY <1>4 DEF Moves, Agrees, Missed, Swaps
  <2>. QED  BY <1>1, <1>2, <2>1, <2>2
<1>. QED  BY <1>3, <1>4, NoteSteps DEF Moves

(* What neither calls nor returns, nor decides anything, is not to be      *)
(* seen.                                                                   *)
LEMMA HiddenStep ==
  ASSUME Usage, NEW t \in Thread, NEW h, NEW g, Moves(t, h, g), UNCHANGED <<op, answer, value>>, Done' = Done
  PROVE  Abstract!Write
BY MissedMeets, NothingTaken DEF Abstract!Write, Done

(* A call asks for what AtomicWords knows.                                 *)
LEMMA CallMeets ==
  ASSUME Usage, NEW t \in Thread, NEW h, NEW g, Moves(t, h, g), NEW c, Invoke(t, c)
  PROVE  Abstract!Invoke(t)
<1>1. /\ op[t] = None /\ c \in Called /\ op' = [op EXCEPT ![t] = c] /\ UNCHANGED <<answer, value>>
      /\ c.op \in {"kcas", "read"} /\ c # None
  BY InvokeFacts, CallForm DEF Moves
<1>2. op'[t] = c /\ \A u \in Thread \ {t} : op'[u] = op[u]
  BY <1>1 DEF Moves, TypeOK
<1>3. PICK r : r = Req(c)
  OBVIOUS
<1>4. Request' = [Request EXCEPT ![t] = r] /\ Request'[t] = r /\ Request[t] = None
  BY <1>1, <1>2, <1>3 DEF Request, Req
<1>5. Done' = Done
  <2>1. t \notin Done'
    <3>1. CASE c.op = "read"
      BY <1>2, <3>1 DEF Done
    <3>2. CASE c.op = "kcas"
      <4>1. kcasDesc'[t].state = "UNDECIDED"
        BY <3>2, InvokeFacts DEF Moves, TypeOK
      <4>. QED  BY <4>1 DEF Done
    <3>. QED  BY <1>1, <3>1, <3>2
  <2>2. t \notin Done
    BY <1>1 DEF Done
  <2>3. ASSUME NEW u \in Thread \ {t}
        PROVE  u \in Done' <=> u \in Done
    <3>1. kcasDesc'[u] = kcasDesc[u]
      <4>1. UNCHANGED kcasDesc \/ \E d : kcasDesc' = [kcasDesc EXCEPT ![t] = d]
        <5>1. PICK d : d = [seq |-> kcasDesc[t].seq + 1, state |-> "UNDECIDED", entries |-> InOrder(c.entries)]
          OBVIOUS
        <5>2. UNCHANGED kcasDesc \/ kcasDesc' = [kcasDesc EXCEPT ![t] = d]
          BY <5>1, InvokeFacts DEF Moves
        <5>. QED  BY <5>2
      <4>. QED  BY <4>1 DEF Moves, TypeOK
    <3>. QED  BY <1>2, <3>1 DEF Done
  <2>. QED  BY <2>1, <2>2, <2>3 DEF Done
<1>6. \/ \E a \in Addr : Request' = [Request EXCEPT ![t] = Abstract!Reading(a)]
      \/ /\ Abstract!Swaps(Request'[t]) /\ Request'[t].entries \subseteq Abstract!Entry
         /\ Request' = [Request EXCEPT ![t] = Abstract!Swapping(Request'[t].entries)]
  <2>1. CASE c.op = "read"
    BY <1>1, <1>3, <1>4, <2>1, RequestForm
  <2>2. CASE c.op = "kcas"
    <3>1. /\ Abstract!Swaps(r) /\ r = Abstract!Swapping(Entries(c.entries)) /\ r.entries = Entries(c.entries)
          /\ r.entries \subseteq Abstract!Entry
      BY <1>1, <1>3, <2>2, RequestForm
    <3>. QED  BY <1>4, <3>1
  <2>. QED  BY <1>1, <2>1, <2>2
<1>7. missed' = Abstract!Missed
  BY MissedMeets
<1>. QED  BY <1>1, <1>4, <1>5, <1>6, <1>7 DEF Abstract!Invoke, Request, Req, Done

(* A decision to succeed is the moment at which the words change.          *)
LEMMA CommitMeets ==
  ASSUME Usage, NEW t \in Thread, NEW h, NEW g, Moves(t, h, g), Decide(t), Undecided(Top(t).tag)
  PROVE  Abstract!Write \/ \E u \in Thread : Abstract!Commit(u)
<1>1. PICK tag, s, u : tag = Top(t).tag /\ s = Top(t).entries /\ u = tag[2]
  OBVIOUS
<1>2. Deciding(t, h, g, tag)
  BY <1>1, DecideHistory
<1>3. /\ tag \in KcasTags /\ Current(tag) /\ u \in Thread /\ s = h[tag].entries /\ s = kcasDesc[u].entries /\ s \in Plan
      /\ Top(t).newstate \in {"SUCCEEDED", "FAILED"} /\ kcasDesc[u].seq = tag[3] /\ tag[3] > 0
      /\ kcasDesc[u].state = "UNDECIDED"
  BY <1>1, <1>2, WordForm DEF Deciding, Undecided, Current
<1>4. Swaps(u) /\ Entries(s) = Entries(op[u].entries)
  BY <1>3 DEF Moves, Agrees, Descriptors
<1>5. /\ UNCHANGED <<op, answer>> /\ kcasDesc'[u].state = Top(t).newstate
      /\ \A v \in Thread \ {u} : kcasDesc'[v] = kcasDesc[v]
  <2>1. PICK d : d = [kcasDesc[u] EXCEPT !.state = Top(t).newstate]
    OBVIOUS
  <2>2. UNCHANGED <<op, answer>> /\ kcasDesc' = [kcasDesc EXCEPT ![u] = d]
    BY <1>1, <2>1, DecideFacts DEF Moves
  <2>3. d.state = Top(t).newstate
    BY <1>3, <2>1 DEF Moves, TypeOK
  <2>. QED  BY <1>3, <2>2, <2>3 DEF Moves, TypeOK
<1>6. CASE Top(t).newstate = "FAILED"
  <2>1. UNCHANGED value
    BY <1>1, <1>6, DecideValues
  <2>2. Done' = Done
    BY <1>3, <1>5, <1>6 DEF Done
  <2>. QED  BY <1>5, <2>1, <2>2, HiddenStep
<1>7. CASE Top(t).newstate = "SUCCEEDED"
  <2>1. /\ \A j \in DOMAIN s : value[s[j].addr] = s[j].old /\ value'[s[j].addr] = s[j].new
        /\ \A a \in Addr : (\A j \in DOMAIN s : s[j].addr # a) => value'[a] = value[a]
    BY <1>1, <1>7, DecideValues
  <2>2. u \notin Done /\ Done' = Done \cup {u}
    BY <1>3, <1>4, <1>5, <1>7 DEF Done, Swaps
  <2>3. Abstract!Swaps(Request[u]) /\ Request[u].entries = Entries(s)
    BY <1>3, <1>4, Requests DEF Moves
  <2>4. ASSUME NEW e \in Entries(s)
        PROVE  \E j \in DOMAIN s : e = s[j]
    BY <2>4 DEF Entries, ToSet
  <2>5. Abstract!Matches(value, Entries(s))
    BY <2>1, <2>4 DEF Abstract!Matches
  <2>6. PICK C : C = Abstract!Changed(Entries(s))
    OBVIOUS
  <2>7. ASSUME NEW a \in Addr
        PROVE  value'[a] = IF \E e \in C : e.addr = a THEN (CHOOSE e \in C : e.addr = a).new ELSE value[a]
    <3>1. CASE \E e \in C : e.addr = a
      <4>1. PICK e : e = CHOOSE f \in C : f.addr = a
        OBVIOUS
      <4>2. e \in C /\ e.addr = a
        BY <3>1, <4>1
      <4>3. PICK j \in DOMAIN s : e = s[j]
        BY <2>4, <2>6, <4>2 DEF Abstract!Changed
      <4>4. value'[a] = e.new
        BY <2>1, <4>2, <4>3
      <4>. QED  BY <3>1, <4>1, <4>4
    <3>2. CASE (~\E e \in C : e.addr = a) /\ \E j \in DOMAIN s : s[j].addr = a
      <4>1. PICK j \in DOMAIN s : s[j].addr = a
        BY <3>2
      <4>2. s[j] \in Entries(s)
        BY <1>3, PlanForm
      <4>3. s[j].new = s[j].old
        BY <2>6, <3>2, <4>1, <4>2 DEF Abstract!Changed
      <4>4. value'[a] = value[a]
        BY <2>1, <4>1, <4>3
      <4>. QED  BY <3>2, <4>4
    <3>3. CASE (~\E e \in C : e.addr = a) /\ ~\E j \in DOMAIN s : s[j].addr = a
      BY <2>1, <3>3
    <3>. QED  BY <3>1, <3>2, <3>3
  <2>8. value' = Abstract!Written(value, Entries(s))
    <3>1. value' = [a \in Addr |-> value'[a]]
      BY DEF Moves, TypeOK
    <3>2. value' = [a \in Addr |-> IF \E e \in C : e.addr = a THEN (CHOOSE e \in C : e.addr = a).new ELSE value[a]]
      BY <2>7, <3>1
    <3>. QED  BY <2>6, <3>2 DEF Abstract!Written
  <2>9. Abstract!Commit(u)
    BY <1>5, <2>2, <2>3, <2>5, <2>8, MissedMeets, NothingTaken DEF Abstract!Commit, Request, Req, Done
  <2>. QED  BY <1>3, <2>9
<1>. QED  BY <1>3, <1>6, <1>7

(* An operation returns when it is done or has missed.                     *)
LEMMA ReturnMeets ==
  ASSUME Usage, NEW t \in Thread, NEW h, NEW g, Moves(t, h, g), Step(t), Swaps(t), op'[t] # op[t]
  PROVE  Abstract!Return(t)
<1>1. /\ UNCHANGED <<kcasDesc, value>> /\ Note
      /\ kcasDesc[t].state \in {"SUCCEEDED", "FAILED"}
      /\ op' = [op EXCEPT ![t] = None]
      /\ answer' = [answer EXCEPT ![t] = <<"swap", kcasDesc[t].state = "SUCCEEDED">>]
  BY OwnReturn
<1>2. op'[t] = None /\ \A u \in Thread \ {t} : op'[u] = op[u]
  <2>1. op \in [Thread -> Called \cup {None}]
    BY DEF Moves, TypeOK
  <2>2. op' = [op EXCEPT ![t] = None]
    BY <1>1
  <2>. QED  BY <2>1, <2>2
<1>3. Request' = [Request EXCEPT ![t] = None]
  <2>1. Req(op'[t]) = None /\ \A u \in Thread \ {t} : Req(op'[u]) = Req(op[u])
    BY <1>2 DEF Req
  <2>2. Request' = [u \in Thread |-> Req(op'[u])] /\ Request = [u \in Thread |-> Req(op[u])]
    BY DEF Request, Req
  <2>. QED  BY <2>1, <2>2
<1>4. Done' = Done \ {t}
  BY <1>1, <1>2 DEF Done
<1>5. t \in Done <=> kcasDesc[t].state = "SUCCEEDED"
  BY DEF Done, Swaps
<1>6. t \in Done \cup missed
  BY <1>1, <1>5 DEF Moves, Agrees, Missed
<1>7. missed' = missed \ {t}
  <2>1. missed \subseteq Thread /\ missed' \subseteq Thread
    BY DEF Moves, TypeOK
  <2>2. t \notin missed'
    BY <1>1, <1>2 DEF Note
  <2>3. ASSUME NEW u \in Thread \ {t}
        PROVE  u \in missed' <=> u \in missed
    BY <1>1, <1>2 DEF Note, Moves, Agrees, Missed, Swaps
  <2>. QED  BY <2>1, <2>2, <2>3
<1>8. answer' = [answer EXCEPT ![t] = <<"swap", t \in Done>>]
  <2>1. (t \in Done) = (kcasDesc[t].state = "SUCCEEDED")
    BY <1>5
  <2>. QED  BY <1>1, <2>1
<1>9. Abstract!Swaps(Request[t])
  BY Requests DEF Moves
<1>. QED  BY <1>1, <1>3, <1>4, <1>6, <1>7, <1>8, <1>9, NothingTaken DEF Abstract!Return, Request, Req, Done

(* A read returns what the word holds.                                     *)
LEMMA ReadMeets ==
  ASSUME Usage, NEW t \in Thread, NEW h, NEW g, Moves(t, h, g), ReadWord(t), IsValue(word[op[t].addr])
  PROVE  Abstract!ReturnRead(t)
<1>1. /\ op' = [op EXCEPT ![t] = None] /\ answer' = [answer EXCEPT ![t] = <<"read", word[op[t].addr][2]>>]
      /\ UNCHANGED <<kcasDesc, value>> /\ Note /\ pc[t] = "read"
  BY DEF ReadWord, Return
<1>2. op[t] # None /\ op[t].op = "read"
  BY <1>1 DEF Moves, Stages, StageOK
<1>3. op'[t] = None /\ \A u \in Thread \ {t} : op'[u] = op[u]
  BY <1>1 DEF Moves, TypeOK
<1>4. Request' = [Request EXCEPT ![t] = None]
  BY <1>3 DEF Request, Req
<1>5. Done' = Done
  BY <1>1, <1>2, <1>3 DEF Done
<1>6. missed' = missed
  <2>1. missed \subseteq Thread /\ missed' \subseteq Thread
    BY DEF Moves, TypeOK
  <2>2. t \notin missed' /\ t \notin missed
    BY <1>1, <1>2, <1>3 DEF Note, Moves, Agrees, Missed, Swaps
  <2>3. ASSUME NEW u \in Thread \ {t}
        PROVE  u \in missed' <=> u \in missed
    BY <1>1, <1>3 DEF Note, Moves, Agrees, Missed, Swaps
  <2>. QED  BY <2>1, <2>2, <2>3
<1>7. Request[t] # None /\ Request[t].op = "read" /\ Request[t].addr = op[t].addr /\ op[t].addr \in Addr
  BY <1>2, Requests DEF Moves
<1>8. answer' = [answer EXCEPT ![t] = <<"read", value[Request[t].addr]>>]
  <2>1. PICK a : a = op[t].addr
    OBVIOUS
  <2>2. word[a] = Plain(value[a])
    BY <1>7, <2>1 DEF Moves, Agrees, Words
  <2>3. word[a][2] = value[a]
    BY <2>2, WordForm
  <2>. QED  BY <1>1, <1>7, <2>1, <2>3
<1>. QED  BY <1>1, <1>4, <1>5, <1>6, <1>7, <1>8, NothingTaken DEF Abstract!ReturnRead, Request, Req, Done

(* Nothing else returns.                                                   *)
LEMMA ReturnSteps ==
  ASSUME Usage, NEW t \in Thread, NEW h, NEW g, Moves(t, h, g), Step(t)
  PROVE  \/ UNCHANGED <<op, answer>>
         \/ ReadWord(t) /\ IsValue(word[op[t].addr])
         \/ Swaps(t) /\ op'[t] # op[t]
<1>1. ASSUME NEW from, NEW succeeded, LeaveHelp(t, from, succeeded), op[t] # None
      PROVE  UNCHANGED <<op, answer>> \/ (Swaps(t) /\ op'[t] # op[t])
  <2>1. \/ op[t].op = "kcas" /\ op' = [op EXCEPT ![t] = None]
        \/ UNCHANGED <<op, answer>>
    BY <1>1, LeaveFacts
  <2>. QED  BY <1>1, <2>1 DEF Swaps, Moves, TypeOK
<1>2. CASE ReadWord(t)
  BY <1>2 DEF ReadWord, Meet
<1>3. CASE HelpState(t) \/ ReadOutcome(t) \/ HelpDone(t)
  <2>1. op[t] # None
    BY <1>3, Invoked DEF HelpState, ReadOutcome, HelpDone, LeaveHelp, Helping, Moves
  <2>. QED  BY <1>1, <1>3, <2>1 DEF HelpState, ReadOutcome, HelpDone
<1>4. CASE \/ CopyRdcss(t) \/ CheckRdcss(t) \/ CopyKcas(t) \/ CheckKcas(t)
           \/ NewRdcss(t) \/ RdcssState(t) \/ RdcssWrite(t) \/ AllEntries(t)
           \/ Decide(t) \/ Release(t)
  BY <1>4 DEF CopyRdcss, CheckRdcss, CopyKcas, CheckKcas, NewRdcss, RdcssState, RdcssWrite, AllEntries, Decide, Release
<1>5. CASE RdcssCas(t)
  BY <1>5 DEF RdcssCas
<1>. QED  BY <1>2, <1>3, <1>4, <1>5 DEF Step

-----------------------------------------------------------------------------
(* Every step is one of AtomicWords, or is not to be seen.                 *)
LEMMA AtomicStep ==
  ASSUME Usage, KcasInv, [Next]_vars
  PROVE  [Abstract!Next]_Abstract!vars
<1>1. CASE Next
  <2>1. PICK t \in Thread : Step(t) \/ \E c : Invoke(t, c)
    BY <1>1 DEF Next
  <2>2. PICK h, g : Moves(t, h, g)
    BY <2>1, MovesForm
  <2>3. CASE \E c : Invoke(t, c)
    BY <2>2, <2>3, CallMeets DEF Abstract!Next
  <2>4. CASE Step(t) /\ UNCHANGED <<op, answer>>
    <3>1. CASE Decide(t) /\ Undecided(Top(t).tag)
      BY <2>2, <3>1, CommitMeets DEF Abstract!Next
    <3>2. CASE ~(Decide(t) /\ Undecided(Top(t).tag))
      <4>1. UNCHANGED <<kcasDesc, value>>
        BY <2>2, <2>4, <3>2, NoteSteps, DescSteps DEF Moves
      <4>2. Done' = Done
        BY <2>4, <4>1 DEF Done
      <4>. QED  BY <2>2, <2>4, <4>1, <4>2, HiddenStep DEF Abstract!Next
    <3>. QED  BY <3>1, <3>2
  <2>5. CASE Step(t) /\ Swaps(t) /\ op'[t] # op[t]
    BY <2>2, <2>5, ReturnMeets DEF Abstract!Next
  <2>6. CASE ReadWord(t) /\ IsValue(word[op[t].addr])
    BY <2>2, <2>6, ReadMeets DEF Abstract!Next
  <2>. QED  BY <2>1, <2>2, <2>3, <2>4, <2>5, <2>6, ReturnSteps
<1>2. CASE UNCHANGED vars
  BY <1>2 DEF vars, Abstract!vars
<1>. QED  BY <1>1, <1>2

(* The initial states are those of AtomicWords.                            *)
LEMMA AtomicInit ==
  ASSUME Usage, Init
  PROVE  Abstract!Init
BY DEF Usage, Init, Abstract!Init

(* KCAS is atomic, for any operations: kcas takes effect on all its words  *)
(* in one step between its call and its return, or has failed because at   *)
(* some moment in between a word differed; what readPtr returns the word   *)
(* held at one moment.                                                     *)
THEOREM KcasImplementsAtomicWords == ASSUME Usage PROVE Spec => AtomicSpec
<1>1. Init => Abstract!Init
  BY AtomicInit
<1>2. KcasInv /\ [Next]_vars => [Abstract!Next]_Abstract!vars
  BY AtomicStep
<1>. QED  BY <1>1, <1>2, KcasInvariance, PTL DEF Spec, AtomicSpec, Abstract!Spec
=============================================================================
