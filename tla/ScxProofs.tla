------------------------------ MODULE ScxProofs ------------------------------
(***************************************************************************)
(* Proofs about LLX and SCX, for any number of threads, nodes and fields.  *)
(*                                                                         *)
(* The argument.  scxPtr[n] never returns to a tag that it has been        *)
(* (held[n]), so a freezing CAS for a tag succeeds at most once on each    *)
(* node, and a node whose scxPtr is not the expected one any more dooms    *)
(* the scx that has not frozen it.  An scx is decided only when it is      *)
(* doomed or has written its field, and while it is undecided the nodes    *)
(* that it has frozen stay frozen for it: they are what its llx saw.  Late *)
(* helpers can therefore only repeat what has been done, or freeze nodes   *)
(* for an scx that is decided, which nobody waits for.  Not all scxs fail, *)
(* because what dooms one that has frozen a node is a lower node, and      *)
(* among the frozen nodes there is a lowest.                               *)
(***************************************************************************)
EXTENDS Scx, WellFoundedInduction, TLAPS

Pcs == {"idle", "llx.scxPtr", "llx.state", "llx.marked", "llx.copy", "helpOther",
        "helpOther.check", "scx", "freeze", "freeze.exp", "freeze.allFrozen", "abort",
        "mark", "commit", "return"}

Helping(t) ==
  pc[t] \in {"freeze", "freeze.exp", "freeze.allFrozen", "abort", "mark", "commit", "return"}

Linking(t) == pc[t] \notin {"idle", "scx"} /\ (Helping(t) => ~Owner(t))

Decided(g) == ~InProgress(g)

AllFrozen(g) == mutables[g[1]].allFrozen

StateIs(g, s) == mutables[g[1]].state = s

(* A tag that has been given to an scx: if its descriptor still belongs to *)
(* it, its owner is executing it.                                          *)
Started(g) ==
  /\ g \in Tag
  /\ g # INIT_SCX_HANDLE => /\ g[2] <= mutables[g[1]].seq
                            /\ Current(g) => tagptr[g[1]] = g /\ Helping(g[1])

-----------------------------------------------------------------------------
Desc == [links : Seq(Link), finalize : SUBSET Node, field : Field \cup {None}, oldVal : Tag \cup {None}]

Index == Nat \ {0}
Mutables == [seq : Nat, state : State, allFrozen : BOOLEAN]
Answers == {"none", "linked", "FINALIZED", "FAILED", "true", "false"}

Types ==
  /\ marked \in [Node -> BOOLEAN]
  /\ scxPtr \in [Node -> Tag]
  /\ field \in [Node -> Snapshot]
  /\ held \in [Node -> SUBSET Tag]
  /\ mutables \in [Thread -> Mutables]
  /\ desc \in [Thread -> Desc]
  /\ pc \in [Thread -> Pcs]
  /\ srcNode \in [Thread -> Node]
  /\ seenMarked \in [Thread -> BOOLEAN]
  /\ dest \in [Thread -> [Field -> Tag \cup {None}]]
  /\ tagptr \in [Thread -> Tag]
  /\ snap \in [Thread -> Desc]
  /\ i \in [Thread -> Index]
  /\ result \in [Thread -> {"COMMITTED", "ABORTED"}]
  /\ link \in [Thread -> Seq(Link)]
  /\ answer \in [Thread -> Answers]
  /\ applied \subseteq Tag

(* The sequence number of a descriptor is odd while its owner executes.    *)
Descriptors ==
  \A t \in Thread :
    /\ mutables[t].seq \in 2 .. MaxSeq(t)
    /\ IF Executing(t) THEN \E k \in Nat : mutables[t].seq = 2 * k + 1
                       ELSE \E k \in Nat : mutables[t].seq = 2 * k
    /\ pc[t] = "scx" => mutables[t].seq < MaxSeq(t)
    /\ ~Executing(t) => mutables[t].state = "INPROGRESS" /\ ~mutables[t].allFrozen

Tags ==
  /\ \A n \in Node : scxPtr[n] \in held[n] /\ \A g \in held[n] : Started(g)
  /\ \A t \in Thread : Started(tagptr[t])
  /\ \A g \in applied : Started(g) /\ g # INIT_SCX_HANDLE
  /\ \A n \in Node, f \in Field : field[n][f] \in applied \cup {INIT_SCX_HANDLE}
  /\ \A t \in Thread : Executing(t) => Current(tagptr[t])
  /\ \A t \in Thread : Helping(t) => tagptr[t] # INIT_SCX_HANDLE

(* A node stays frozen for an scx that is undecided. *)
StaysFrozen ==
  \A n \in Node : \A g \in held[n] : InProgress(g) => scxPtr[n] = g

(* A marked node is frozen for the scx that finalizes it. *)
MarkedBy ==
  \A n \in Node : marked[n] => scxPtr[n] \in applied \/ InProgress(scxPtr[n])

-----------------------------------------------------------------------------
(* What llx has seen of a node. *)
Good(e) ==
  /\ e.scxPtr \in held[e.node]
  /\ Decided(e.scxPtr)
  /\ scxPtr[e.node] = e.scxPtr => e.fields = field[e.node] /\ ~marked[e.node]

Increasing(s) == \A j, k \in DOMAIN s : j < k => s[j].node < s[k].node

Links ==
  \A t \in Thread :
    /\ Increasing(link[t])
    /\ \A k \in DOMAIN link[t] : Good(link[t][k])

Moved(d, k) == scxPtr[d.links[k].node] # d.links[k].scxPtr

Had(g, d, k) == g \in held[d.links[k].node]

AllHad(g, d) == \A k \in DOMAIN d.links : Had(g, d, k)

Doomed(g, d) == \E k \in DOMAIN d.links : ~Had(g, d, k) /\ Moved(d, k)

(* A descriptor that an scx has filled in. *)
WellFormed(d) ==
  /\ d \in Desc
  /\ d.links # <<>>
  /\ Increasing(d.links)
  /\ \A k \in DOMAIN d.links : Good(d.links[k])
  /\ d.finalize \subseteq {d.links[k].node : k \in 2 .. Len(d.links)}
  /\ d.field \in Field
  /\ d.oldVal \in applied \cup {INIT_SCX_HANDLE}
  /\ ~Moved(d, 1) => d.oldVal = d.links[1].fields[d.field]

Prepared ==
  \A t \in Thread :
    /\ pc[t] = "scx" => WellFormed(desc[t])
    /\ pc[t] = "scx" \/ Executing(t) => desc[t].links = link[t]

(* What holds of an scx with tag g and descriptor d as long as somebody    *)
(* helps it.                                                               *)
Freezing(g, d) ==
  /\ \A k \in DOMAIN d.links : Had(g, d, k) => Moved(d, k)
  /\ \A j, k \in DOMAIN d.links : j < k /\ Had(g, d, k) => Had(g, d, j)
  /\ \A n \in Node : g \in held[n] => \E k \in DOMAIN d.links : d.links[k].node = n
  /\ Had(g, d, 1) => d.oldVal = d.links[1].fields[d.field]

Applied(g, d) ==
  g \in applied => /\ AllHad(g, d)
                   /\ \A n \in d.finalize : marked[n]
                   /\ field[d.links[1].node][d.field] # d.oldVal

Outcome(g, d) ==
  /\ Decided(g) => g \in applied \/ Doomed(g, d)
  /\ Current(g) => /\ d = desc[g[1]]
                   /\ AllFrozen(g) => AllHad(g, d)
                   /\ g \in applied => AllFrozen(g)
                   /\ StateIs(g, "ABORTED") => Doomed(g, d)
                   /\ StateIs(g, "COMMITTED") => g \in applied

Untouched(g, d) ==
  InProgress(g) /\ g \notin applied =>
    \A k \in DOMAIN d.links : Had(g, d, k) =>
      /\ field[d.links[k].node] = d.links[k].fields
      /\ marked[d.links[k].node] => AllFrozen(g) /\ d.links[k].node \in d.finalize

Plan(g, d) == WellFormed(d) /\ Freezing(g, d) /\ Applied(g, d) /\ Outcome(g, d) /\ Untouched(g, d)

Plans == \A t \in Thread : Helping(t) => Plan(tagptr[t], snap[t])

SamePlan ==
  \A t, u \in Thread : Helping(t) /\ Helping(u) /\ tagptr[t] = tagptr[u] => snap[t] = snap[u]

-----------------------------------------------------------------------------
(* What a thread knows in llx. *)
LlxPhase(t) ==
  /\ pc[t] # "llx.copy" => dest[t] = Uncopied
  /\ pc[t] = "idle" => tagptr[t] = INIT_SCX_HANDLE
  /\ Linking(t) => /\ \A k \in DOMAIN link[t] : link[t][k].node < srcNode[t]
                   /\ seenMarked[t] => marked[srcNode[t]]
  /\ Linking(t) /\ pc[t] # "llx.scxPtr" =>
       /\ tagptr[t] \in held[srcNode[t]]
       /\ seenMarked[t] => tagptr[t] = scxPtr[srcNode[t]]
  /\ pc[t] \in {"llx.marked", "llx.copy"} => Decided(tagptr[t])
  /\ pc[t] = "llx.copy" /\ scxPtr[srcNode[t]] = tagptr[t] =>
       /\ ~marked[srcNode[t]]
       /\ \A f \in Field : dest[t][f] # None => dest[t][f] = field[srcNode[t]][f]
  /\ pc[t] \in {"helpOther", "helpOther.check"} => tagptr[t] # INIT_SCX_HANDLE /\ ~Owner(t)
  /\ pc[t] = "helpOther.check" /\ Current(tagptr[t]) => snap[t] = desc[tagptr[t][1]]

(* What a thread knows in help, with the tag g and the descriptor d. *)
HelpPhase(t, g, d) ==
  /\ pc[t] \in {"freeze", "freeze.exp", "freeze.allFrozen", "abort"} =>
       \A k \in DOMAIN d.links : k < i[t] => Had(g, d, k)
  /\ pc[t] = "freeze" => i[t] <= Len(d.links) + 1
  /\ pc[t] = "freeze.exp" => i[t] \in DOMAIN d.links /\ Moved(d, i[t])
  /\ pc[t] = "freeze.allFrozen" => Doomed(g, d) \/ Decided(g)
  /\ pc[t] = "abort" => Doomed(g, d)
  /\ pc[t] \in {"mark", "commit"} => AllHad(g, d)
  /\ pc[t] = "mark" => /\ Current(g) => AllFrozen(g)
                       /\ i[t] <= Len(d.links) + 1
                       /\ \A k \in DOMAIN d.links :
                            k < i[t] /\ d.links[k].node \in d.finalize => marked[d.links[k].node]
  /\ pc[t] = "commit" => g \in applied
  /\ pc[t] = "return" => /\ Decided(g)
                         /\ Current(g) => StateIs(g, result[t])

LlxPhases == \A t \in Thread : LlxPhase(t)
HelpPhases == \A t \in Thread : Helping(t) => HelpPhase(t, tagptr[t], snap[t])

ScxInv ==
  /\ Types
  /\ Descriptors
  /\ Tags
  /\ StaysFrozen
  /\ MarkedBy
  /\ Links
  /\ Prepared
  /\ Plans
  /\ SamePlan
  /\ LlxPhases
  /\ HelpPhases
-----------------------------------------------------------------------------
(* What a step of t does to the shared memory.                             *)
Shared == <<marked, scxPtr, field, held, mutables, applied>>

Quiet(t) == (Step(t) \/ Call(t)) /\ UNCHANGED Shared

Freezes(t) == Freeze(t) /\ scxPtr[snap[t].links[i[t]].node] = snap[t].links[i[t]].scxPtr
Marks(t) == Mark(t) /\ snap[t].links[i[t]].node \in snap[t].finalize
Updates(t) == Update(t) /\ field[snap[t].links[1].node][snap[t].field] = snap[t].oldVal

(* What belongs to a thread is changed by its own steps only.               *)
Private(v) ==
  <<pc[v], srcNode[v], seenMarked[v], dest[v], tagptr[v], snap[v], i[v], result[v], link[v], desc[v]>>

-----------------------------------------------------------------------------
(* PROOFS *)

(* A tag has an owner and a sequence number, unless it is that of new nodes. *)
LEMMA TagForm ==
  /\ INIT_SCX_HANDLE \in Tag
  /\ \A g \in Tag : g # INIT_SCX_HANDLE =>
       g[1] \in Thread /\ g[2] \in 0 .. MaxSeq(g[1]) /\ g = <<g[1], g[2]>>
  /\ \A t \in Thread : \A s \in 0 .. MaxSeq(t) : <<t, s>> \in Tag /\ <<t, s>> # INIT_SCX_HANDLE
  BY ScxAssumption DEF Tag, INIT_SCX_HANDLE

(* MUTABLES1_WRITE_FIELD changes the state of the descriptor that has the   *)
(* tag, and nothing else.                                                   *)
LEMMA WriteStateEffect ==
  ASSUME mutables \in [Thread -> Mutables], NEW g \in Tag, NEW s \in State, WriteState(g, s)
  PROVE  /\ mutables' \in [Thread -> Mutables]
         /\ \A p \in Thread :
              /\ mutables'[p].seq = mutables[p].seq
              /\ mutables'[p].allFrozen = mutables[p].allFrozen
              /\ mutables'[p].state = IF Current(g) /\ p = g[1] THEN s ELSE mutables[p].state
  <1>1. CASE Current(g)
    <2>1. g[1] \in Thread
      BY <1>1, TagForm DEF Current
    <2>2. mutables' = [mutables EXCEPT ![g[1]].state = s]
      BY <1>1 DEF WriteState
    <2>3. mutables' \in [Thread -> Mutables]
      BY <2>1, <2>2 DEF Mutables
    <2>4. \A p \in Thread :
            /\ mutables'[p].seq = mutables[p].seq
            /\ mutables'[p].allFrozen = mutables[p].allFrozen
            /\ mutables'[p].state = IF p = g[1] THEN s ELSE mutables[p].state
      BY <2>1, <2>2 DEF Mutables
    <2>. QED  BY <1>1, <2>3, <2>4
  <1>2. CASE ~Current(g)
    BY <1>2 DEF WriteState
  <1>. QED  BY <1>1, <1>2

(* MUTABLES1_WRITE_BIT, in the same way.                                    *)
LEMMA SetAllFrozenEffect ==
  ASSUME mutables \in [Thread -> Mutables], NEW g \in Tag, SetAllFrozen(g)
  PROVE  /\ mutables' \in [Thread -> Mutables]
         /\ \A p \in Thread :
              /\ mutables'[p].seq = mutables[p].seq
              /\ mutables'[p].state = mutables[p].state
              /\ Current(g) /\ p = g[1] => mutables'[p].allFrozen
              /\ ~(Current(g) /\ p = g[1]) => mutables'[p].allFrozen = mutables[p].allFrozen
  <1>1. CASE Current(g)
    <2>1. g[1] \in Thread
      BY <1>1, TagForm DEF Current
    <2>2. mutables' = [mutables EXCEPT ![g[1]].allFrozen = TRUE]
      BY <1>1 DEF SetAllFrozen
    <2>3. mutables' \in [Thread -> Mutables]
      BY <2>1, <2>2 DEF Mutables
    <2>4. \A p \in Thread :
            /\ mutables'[p].seq = mutables[p].seq
            /\ mutables'[p].state = mutables[p].state
      BY <2>1, <2>2 DEF Mutables
    <2>5. mutables'[g[1]].allFrozen
      BY <2>1, <2>2 DEF Mutables
    <2>6. \A p \in Thread : p # g[1] => mutables'[p].allFrozen = mutables[p].allFrozen
      BY <2>1, <2>2 DEF Mutables
    <2>. QED  BY <1>1, <2>3, <2>4, <2>5, <2>6
  <1>2. CASE ~Current(g)
    BY <1>2 DEF SetAllFrozen
  <1>. QED  BY <1>1, <1>2

(* The owner makes the descriptor belong to a new scx...                    *)
LEMMA InitializedEffect ==
  ASSUME mutables \in [Thread -> Mutables], NEW t \in Thread,
         mutables' = [mutables EXCEPT ![t].seq = @ + 1]
  PROVE  /\ mutables' \in [Thread -> Mutables]
         /\ mutables'[t].seq = mutables[t].seq + 1
         /\ \A p \in Thread :
              /\ p # t => mutables'[p] = mutables[p]
              /\ mutables'[p].state = mutables[p].state
              /\ mutables'[p].allFrozen = mutables[p].allFrozen
  <1>1. /\ mutables' \in [Thread -> Mutables]
        /\ \A p \in Thread : p # t => mutables'[p] = mutables[p]
    BY DEF Mutables
  <1>2. /\ mutables'[t].seq = mutables[t].seq + 1
        /\ mutables'[t].state = mutables[t].state
        /\ mutables'[t].allFrozen = mutables[t].allFrozen
    BY DEF Mutables
  <1>. QED  BY <1>1, <1>2

(* ...and free for the next.                                                *)
LEMMA NewEffect ==
  ASSUME mutables \in [Thread -> Mutables], NEW t \in Thread,
         mutables' = [mutables EXCEPT ![t] = NewMutables(@.seq + 1)]
  PROVE  /\ mutables' \in [Thread -> Mutables]
         /\ mutables'[t].seq = mutables[t].seq + 1
         /\ mutables'[t].state = "INPROGRESS"
         /\ ~mutables'[t].allFrozen
         /\ \A p \in Thread : p # t => mutables'[p] = mutables[p]
  <1>1. mutables[t].seq \in Nat
    BY DEF Mutables
  <1>2. mutables'[t] = [seq |-> mutables[t].seq + 1, state |-> "INPROGRESS", allFrozen |-> FALSE]
    BY DEF NewMutables
  <1>3. \A p \in Thread : p # t => mutables'[p] = mutables[p]
    BY DEF NewMutables
  <1>4. mutables'[t] \in Mutables
    <2>1. \A n \in Nat : [seq |-> n + 1, state |-> "INPROGRESS", allFrozen |-> FALSE] \in Mutables
      BY DEF Mutables, State
    <2>. QED  BY <1>1, <1>2, <2>1
  <1>5. mutables' \in [Thread -> Mutables]
    BY <1>3, <1>4 DEF NewMutables
  <1>. QED  BY <1>2, <1>3, <1>5

(* What is linked in a descriptor is well typed.                            *)
LEMMA LinkTypes ==
  ASSUME NEW d \in Desc
  PROVE  /\ d.links \in Seq(Link)
         /\ d.finalize \in SUBSET Node
         /\ \A k \in DOMAIN d.links :
              /\ d.links[k] \in Link
              /\ d.links[k].node \in Node
              /\ d.links[k].scxPtr \in Tag
              /\ d.links[k].fields \in Snapshot
  <1>1. d.links \in Seq(Link) /\ d.finalize \in SUBSET Node
    BY DEF Desc
  <1>2. \A k \in DOMAIN d.links : d.links[k] \in Link
    BY <1>1
  <1>3. \A e \in Link : e.node \in Node /\ e.scxPtr \in Tag /\ e.fields \in Snapshot
    BY DEF Link
  <1>. QED  BY <1>1, <1>2, <1>3

(* The state that llx reads is one of the three.                            *)
LEMMA StateOfType ==
  ASSUME Types, NEW g \in Tag
  PROVE  StateOf(g) \in State
  <1>1. Current(g) => g[1] \in Thread
    BY TagForm DEF Current
  <1>2. \A p \in Thread : mutables[p].state \in State
    BY DEF Types, Mutables
  <1>. QED  BY <1>1, <1>2 DEF StateOf, State

(* Index is kept opaque for the prover: 1, 2 and successors belong to it.   *)
LEMMA Indices == 1 \in Index /\ 2 \in Index /\ \A k \in Index : k + 1 \in Index
  BY DEF Index

(* A call that returns leaves well-typed locals behind.                     *)
LEMMA LeaveTypes ==
  ASSUME Types, NEW t \in Thread, NEW from, NEW ans \in Answers, Leave(t, from, ans)
  PROVE  /\ pc' \in [Thread -> Pcs]
         /\ srcNode' \in [Thread -> Node]
         /\ seenMarked' \in [Thread -> BOOLEAN]
         /\ dest' \in [Thread -> [Field -> Tag \cup {None}]]
         /\ tagptr' \in [Thread -> Tag]
         /\ snap' \in [Thread -> Desc]
         /\ i' \in [Thread -> Index]
         /\ result' \in [Thread -> {"COMMITTED", "ABORTED"}]
         /\ answer' \in [Thread -> Answers]
  <1>1. Uncopied \in [Field -> Tag \cup {None}]
    BY DEF Uncopied
  <1>2. NoDesc \in Desc
    BY DEF NoDesc, Desc
  <1>3. 1 \in Node
    BY ScxAssumption DEF Node
  <1>4. pc' \in [Thread -> Pcs]
    BY DEF Types, Leave, GoTo, Pcs
  <1>5. INIT_SCX_HANDLE \in Tag
    BY TagForm
  <1>. QED
    <2>1. /\ srcNode' \in [Thread -> Node]
          /\ seenMarked' \in [Thread -> BOOLEAN]
      BY <1>3 DEF Types, Leave
    <2>2. dest' \in [Thread -> [Field -> Tag \cup {None}]]
      BY <1>1 DEF Types, Leave
    <2>3. tagptr' \in [Thread -> Tag]
      BY <1>5 DEF Types, Leave
    <2>4. snap' \in [Thread -> Desc]
      BY <1>2 DEF Types, Leave
    <2>5. /\ i' \in [Thread -> Index]
          /\ result' \in [Thread -> {"COMMITTED", "ABORTED"}]
          /\ answer' \in [Thread -> Answers]
      BY Indices DEF Types, Leave
    <2>. QED  BY <1>4, <2>1, <2>2, <2>3, <2>4, <2>5

(* Every step keeps the types.                                              *)
LEMMA TypeStep ==
  ASSUME Types, Descriptors, LlxPhases, [Next]_vars
  PROVE  Types'
<1>1. CASE UNCHANGED vars
  BY <1>1 DEF Types, vars, node, descriptor, locals, llxLocals, helpLocals
<1>2. ASSUME NEW t \in Thread, Step(t) \/ Call(t)
      PROVE  Types'
  <2>. USE DEF node, descriptor, locals, llxLocals, helpLocals
  <2>1. CASE \E n \in Node : LlxStart(t, n)
    BY <2>1 DEF Types, LlxStart, GoTo, Pcs
  <2>2. CASE LlxReadScxPtr(t)
    BY <2>2 DEF Types, LlxReadScxPtr, GoTo, Pcs
  <2>3. CASE LlxReadState(t)
    <3>1. PICK to \in Pcs : pc' = [pc EXCEPT ![t] = to]
      <4>1. StateOf(tagptr[t]) \in State
        BY StateOfType DEF Types
      <4>. QED  BY <2>3, <4>1 DEF LlxReadState, GoTo, Pcs, State
    <3>2. pc' \in [Thread -> Pcs]
      BY <3>1 DEF Types
    <3>. QED  BY <2>3, <3>2 DEF Types, LlxReadState
  <2>4. ASSUME NEW from, Unsuccessful(t, from), UNCHANGED <<node, descriptor, applied>>
        PROVE  Types'
    <3>1. PICK ans \in Answers : Leave(t, from, ans)
      BY <2>4 DEF Unsuccessful, Answers
    <3>2. link' \in [Thread -> Seq(Link)]
      BY <2>4 DEF Unsuccessful, Types
    <3>. QED  BY <2>4, <3>1, <3>2, LeaveTypes DEF Types
  <2>5. CASE LlxReadMarked(t)
    <3>1. CASE marked[srcNode[t]]
      BY <2>4, <2>5, <3>1 DEF LlxReadMarked
    <3>2. CASE ~marked[srcNode[t]]
      BY <2>5, <3>2 DEF Types, LlxReadMarked, GoTo, Pcs
    <3>. QED  BY <3>1, <3>2
  <2>6. CASE \E f \in Field : LlxCopy(t, f)
    <3>1. PICK f \in Field : LlxCopy(t, f)
      BY <2>6
    <3>2. field[srcNode[t]][f] \in Tag
      BY DEF Types, Snapshot, Value
    <3>3. dest' \in [Thread -> [Field -> Tag \cup {None}]]
      BY <3>1, <3>2 DEF Types, LlxCopy
    <3>. QED  BY <3>1, <3>3 DEF Types, LlxCopy
  <2>7. CASE LlxValidate(t)
    <3>1. CASE scxPtr[srcNode[t]] = tagptr[t]
      <4>1. dest[t] \in Snapshot
        BY <2>7 DEF LlxValidate, Types, Snapshot, Value
      <4>2. [node |-> srcNode[t], scxPtr |-> tagptr[t], fields |-> dest[t]] \in Link
        BY <4>1 DEF Types, Link
      <4>3. link' \in [Thread -> Seq(Link)]
        <5>. DEFINE e == [node |-> srcNode[t], scxPtr |-> tagptr[t], fields |-> dest[t]]
        <5>1. link' = [link EXCEPT ![t] = Append(link[t], e)]
          BY <2>7, <3>1 DEF LlxValidate
        <5>2. link \in [Thread -> Seq(Link)] /\ e \in Link
          BY <4>2 DEF Types
        <5>3. Append(link[t], e) \in Seq(Link)
          <6>. HIDE DEF e
          <6>. QED  BY <5>2
        <5>. HIDE DEF e
        <5>. QED  BY <5>1, <5>2, <5>3
      <4>4. Leave(t, "llx.copy", "linked") /\ "linked" \in Answers
        BY <2>7, <3>1 DEF LlxValidate, Answers
      <4>. QED  BY <2>7, <4>3, <4>4, LeaveTypes DEF LlxValidate, Types
    <3>2. CASE scxPtr[srcNode[t]] # tagptr[t]
      BY <2>4, <2>7, <3>2 DEF LlxValidate
    <3>. QED  BY <3>1, <3>2
  <2>8. CASE HelpOtherCopy(t)
    <3>1. tagptr[t][1] \in Thread
      BY <2>8, TagForm DEF Types, HelpOtherCopy, GoTo, LlxPhases, LlxPhase
    <3>2. snap' \in [Thread -> Desc]
      BY <2>8, <3>1 DEF Types, HelpOtherCopy
    <3>. QED  BY <2>8, <3>2 DEF Types, HelpOtherCopy, GoTo, Pcs
  <2>9. CASE HelpOtherCheck(t)
    <3>1. CASE Current(tagptr[t])
      BY <2>9, <3>1, Indices DEF Types, HelpOtherCheck, GoTo, Pcs
    <3>2. CASE ~Current(tagptr[t])
      BY <2>4, <2>9, <3>2 DEF HelpOtherCheck
    <3>. QED  BY <3>1, <3>2
  <2>10. CASE \E finalize \in SUBSET Node, f \in Field : ScxPrepare(t, finalize, f)
    <3>1. PICK finalize \in SUBSET Node, f \in Field : ScxPrepare(t, finalize, f)
      BY <2>10
    <3>2. link[t] \in Seq(Link) /\ link[t][1] \in Link
      BY <3>1 DEF ScxPrepare, Types
    <3>3. field[link[t][1].node][f] \in Tag
      BY <3>2 DEF Types, Snapshot, Value, Link
    <3>4. [links |-> link[t], finalize |-> finalize,
           field |-> f, oldVal |-> field[link[t][1].node][f]] \in Desc
      BY <3>2, <3>3 DEF Desc
    <3>. QED  BY <3>1, <3>4 DEF ScxPrepare, Types, GoTo, Pcs
  <2>11. CASE GiveUp(t)
    BY <2>11 DEF GiveUp, Types
  <2>12. CASE ScxInitialized(t)
    <3>1. mutables[t].seq + 1 \in 0 .. MaxSeq(t)
      BY <2>12, ScxAssumption DEF Descriptors, ScxInitialized, GoTo, MaxSeq
    <3>2. <<t, mutables[t].seq + 1>> \in Tag
      BY <3>1, TagForm
    <3>3. mutables' \in [Thread -> Mutables]
      BY <2>12, InitializedEffect DEF ScxInitialized, Types
    <3>. QED  BY <2>12, <3>2, <3>3, Indices DEF ScxInitialized, Types, GoTo, Pcs
  <2>13. CASE ScxReturn(t)
    <3>1. mutables' \in [Thread -> Mutables]
      BY <2>13, NewEffect DEF ScxReturn, Types
    <3>2. PICK ans \in Answers : Leave(t, "return", ans)
      BY <2>13 DEF ScxReturn, Answers
    <3>. QED  BY <2>13, <3>1, <3>2, LeaveTypes DEF ScxReturn, Types
  <2>14. CASE LlxReturn(t)
    BY <2>4, <2>14 DEF LlxReturn
  <2>15. CASE Freeze(t)
    <3>. DEFINE n == snap[t].links[i[t]].node
    <3>1. CASE scxPtr[n] = snap[t].links[i[t]].scxPtr
      <4>1. i[t] \in DOMAIN snap[t].links
        BY <2>15 DEF Freeze, Types, Desc, Index
      <4>2. n \in Node
        BY <4>1, LinkTypes DEF Types
      <4>3. /\ scxPtr' = [scxPtr EXCEPT ![n] = tagptr[t]]
            /\ held' = [held EXCEPT ![n] = @ \cup {tagptr[t]}]
            /\ i' = [i EXCEPT ![t] = @ + 1]
        BY <2>15, <3>1 DEF Freeze
      <4>4. scxPtr' \in [Node -> Tag] /\ held' \in [Node -> SUBSET Tag]
        <5>. HIDE DEF n
        <5>. QED  BY <4>2, <4>3 DEF Types
      <4>5. i' \in [Thread -> Index]
        BY <4>3, Indices DEF Types
      <4>. QED  BY <2>15, <3>1, <4>4, <4>5 DEF Freeze, Types
    <3>2. CASE scxPtr[n] # snap[t].links[i[t]].scxPtr
      BY <2>15, <3>2 DEF Freeze, Types, Pcs
    <3>. QED  BY <3>1, <3>2
  <2>16. CASE FreezeReread(t)
    <3>. DEFINE frozen == scxPtr[snap[t].links[i[t]].node] = tagptr[t]
    <3>1. CASE frozen
      <4>1. /\ i' = [i EXCEPT ![t] = @ + 1]
            /\ pc' = [pc EXCEPT ![t] = "freeze"]
        BY <2>16, <3>1 DEF FreezeReread, GoTo
      <4>2. i' \in [Thread -> Index]
        BY <4>1, Indices DEF Types
      <4>3. pc' \in [Thread -> Pcs]
        BY <4>1 DEF Types, Pcs
      <4>. QED  BY <2>16, <4>2, <4>3 DEF FreezeReread, Types
    <3>2. CASE ~frozen
      BY <2>16, <3>2 DEF FreezeReread, Types, GoTo, Pcs
    <3>. QED  BY <3>1, <3>2
  <2>17. CASE ReadAllFrozen(t)
    <3>1. pc' \in [Thread -> Pcs]
      BY <2>17 DEF ReadAllFrozen, Types, GoTo, Pcs
    <3>. QED  BY <2>17, <3>1 DEF ReadAllFrozen, Types
  <2>18. CASE Abort(t)
    <3>1. mutables' \in [Thread -> Mutables]
      BY <2>18, WriteStateEffect DEF Abort, Types, State
    <3>. QED  BY <2>18, <3>1 DEF Abort, Types, GoTo, Pcs
  <2>19. CASE WriteAllFrozen(t)
    <3>1. mutables' \in [Thread -> Mutables]
      BY <2>19, SetAllFrozenEffect DEF WriteAllFrozen, Types
    <3>. QED  BY <2>19, <3>1, Indices DEF WriteAllFrozen, Types, GoTo, Pcs
  <2>20. CASE Mark(t)
    <3>1. i' \in [Thread -> Index]
      BY <2>20, Indices DEF Mark, Types
    <3>2. marked' \in [Node -> BOOLEAN]
      BY <2>20 DEF Mark, Types
    <3>. QED  BY <2>20, <3>1, <3>2 DEF Mark, Types
  <2>21. CASE Update(t)
    <3>. DEFINE n == snap[t].links[1].node  f == snap[t].field
    <3>1. field' \in [Node -> Snapshot] /\ applied' \subseteq Tag
      <4>1. CASE field[n][f] = snap[t].oldVal
        <5>1. field' = [field EXCEPT ![n][f] = tagptr[t]] /\ applied' = applied \cup {tagptr[t]}
          BY <2>21, <4>1 DEF Update
        <5>2. field \in [Node -> [Field -> Tag]] /\ tagptr[t] \in Tag /\ applied \subseteq Tag
          BY DEF Types, Snapshot, Value
        <5>. HIDE DEF n, f
        <5>. QED  BY <5>1, <5>2 DEF Snapshot, Value
      <4>2. CASE field[n][f] # snap[t].oldVal
        BY <2>21, <4>2 DEF Update, Types
      <4>. QED  BY <4>1, <4>2
    <3>. QED  BY <2>21, <3>1 DEF Update, Types, GoTo, Pcs
  <2>22. CASE CommitState(t)
    <3>1. mutables' \in [Thread -> Mutables]
      BY <2>22, WriteStateEffect DEF CommitState, Types, State
    <3>. QED  BY <2>22, <3>1 DEF CommitState, Types, GoTo, Pcs
  <2>. QED
    BY <1>2, <2>1, <2>2, <2>3, <2>5, <2>6, <2>7, <2>8, <2>9, <2>10, <2>11, <2>12, <2>13, <2>14,
       <2>15, <2>16, <2>17, <2>18, <2>19, <2>20, <2>21, <2>22 DEF Step, Call, Help
<1>. QED
  BY <1>1, <1>2 DEF Next

(* Nine kinds of steps: those that leave the shared memory alone, and eight *)
(* that change one thing each.                                              *)
LEMMA Kinds ==
  ASSUME NEW t \in Thread, Step(t) \/ Call(t)
  PROVE  \/ Quiet(t) \/ Freezes(t) \/ Marks(t) \/ Updates(t)
         \/ Abort(t) \/ WriteAllFrozen(t) \/ CommitState(t) \/ ScxInitialized(t) \/ ScxReturn(t)
<1>. USE DEF node, descriptor, Shared, Quiet
<1>1. CASE Freeze(t)
  BY <1>1 DEF Freeze, Freezes
<1>2. CASE Mark(t)
  BY <1>2 DEF Mark, Marks
<1>3. CASE Update(t)
  BY <1>3 DEF Update, Updates
<1>4. CASE Call(t)
  BY <1>4 DEF Call, GiveUp, LlxStart, ScxPrepare
<1>5. CASE \/ LlxReadScxPtr(t) \/ LlxReadState(t) \/ LlxReadMarked(t)
           \/ (\E f \in Field : LlxCopy(t, f)) \/ LlxValidate(t)
           \/ HelpOtherCopy(t) \/ HelpOtherCheck(t) \/ LlxReturn(t)
  BY <1>5 DEF LlxReadScxPtr, LlxReadState, LlxReadMarked, LlxCopy, LlxValidate,
       HelpOtherCopy, HelpOtherCheck, LlxReturn
<1>6. CASE FreezeReread(t) \/ ReadAllFrozen(t)
  BY <1>6 DEF FreezeReread, ReadAllFrozen
<1>. QED
  BY <1>1, <1>2, <1>3, <1>4, <1>5, <1>6 DEF Step, Help

(* A step of t leaves what belongs to another thread alone.                 *)
LEMMA OnlyOwn ==
  ASSUME Types, NEW t \in Thread, Step(t) \/ Call(t), NEW v \in Thread, v # t
  PROVE  Private(v)' = Private(v)
<1>. USE DEF node, descriptor, locals, llxLocals, helpLocals, Private
<1>1. ASSUME NEW from, NEW ans, Leave(t, from, ans)
      PROVE  /\ pc'[v] = pc[v] /\ srcNode'[v] = srcNode[v] /\ seenMarked'[v] = seenMarked[v]
             /\ dest'[v] = dest[v] /\ tagptr'[v] = tagptr[v] /\ snap'[v] = snap[v]
             /\ i'[v] = i[v] /\ result'[v] = result[v]
  BY <1>1 DEF Leave, GoTo, Types
<1>2. ASSUME NEW from, Unsuccessful(t, from), UNCHANGED desc
      PROVE  Private(v)' = Private(v)
  <2>1. link'[v] = link[v]
    BY <1>2 DEF Unsuccessful, Types
  <2>. QED  BY <1>1, <1>2, <2>1 DEF Unsuccessful
<1>3. CASE Call(t)
  BY <1>3 DEF Call, GiveUp, LlxStart, ScxPrepare, GoTo, Types
<1>4. CASE LlxReadScxPtr(t) \/ LlxReadState(t) \/ HelpOtherCopy(t) \/ (\E f \in Field : LlxCopy(t, f))
  BY <1>4 DEF LlxReadScxPtr, LlxReadState, HelpOtherCopy, LlxCopy, GoTo, Types
<1>5. CASE LlxReadMarked(t)
  BY <1>2, <1>5 DEF LlxReadMarked, GoTo, Types
<1>6. CASE LlxValidate(t)
  <2>1. CASE Unsuccessful(t, "llx.copy")
    BY <1>2, <1>6, <2>1 DEF LlxValidate
  <2>2. CASE Leave(t, "llx.copy", "linked")
    <3>1. link'[v] = link[v]
      BY <1>6 DEF LlxValidate, Types, Unsuccessful
    <3>. QED  BY <1>1, <1>6, <2>2, <3>1 DEF LlxValidate
  <2>. QED  BY <1>6, <2>1, <2>2 DEF LlxValidate
<1>7. CASE HelpOtherCheck(t)
  BY <1>2, <1>7 DEF HelpOtherCheck, GoTo, Types
<1>8. CASE LlxReturn(t)
  BY <1>2, <1>8 DEF LlxReturn
<1>9. CASE ScxReturn(t)
  <2>1. link'[v] = link[v]
    BY <1>9 DEF ScxReturn, Types
  <2>. QED  BY <1>1, <1>9, <2>1 DEF ScxReturn
<1>10. CASE ScxInitialized(t)
  BY <1>10 DEF ScxInitialized, GoTo, Types
<1>11. CASE Freeze(t) \/ FreezeReread(t)
  BY <1>11 DEF Freeze, FreezeReread, GoTo, Types
<1>12. CASE ReadAllFrozen(t) \/ Abort(t) \/ CommitState(t)
  BY <1>12 DEF ReadAllFrozen, Abort, CommitState, GoTo, Types
<1>13. CASE WriteAllFrozen(t) \/ Mark(t) \/ Update(t)
  BY <1>13 DEF WriteAllFrozen, Mark, Update, GoTo, Types
<1>. QED
  BY <1>3, <1>4, <1>5, <1>6, <1>7, <1>8, <1>9, <1>10, <1>11, <1>12, <1>13 DEF Step, Help

(* A thread in help stays there with its scx until it returns, and its own  *)
(* scx returns by ScxReturn.                                                *)
LEMMA StaysHelping ==
  ASSUME Types, NEW t \in Thread, Step(t) \/ Call(t), Helping(t)
  PROVE  \/ ScxReturn(t) \/ LlxReturn(t)
         \/ /\ Helping(t)'
            /\ tagptr'[t] = tagptr[t]
            /\ snap'[t] = snap[t]
            /\ link'[t] = link[t]
            /\ desc'[t] = desc[t]
<1>. USE DEF node, descriptor, locals, llxLocals, helpLocals, Helping
<1>1. CASE Freeze(t) \/ FreezeReread(t)
  BY <1>1 DEF Freeze, FreezeReread, GoTo, Types
<1>2. CASE ReadAllFrozen(t) \/ Abort(t) \/ CommitState(t)
  BY <1>2 DEF ReadAllFrozen, Abort, CommitState, GoTo, Types
<1>3. CASE WriteAllFrozen(t) \/ Mark(t) \/ Update(t)
  BY <1>3 DEF WriteAllFrozen, Mark, Update, GoTo, Types
<1>4. CASE Call(t)
  BY <1>4 DEF Call, GiveUp, LlxStart, ScxPrepare, GoTo
<1>5. CASE \/ LlxReadScxPtr(t) \/ LlxReadState(t) \/ LlxReadMarked(t)
           \/ (\E f \in Field : LlxCopy(t, f)) \/ LlxValidate(t)
           \/ HelpOtherCopy(t) \/ HelpOtherCheck(t) \/ ScxInitialized(t)
  BY <1>5 DEF LlxReadScxPtr, LlxReadState, LlxReadMarked, LlxCopy, LlxValidate,
       HelpOtherCopy, HelpOtherCheck, ScxInitialized, GoTo
<1>. QED
  BY <1>1, <1>2, <1>3, <1>4, <1>5 DEF Step, Help

(* What a helper's scx and phase are.                                       *)
LEMMA Helper ==
  ASSUME ScxInv, NEW t \in Thread, Helping(t)
  PROVE  /\ Plan(tagptr[t], snap[t])
         /\ HelpPhase(t, tagptr[t], snap[t])
         /\ snap[t] \in Desc
         /\ Started(tagptr[t])
         /\ tagptr[t] \in Tag
         /\ tagptr[t] # INIT_SCX_HANDLE
         /\ tagptr[t][1] \in Thread
         /\ snap[t].links \in Seq(Link)
         /\ Len(snap[t].links) \in Nat \ {0}
         /\ 1 \in DOMAIN snap[t].links
         /\ DOMAIN snap[t].links = 1 .. Len(snap[t].links)
         /\ snap[t].finalize \subseteq Node
         /\ \A k \in DOMAIN snap[t].links :
              /\ snap[t].links[k].node \in Node
              /\ snap[t].links[k].scxPtr \in Tag
              /\ snap[t].links[k].fields \in Snapshot
         /\ \A j, k \in DOMAIN snap[t].links :
              snap[t].links[j].node = snap[t].links[k].node => j = k
<1>. DEFINE d == snap[t]
<1>1. Plan(tagptr[t], d) /\ HelpPhase(t, tagptr[t], d)
  BY DEF ScxInv, Plans, HelpPhases
<1>2. d \in Desc /\ d.links # <<>> /\ Increasing(d.links)
  BY <1>1 DEF Plan, WellFormed
<1>3. Started(tagptr[t]) /\ tagptr[t] \in Tag /\ tagptr[t] # INIT_SCX_HANDLE /\ tagptr[t][1] \in Thread
  BY TagForm DEF ScxInv, Tags, Started
<1>. HIDE DEF d
<1>4. /\ d.links \in Seq(Link)
      /\ d.finalize \subseteq Node
      /\ \A k \in DOMAIN d.links :
           d.links[k].node \in Node /\ d.links[k].scxPtr \in Tag /\ d.links[k].fields \in Snapshot
  BY <1>2, LinkTypes
<1>5. Len(d.links) \in Nat \ {0} /\ DOMAIN d.links = 1 .. Len(d.links) /\ 1 \in DOMAIN d.links
  BY <1>2, <1>4
<1>6. ASSUME NEW j \in DOMAIN d.links, NEW k \in DOMAIN d.links, d.links[j].node = d.links[k].node
      PROVE  j = k
  <2>1. j \in Int /\ k \in Int /\ d.links[j].node \in Int /\ d.links[k].node \in Int
    BY <1>4, <1>5, ScxAssumption DEF Node
  <2>. QED  BY <1>2, <1>6, <2>1 DEF Increasing
<1>. QED
  BY <1>1, <1>2, <1>3, <1>4, <1>5, <1>6 DEF d

(* A freezing CAS that succeeds is the first of its scx on the node, which  *)
(* no scx in progress holds.                                                *)
LEMMA FreezeFacts ==
  ASSUME ScxInv, NEW t \in Thread, Freezes(t)
  PROVE  LET n == snap[t].links[i[t]].node
         IN  /\ Helping(t)
             /\ i[t] \in DOMAIN snap[t].links
             /\ n \in Node
             /\ scxPtr[n] = snap[t].links[i[t]].scxPtr
             /\ tagptr[t] \notin held[n]
             /\ tagptr[t] # scxPtr[n]
             /\ ~marked[n]
             /\ Decided(scxPtr[n])
             /\ snap[t].links[i[t]].fields = field[n]
             /\ scxPtr' = [scxPtr EXCEPT ![n] = tagptr[t]]
             /\ held' = [held EXCEPT ![n] = @ \cup {tagptr[t]}]
             /\ i' = [i EXCEPT ![t] = @ + 1]
             /\ UNCHANGED <<marked, field, mutables, desc, applied, pc, tagptr, snap, link>>
<1>. DEFINE d == snap[t]  n == d.links[i[t]].node
<1>1. Helping(t)
  BY DEF Freezes, Freeze, Helping
<1>2. i[t] \in DOMAIN d.links
  <2>1. i[t] <= Len(d.links) /\ i[t] \in Index
    BY DEF Freezes, Freeze, ScxInv, Types
  <2>. QED  BY <1>1, <2>1, Helper DEF Index
<1>3. n \in Node
  BY <1>1, <1>2, Helper
<1>4. scxPtr[n] = d.links[i[t]].scxPtr
  BY DEF Freezes
<1>5. Good(d.links[i[t]]) /\ (Had(tagptr[t], d, i[t]) => Moved(d, i[t]))
  BY <1>1, <1>2, Helper DEF Plan, WellFormed, Freezing
<1>6. tagptr[t] \notin held[n]
  BY <1>4, <1>5 DEF Had, Moved
<1>7. tagptr[t] # scxPtr[n]
  BY <1>3, <1>6 DEF ScxInv, Tags
<1>8. ~marked[n] /\ Decided(scxPtr[n]) /\ d.links[i[t]].fields = field[n]
  BY <1>4, <1>5 DEF Good
<1>9. /\ scxPtr' = [scxPtr EXCEPT ![n] = tagptr[t]]
      /\ held' = [held EXCEPT ![n] = @ \cup {tagptr[t]}]
      /\ i' = [i EXCEPT ![t] = @ + 1]
      /\ UNCHANGED <<marked, field, mutables, desc, applied, pc, tagptr, snap, link>>
  BY DEF Freezes, Freeze, descriptor
<1>. QED
  BY <1>1, <1>2, <1>3, <1>4, <1>6, <1>7, <1>8, <1>9

(* A node is marked by the scx in progress that holds it, unless it has     *)
(* been marked before.                                                      *)
LEMMA MarkFacts ==
  ASSUME ScxInv, NEW t \in Thread, Marks(t)
  PROVE  LET n == snap[t].links[i[t]].node
         IN  /\ Helping(t)
             /\ i[t] \in DOMAIN snap[t].links
             /\ n \in Node
             /\ n \in snap[t].finalize
             /\ AllHad(tagptr[t], snap[t])
             /\ ~marked[n] => /\ InProgress(tagptr[t])
                              /\ AllFrozen(tagptr[t])
                              /\ scxPtr[n] = tagptr[t]
                              /\ tagptr[t] \notin applied
             /\ marked' = [marked EXCEPT ![n] = TRUE]
             /\ i' = [i EXCEPT ![t] = @ + 1]
             /\ UNCHANGED <<scxPtr, held, field, mutables, desc, applied, pc, tagptr, snap, link>>
<1>. DEFINE g == tagptr[t]  d == snap[t]  n == d.links[i[t]].node
<1>1. Helping(t) /\ pc[t] = "mark"
  BY DEF Marks, Mark, Helping
<1>2. i[t] \in DOMAIN d.links
  <2>1. i[t] <= Len(d.links) /\ i[t] \in Index
    BY DEF Marks, Mark, ScxInv, Types
  <2>. QED  BY <1>1, <2>1, Helper DEF Index
<1>3. n \in Node /\ n \in d.finalize
  BY <1>1, <1>2, Helper DEF Marks
<1>4. AllHad(g, d) /\ (Current(g) => AllFrozen(g))
  BY <1>1, Helper DEF HelpPhase
<1>5. ASSUME ~marked[n]
      PROVE  InProgress(g) /\ AllFrozen(g) /\ scxPtr[n] = g /\ g \notin applied
  <2>1. Applied(g, d) /\ Outcome(g, d)
    BY <1>1, Helper DEF Plan
  <2>2. g \notin applied
    BY <1>3, <1>5, <2>1 DEF Applied
  <2>3. ~Doomed(g, d)
    BY <1>4 DEF AllHad, Doomed
  <2>4. InProgress(g)
    BY <2>1, <2>2, <2>3 DEF Outcome, Decided
  <2>5. g \in held[n]
    BY <1>2, <1>4 DEF AllHad, Had
  <2>6. scxPtr[n] = g
    BY <1>3, <2>4, <2>5 DEF ScxInv, StaysFrozen
  <2>. QED  BY <1>4, <2>2, <2>4, <2>6 DEF InProgress
<1>6. /\ marked' = [marked EXCEPT ![n] = TRUE]
      /\ i' = [i EXCEPT ![t] = @ + 1]
      /\ UNCHANGED <<scxPtr, held, field, mutables, desc, applied, pc, tagptr, snap, link>>
  BY DEF Marks, Mark, descriptor
<1>. QED
  BY <1>1, <1>2, <1>3, <1>4, <1>5, <1>6

(* An update CAS that succeeds is the first of its scx; the scx is in       *)
(* progress and holds all its nodes.                                        *)
LEMMA UpdateFacts ==
  ASSUME ScxInv, NEW t \in Thread, Updates(t)
  PROVE  LET n == snap[t].links[1].node
         IN  /\ Helping(t)
             /\ n \in Node
             /\ snap[t].field \in Field
             /\ AllHad(tagptr[t], snap[t])
             /\ \A k \in DOMAIN snap[t].links :
                  /\ scxPtr[snap[t].links[k].node] = tagptr[t]
                  /\ field[snap[t].links[k].node] = snap[t].links[k].fields
                  /\ marked[snap[t].links[k].node] => snap[t].links[k].node \in snap[t].finalize
                  /\ snap[t].links[k].node \in snap[t].finalize => marked[snap[t].links[k].node]
             /\ InProgress(tagptr[t])
             /\ AllFrozen(tagptr[t])
             /\ tagptr[t] \notin applied
             /\ n \notin snap[t].finalize
             /\ ~marked[n]
             /\ field' = [field EXCEPT ![n][snap[t].field] = tagptr[t]]
             /\ applied' = applied \cup {tagptr[t]}
             /\ pc' = [pc EXCEPT ![t] = "commit"]
             /\ UNCHANGED <<marked, scxPtr, held, mutables, desc, tagptr, snap, i, link>>
<1>. DEFINE g == tagptr[t]  d == snap[t]  n == d.links[1].node
<1>1. Helping(t) /\ pc[t] = "mark"
  BY DEF Updates, Update, Helping, GoTo
<1>2. n \in Node /\ d.field \in Field /\ WellFormed(d)
  BY <1>1, Helper DEF Plan, WellFormed
<1>3. /\ AllHad(g, d)
      /\ Current(g) => AllFrozen(g)
      /\ \A k \in DOMAIN d.links :
           k < i[t] /\ d.links[k].node \in d.finalize => marked[d.links[k].node]
  BY <1>1, Helper DEF HelpPhase
<1>4. \A k \in DOMAIN d.links : k < i[t]
  <2>1. i[t] > Len(d.links) /\ i[t] \in Nat
    BY DEF Updates, Update, ScxInv, Types, Index
  <2>. QED  BY <1>1, <2>1, Helper
<1>5. Applied(g, d) /\ Outcome(g, d) /\ Untouched(g, d)
  BY <1>1, Helper DEF Plan
<1>6. g \notin applied
  BY <1>5 DEF Applied, Updates
<1>7. InProgress(g)
  <2>1. ~Doomed(g, d)
    BY <1>3 DEF AllHad, Doomed
  <2>. QED  BY <1>5, <1>6, <2>1 DEF Outcome, Decided
<1>8. \A k \in DOMAIN d.links :
        /\ scxPtr[d.links[k].node] = g
        /\ field[d.links[k].node] = d.links[k].fields
        /\ marked[d.links[k].node] => d.links[k].node \in d.finalize
  <2>1. \A k \in DOMAIN d.links : g \in held[d.links[k].node] /\ d.links[k].node \in Node
    BY <1>1, <1>3, Helper DEF AllHad, Had
  <2>2. \A k \in DOMAIN d.links : scxPtr[d.links[k].node] = g
    BY <1>7, <2>1 DEF ScxInv, StaysFrozen
  <2>. QED  BY <1>3, <1>5, <1>6, <1>7, <2>2 DEF Untouched, AllHad
<1>9. n \notin d.finalize
  <2>1. SUFFICES ASSUME n \in d.finalize PROVE FALSE
    OBVIOUS
  <2>2. PICK k \in 2 .. Len(d.links) : d.links[k].node = n
    BY <1>2, <2>1 DEF WellFormed
  <2>3. k \in DOMAIN d.links /\ 1 \in DOMAIN d.links
    BY <1>1, Helper
  <2>. QED  BY <1>1, <2>2, <2>3, Helper
<1>10. /\ field' = [field EXCEPT ![n][d.field] = g]
       /\ applied' = applied \cup {g}
       /\ pc' = [pc EXCEPT ![t] = "commit"]
       /\ UNCHANGED <<marked, scxPtr, held, mutables, desc, tagptr, snap, i, link>>
  BY DEF Updates, Update, GoTo, descriptor
<1>11. AllFrozen(g)
  BY <1>3, <1>7 DEF InProgress
<1>12. ~marked[n]
  BY <1>1, <1>8, <1>9, Helper
<1>. QED
  BY <1>1, <1>2, <1>3, <1>4, <1>6, <1>7, <1>8, <1>9, <1>10, <1>11, <1>12

(* Only an scx that cannot succeed any more is aborted...                   *)
LEMMA AbortFacts ==
  ASSUME ScxInv, NEW t \in Thread, Abort(t)
  PROVE  /\ Helping(t)
         /\ Doomed(tagptr[t], snap[t])
         /\ tagptr[t] \notin applied
         /\ Current(tagptr[t]) => ~StateIs(tagptr[t], "COMMITTED")
         /\ \A p \in Thread :
              /\ mutables'[p].seq = mutables[p].seq
              /\ mutables'[p].allFrozen = mutables[p].allFrozen
              /\ mutables'[p].state = IF Current(tagptr[t]) /\ p = tagptr[t][1]
                                      THEN "ABORTED" ELSE mutables[p].state
         /\ pc' = [pc EXCEPT ![t] = "return"]
         /\ result' = [result EXCEPT ![t] = "ABORTED"]
         /\ UNCHANGED <<marked, scxPtr, held, field, desc, applied, tagptr, snap, i, link>>
<1>1. Helping(t) /\ pc[t] = "abort"
  BY DEF Abort, Helping, GoTo
<1>2. Doomed(tagptr[t], snap[t])
  BY <1>1, Helper DEF HelpPhase
<1>3. tagptr[t] \notin applied
  BY <1>1, <1>2, Helper DEF Plan, Applied, AllHad, Doomed
<1>4. Current(tagptr[t]) => ~StateIs(tagptr[t], "COMMITTED")
  BY <1>1, <1>3, Helper DEF Plan, Outcome
<1>5. \A p \in Thread :
        /\ mutables'[p].seq = mutables[p].seq
        /\ mutables'[p].allFrozen = mutables[p].allFrozen
        /\ mutables'[p].state = IF Current(tagptr[t]) /\ p = tagptr[t][1]
                                THEN "ABORTED" ELSE mutables[p].state
  BY <1>1, Helper, WriteStateEffect DEF Abort, ScxInv, Types, State
<1>. QED
  BY <1>1, <1>2, <1>3, <1>4, <1>5 DEF Abort, GoTo, node

(* ...and only one that has taken effect is committed.                      *)
LEMMA CommitFacts ==
  ASSUME ScxInv, NEW t \in Thread, CommitState(t)
  PROVE  /\ Helping(t)
         /\ tagptr[t] \in applied
         /\ Current(tagptr[t]) => ~StateIs(tagptr[t], "ABORTED")
         /\ \A p \in Thread :
              /\ mutables'[p].seq = mutables[p].seq
              /\ mutables'[p].allFrozen = mutables[p].allFrozen
              /\ mutables'[p].state = IF Current(tagptr[t]) /\ p = tagptr[t][1]
                                      THEN "COMMITTED" ELSE mutables[p].state
         /\ pc' = [pc EXCEPT ![t] = "return"]
         /\ result' = [result EXCEPT ![t] = "COMMITTED"]
         /\ UNCHANGED <<marked, scxPtr, held, field, desc, applied, tagptr, snap, i, link>>
<1>1. Helping(t) /\ pc[t] = "commit"
  BY DEF CommitState, Helping, GoTo
<1>2. tagptr[t] \in applied
  BY <1>1, Helper DEF HelpPhase
<1>3. ~Doomed(tagptr[t], snap[t])
  BY <1>1, <1>2, Helper DEF Plan, Applied, AllHad, Doomed
<1>4. Current(tagptr[t]) => ~StateIs(tagptr[t], "ABORTED")
  BY <1>1, <1>3, Helper DEF Plan, Outcome
<1>5. \A p \in Thread :
        /\ mutables'[p].seq = mutables[p].seq
        /\ mutables'[p].allFrozen = mutables[p].allFrozen
        /\ mutables'[p].state = IF Current(tagptr[t]) /\ p = tagptr[t][1]
                                THEN "COMMITTED" ELSE mutables[p].state
  BY <1>1, Helper, WriteStateEffect DEF CommitState, ScxInv, Types, State
<1>. QED
  BY <1>1, <1>2, <1>4, <1>5 DEF CommitState, GoTo, node

(* The bit allFrozen is written when all nodes have been frozen.            *)
LEMMA AllFrozenFacts ==
  ASSUME ScxInv, NEW t \in Thread, WriteAllFrozen(t)
  PROVE  /\ Helping(t)
         /\ AllHad(tagptr[t], snap[t])
         /\ \A p \in Thread :
              /\ mutables'[p].seq = mutables[p].seq
              /\ mutables'[p].state = mutables[p].state
              /\ Current(tagptr[t]) /\ p = tagptr[t][1] => mutables'[p].allFrozen
              /\ ~(Current(tagptr[t]) /\ p = tagptr[t][1]) =>
                   mutables'[p].allFrozen = mutables[p].allFrozen
         /\ pc' = [pc EXCEPT ![t] = "mark"]
         /\ i' = [i EXCEPT ![t] = 1]
         /\ UNCHANGED <<marked, scxPtr, held, field, desc, applied, tagptr, snap, link>>
<1>1. Helping(t) /\ pc[t] = "freeze"
  BY DEF WriteAllFrozen, Helping, GoTo
<1>2. \A k \in DOMAIN snap[t].links : k < i[t]
  <2>1. i[t] > Len(snap[t].links) /\ i[t] \in Nat
    BY DEF WriteAllFrozen, ScxInv, Types, Index
  <2>. QED  BY <1>1, <2>1, Helper
<1>3. AllHad(tagptr[t], snap[t])
  BY <1>1, <1>2, Helper DEF HelpPhase, AllHad
<1>4. \A p \in Thread :
        /\ mutables'[p].seq = mutables[p].seq
        /\ mutables'[p].state = mutables[p].state
        /\ Current(tagptr[t]) /\ p = tagptr[t][1] => mutables'[p].allFrozen
        /\ ~(Current(tagptr[t]) /\ p = tagptr[t][1]) =>
             mutables'[p].allFrozen = mutables[p].allFrozen
  BY <1>1, Helper, SetAllFrozenEffect DEF WriteAllFrozen, ScxInv, Types
<1>. QED
  BY <1>1, <1>3, <1>4 DEF WriteAllFrozen, GoTo, node

(* The sequence numbers: only the owner of a descriptor moves it on.        *)
LEMMA SeqStep ==
  ASSUME ScxInv, NEW t \in Thread, Step(t) \/ Call(t), NEW p \in Thread
  PROVE  \/ mutables'[p].seq = mutables[p].seq
         \/ /\ mutables'[p].seq = mutables[p].seq + 1
            /\ p = t
            /\ ScxInitialized(t) \/ ScxReturn(t)
<1>1. CASE Quiet(t)
  BY <1>1 DEF Quiet, Shared
<1>2. CASE Freezes(t)
  BY <1>2, FreezeFacts
<1>3. CASE Marks(t)
  BY <1>3, MarkFacts
<1>4. CASE Updates(t)
  BY <1>4, UpdateFacts
<1>5. CASE Abort(t)
  BY <1>5, AbortFacts
<1>6. CASE WriteAllFrozen(t)
  BY <1>6, AllFrozenFacts
<1>7. CASE CommitState(t)
  BY <1>7, CommitFacts
<1>8. CASE ScxInitialized(t)
  <2>1. mutables \in [Thread -> Mutables]
    BY DEF ScxInv, Types
  <2>2. /\ mutables'[t].seq = mutables[t].seq + 1
        /\ \A q \in Thread : q # t => mutables'[q] = mutables[q]
    BY <1>8, <2>1, InitializedEffect DEF ScxInitialized
  <2>. QED  BY <1>8, <2>2
<1>9. CASE ScxReturn(t)
  <2>1. mutables \in [Thread -> Mutables]
    BY DEF ScxInv, Types
  <2>2. /\ mutables'[t].seq = mutables[t].seq + 1
        /\ \A q \in Thread : q # t => mutables'[q] = mutables[q]
    BY <1>9, <2>1, NewEffect DEF ScxReturn
  <2>. QED  BY <1>9, <2>2
<1>. QED
  BY <1>1, <1>2, <1>3, <1>4, <1>5, <1>6, <1>7, <1>8, <1>9, Kinds

(* A tag stays started; a descriptor does not come back to a tag; and what  *)
(* is frozen or decided stays so.                                           *)
LEMMA TagEvolves ==
  ASSUME ScxInv, NEW t \in Thread, Step(t) \/ Call(t), NEW g \in Tag, Started(g)
  PROVE  /\ Started(g)'
         /\ Current(g)' => /\ Current(g)
                           /\ AllFrozen(g) => AllFrozen(g)'
                           /\ Decided(g) => mutables'[g[1]].state = mutables[g[1]].state
         /\ Decided(g) => Decided(g)'
<1>1. CASE g = INIT_SCX_HANDLE
  BY <1>1 DEF Started, Current, Decided, InProgress
<1>2. CASE g # INIT_SCX_HANDLE
  <2>. DEFINE p == g[1]
  <2>1. p \in Thread /\ g[2] \in Nat /\ mutables[p].seq \in Nat
    BY <1>2, TagForm DEF ScxInv, Types, Mutables
  <2>2. g[2] <= mutables[p].seq /\ (Current(g) => tagptr[p] = g /\ Helping(p))
    BY <1>2 DEF Started
  <2>3. CASE mutables'[p].seq = mutables[p].seq + 1
    <3>1. g[2] <= mutables'[p].seq /\ g[2] # mutables'[p].seq
      BY <2>1, <2>2, <2>3
    <3>2. ~Current(g)'
      BY <3>1 DEF Current
    <3>. QED  BY <3>1, <3>2 DEF Started, Decided, InProgress
  <2>4. CASE mutables'[p].seq = mutables[p].seq
    <3>1. Current(g)' <=> Current(g)
      BY <2>4 DEF Current
    <3>2. ASSUME Current(g)
          PROVE  tagptr'[p] = g /\ Helping(p)'
      <4>1. CASE p # t
        BY <2>1, <2>2, <3>2, <4>1, OnlyOwn DEF ScxInv, Private, Helping
      <4>2. CASE p = t
        <5>1. Helping(t) /\ Owner(t)
          BY <2>2, <3>2, <4>2 DEF Owner
        <5>2. ~LlxReturn(t)
          BY <5>1 DEF LlxReturn
        <5>3. ~ScxReturn(t)
          <6>1. ScxReturn(t) => mutables'[t].seq = mutables[t].seq + 1
            BY NewEffect DEF ScxReturn, ScxInv, Types
          <6>. QED  BY <2>1, <2>4, <4>2, <6>1
        <5>. QED  BY <2>2, <3>2, <4>2, <5>1, <5>2, <5>3, StaysHelping DEF ScxInv
      <4>. QED  BY <4>1, <4>2
    <3>3. Started(g)'
      BY <2>2, <2>4, <3>1, <3>2 DEF Started
    <3>4. ASSUME Current(g)
          PROVE  /\ AllFrozen(g) => AllFrozen(g)'
                 /\ Decided(g) => mutables'[p].state = mutables[p].state
      <4>1. CASE \/ Quiet(t) \/ Freezes(t) \/ Marks(t) \/ Updates(t)
        BY <4>1, FreezeFacts, MarkFacts, UpdateFacts DEF Quiet, Shared, AllFrozen
      <4>2. CASE Abort(t)
        <5>1. Decided(g) => StateIs(g, "ABORTED") \/ StateIs(g, "COMMITTED")
          BY <2>1, <3>4 DEF Decided, InProgress, StateIs, ScxInv, Types, Mutables, State
        <5>2. p = tagptr[t][1] /\ Current(tagptr[t]) => g = tagptr[t]
          BY <1>2, <3>4, <4>2, TagForm, AbortFacts, Helper DEF Current
        <5>. QED  BY <2>1, <4>2, <5>1, <5>2, AbortFacts DEF AllFrozen, StateIs
      <4>3. CASE CommitState(t)
        <5>1. Decided(g) => StateIs(g, "ABORTED") \/ StateIs(g, "COMMITTED")
          BY <2>1, <3>4 DEF Decided, InProgress, StateIs, ScxInv, Types, Mutables, State
        <5>2. p = tagptr[t][1] /\ Current(tagptr[t]) => g = tagptr[t]
          BY <1>2, <3>4, <4>3, TagForm, CommitFacts, Helper DEF Current
        <5>. QED  BY <2>1, <4>3, <5>1, <5>2, CommitFacts DEF AllFrozen, StateIs
      <4>4. CASE WriteAllFrozen(t)
        BY <2>1, <4>4, AllFrozenFacts DEF AllFrozen
      <4>5. CASE ScxInitialized(t) \/ ScxReturn(t)
        <5>1. p # t
          <6>1. mutables'[t].seq = mutables[t].seq + 1
            BY <4>5, NewEffect, InitializedEffect DEF ScxReturn, ScxInitialized, ScxInv, Types
          <6>. QED  BY <2>1, <2>4, <6>1
        <5>2. mutables'[p] = mutables[p]
          BY <2>1, <4>5, <5>1, NewEffect, InitializedEffect DEF ScxReturn, ScxInitialized, ScxInv, Types
        <5>. QED  BY <5>2 DEF AllFrozen
      <4>. QED  BY <4>1, <4>2, <4>3, <4>4, <4>5, Kinds
    <3>5. Decided(g) => Decided(g)'
      BY <3>1, <3>4 DEF Decided, InProgress
    <3>. QED  BY <3>1, <3>3, <3>4, <3>5
  <2>. QED  BY <2>1, <2>3, <2>4, SeqStep
<1>. QED  BY <1>1, <1>2

(* A node: scxPtr does not come back to what it has been, and a node that   *)
(* is marked, or whose scxPtr is decided, does not change.                  *)
LEMMA NodeEvolves ==
  ASSUME ScxInv, NEW t \in Thread, Step(t) \/ Call(t), NEW n \in Node
  PROVE  /\ held[n] \subseteq held'[n]
         /\ scxPtr'[n] # scxPtr[n] => scxPtr'[n] \notin held[n] /\ ~marked[n]
         /\ marked[n] => marked'[n] /\ field'[n] = field[n]
         /\ field'[n] # field[n] \/ marked'[n] # marked[n] => InProgress(scxPtr[n])
         /\ applied \subseteq applied'
<1>0. /\ held \in [Node -> SUBSET Tag] /\ scxPtr \in [Node -> Tag]
      /\ marked \in [Node -> BOOLEAN] /\ field \in [Node -> Snapshot]
  BY DEF ScxInv, Types
<1>1. CASE Quiet(t)
  BY <1>1 DEF Quiet, Shared
<1>2. CASE Freezes(t)
  BY <1>0, <1>2, FreezeFacts
<1>3. CASE Marks(t)
  <2>. DEFINE m == snap[t].links[i[t]].node
  <2>1. /\ m \in Node
        /\ ~marked[m] => InProgress(scxPtr[m])
        /\ marked' = [marked EXCEPT ![m] = TRUE]
        /\ UNCHANGED <<scxPtr, held, field, applied>>
    BY <1>3, MarkFacts
  <2>. HIDE DEF m
  <2>. QED  BY <1>0, <2>1
<1>4. CASE Updates(t)
  <2>. DEFINE m == snap[t].links[1].node
  <2>1. /\ m \in Node
        /\ ~marked[m]
        /\ InProgress(scxPtr[m])
        /\ field' = [field EXCEPT ![m][snap[t].field] = tagptr[t]]
        /\ applied \subseteq applied'
        /\ UNCHANGED <<scxPtr, held, marked>>
    <3>1. Helping(t) /\ InProgress(tagptr[t])
      BY <1>4, UpdateFacts
    <3>2. 1 \in DOMAIN snap[t].links
      BY <3>1, Helper
    <3>3. scxPtr[m] = tagptr[t]
      BY <1>4, <3>2, UpdateFacts
    <3>. QED  BY <1>4, <3>1, <3>3, UpdateFacts
  <2>2. n # m => field'[n] = field[n]
    BY <1>0, <2>1
  <2>. HIDE DEF m
  <2>. QED  BY <2>1, <2>2
<1>5. CASE Abort(t)
  BY <1>5, AbortFacts
<1>6. CASE WriteAllFrozen(t)
  BY <1>6, AllFrozenFacts
<1>7. CASE CommitState(t)
  BY <1>7, CommitFacts
<1>8. CASE ScxInitialized(t)
  BY <1>8 DEF ScxInitialized, node
<1>9. CASE ScxReturn(t)
  BY <1>9 DEF ScxReturn, node
<1>. QED
  BY <1>1, <1>2, <1>3, <1>4, <1>5, <1>6, <1>7, <1>8, <1>9, Kinds

(* What llx has seen stays good, or is seen to be out of date.              *)
LEMMA GoodStays ==
  ASSUME ScxInv, NEW t \in Thread, Step(t) \/ Call(t), NEW e \in Link, Good(e)
  PROVE  Good(e)'
<1>1. e.node \in Node /\ e.scxPtr \in Tag
  BY DEF Link
<1>2. e.scxPtr \in held[e.node] /\ Decided(e.scxPtr)
      /\ (scxPtr[e.node] = e.scxPtr => e.fields = field[e.node] /\ ~marked[e.node])
  BY DEF Good
<1>3. Started(e.scxPtr)
  BY <1>1, <1>2 DEF ScxInv, Tags
<1>4. Decided(e.scxPtr)'
  BY <1>1, <1>2, <1>3, TagEvolves
<1>5. e.scxPtr \in held'[e.node]
  BY <1>1, <1>2, NodeEvolves
<1>6. ASSUME scxPtr'[e.node] = e.scxPtr
      PROVE  e.fields = field'[e.node] /\ ~marked'[e.node]
  <2>1. scxPtr[e.node] = e.scxPtr
    BY <1>1, <1>2, <1>6, NodeEvolves
  <2>2. field'[e.node] = field[e.node] /\ marked'[e.node] = marked[e.node]
    BY <1>1, <1>2, <2>1, NodeEvolves DEF Decided
  <2>. QED  BY <1>2, <2>1, <2>2
<1>. QED  BY <1>4, <1>5, <1>6 DEF Good

(* An expected scxPtr that has gone does not come back.                     *)
LEMMA MovedStays ==
  ASSUME ScxInv, NEW t \in Thread, Step(t) \/ Call(t), NEW d \in Desc, NEW k \in DOMAIN d.links,
         Good(d.links[k]), Moved(d, k)
  PROVE  Moved(d, k)'
<1>1. d.links[k].node \in Node
  BY LinkTypes
<1>2. d.links[k].scxPtr \in held[d.links[k].node]
  BY DEF Good
<1>. QED  BY <1>1, <1>2, NodeEvolves DEF Moved

(* A descriptor that has been filled in stays well formed.                  *)
LEMMA WellFormedStays ==
  ASSUME ScxInv, NEW t \in Thread, Step(t) \/ Call(t), NEW d, WellFormed(d)
  PROVE  WellFormed(d)'
<1>1. /\ d \in Desc /\ d.links # <<>> /\ Increasing(d.links)
      /\ \A k \in DOMAIN d.links : Good(d.links[k])
      /\ d.finalize \subseteq {d.links[k].node : k \in 2 .. Len(d.links)}
      /\ d.field \in Field
      /\ d.oldVal \in applied \cup {INIT_SCX_HANDLE}
      /\ ~Moved(d, 1) => d.oldVal = d.links[1].fields[d.field]
  BY DEF WellFormed
<1>2. d.links \in Seq(Link) /\ \A k \in DOMAIN d.links : d.links[k] \in Link
  BY <1>1, LinkTypes
<1>3. 1 \in DOMAIN d.links
  BY <1>1, <1>2
<1>4. \A k \in DOMAIN d.links : Good(d.links[k])'
  BY <1>1, <1>2, GoodStays
<1>5. applied \subseteq applied'
  BY <1>2, <1>3, NodeEvolves DEF Link
<1>6. ~Moved(d, 1)' => d.oldVal = d.links[1].fields[d.field]
  BY <1>1, <1>3, MovedStays
<1>. QED  BY <1>1, <1>4, <1>5, <1>6 DEF WellFormed, Increasing

(* Only a freezing CAS that succeeds adds to what a node has been.          *)
LEMMA HeldStep ==
  ASSUME ScxInv, NEW t \in Thread, Step(t) \/ Call(t), NEW n \in Node, NEW g,
         g \in held'[n], g \notin held[n]
  PROVE  Freezes(t) /\ g = tagptr[t] /\ n = snap[t].links[i[t]].node
<1>1. CASE Freezes(t)
  BY <1>1, FreezeFacts DEF ScxInv, Types
<1>2. CASE ~Freezes(t)
  <2>1. held' = held
    BY <1>2, Kinds, MarkFacts, UpdateFacts, AbortFacts, AllFrozenFacts, CommitFacts
       DEF Quiet, Shared, ScxInitialized, ScxReturn, node
  <2>. QED  BY <2>1
<1>. QED  BY <1>1, <1>2

(* A thread that freezes a node of the scx with tag g has the descriptor of *)
(* the others that help it, and is at the entry of that node.               *)
LEMMA SameEntry ==
  ASSUME ScxInv, NEW t \in Thread, Freezes(t), NEW v \in Thread, Helping(v), tagptr[t] = tagptr[v],
         NEW k \in DOMAIN snap[v].links, snap[t].links[i[t]].node = snap[v].links[k].node
  PROVE  snap[t] = snap[v] /\ i[t] = k
<1>1. Helping(t) /\ i[t] \in DOMAIN snap[t].links
  BY FreezeFacts
<1>2. snap[t] = snap[v]
  BY <1>1 DEF ScxInv, SamePlan
<1>3. \A j, l \in DOMAIN snap[v].links : snap[v].links[j].node = snap[v].links[l].node => j = l
  BY Helper
<1>. QED  BY <1>1, <1>2, <1>3

(* An scx that cannot succeed any more does not freeze the node that it has *)
(* missed.                                                                  *)
LEMMA DoomedStays ==
  ASSUME ScxInv, NEW t \in Thread, Step(t) \/ Call(t), NEW v \in Thread, Helping(v),
         NEW g, NEW d, g = tagptr[v], d = snap[v], Doomed(g, d)
  PROVE  Doomed(g, d)'
<1>1. PICK k \in DOMAIN d.links : ~Had(g, d, k) /\ Moved(d, k)
  BY DEF Doomed
<1>2. d \in Desc /\ Good(d.links[k]) /\ d.links[k].node \in Node
  BY Helper DEF Plan, WellFormed
<1>3. Moved(d, k)'
  BY <1>1, <1>2, MovedStays
<1>4. ~Had(g, d, k)'
  <2>1. SUFFICES ASSUME g \in held'[d.links[k].node] PROVE FALSE
    BY DEF Had
  <2>2. g \notin held[d.links[k].node]
    BY <1>1 DEF Had
  <2>3. Freezes(t) /\ g = tagptr[t] /\ d.links[k].node = snap[t].links[i[t]].node
    BY <1>2, <2>1, <2>2, HeldStep
  <2>4. snap[t] = d /\ i[t] = k
    <3>1. /\ tagptr[t] = tagptr[v] /\ k \in DOMAIN snap[v].links
          /\ snap[t].links[i[t]].node = snap[v].links[k].node
      BY <2>3
    <3>. QED  BY <2>3, <3>1, SameEntry
  <2>5. scxPtr[d.links[k].node] = d.links[k].scxPtr
    BY <2>3, <2>4, FreezeFacts
  <2>. QED  BY <1>1, <2>5 DEF Moved
<1>. QED  BY <1>3, <1>4 DEF Doomed

(* Only an update CAS that succeeds changes a field.                        *)
LEMMA FieldStep ==
  ASSUME ScxInv, NEW t \in Thread, Step(t) \/ Call(t)
  PROVE  Updates(t) \/ UNCHANGED <<field, applied>>
  BY Kinds, FreezeFacts, MarkFacts, AbortFacts, AllFrozenFacts, CommitFacts
     DEF Quiet, Shared, ScxInitialized, ScxReturn, node

(* Only the marking of a node to be finalized changes a mark.               *)
LEMMA MarkedStep ==
  ASSUME ScxInv, NEW t \in Thread, Step(t) \/ Call(t)
  PROVE  Marks(t) \/ UNCHANGED marked
  BY Kinds, FreezeFacts, UpdateFacts, AbortFacts, AllFrozenFacts, CommitFacts
     DEF Quiet, Shared, ScxInitialized, ScxReturn, node

(* An scx goes on freezing its nodes, and no others, in their order.        *)
LEMMA FreezingStays ==
  ASSUME ScxInv, NEW t \in Thread, Step(t) \/ Call(t), NEW v \in Thread, Helping(v),
         NEW g, NEW d, g = tagptr[v], d = snap[v]
  PROVE  Freezing(g, d)'
<1>. DEFINE m == snap[t].links[i[t]].node
<1>1. Freezing(g, d) /\ WellFormed(d) /\ d \in Desc
  BY Helper DEF Plan, WellFormed
<1>2. \A k \in DOMAIN d.links : d.links[k].node \in Node /\ Good(d.links[k])
  BY <1>1, Helper DEF WellFormed
<1>3. ASSUME NEW k \in DOMAIN d.links, Had(g, d, k)', ~Had(g, d, k)
      PROVE  Freezes(t) /\ tagptr[t] = g /\ snap[t] = d /\ i[t] = k /\ m = d.links[k].node
  <2>1. Freezes(t) /\ tagptr[t] = g /\ m = d.links[k].node
    BY <1>2, <1>3, HeldStep DEF Had
  <2>2. snap[t] = d /\ i[t] = k
    BY <2>1, SameEntry
  <2>. QED  BY <2>1, <2>2
<1>4. ASSUME NEW k \in DOMAIN d.links, Had(g, d, k)'
      PROVE  Moved(d, k)'
  <2>1. CASE Had(g, d, k)
    BY <1>1, <1>2, <2>1, MovedStays DEF Freezing
  <2>2. CASE ~Had(g, d, k)
    <3>1. Freezes(t) /\ tagptr[t] = g /\ snap[t] = d /\ i[t] = k /\ m = d.links[k].node
      BY <1>3, <1>4, <2>2
    <3>2. /\ m \in Node
          /\ scxPtr' = [scxPtr EXCEPT ![m] = tagptr[t]]
          /\ tagptr[t] # scxPtr[m]
          /\ scxPtr[m] = d.links[k].scxPtr
      BY <3>1, FreezeFacts
    <3>3. scxPtr'[m] = g
      BY <3>1, <3>2 DEF ScxInv, Types
    <3>. QED  BY <3>1, <3>2, <3>3 DEF Moved
  <2>. QED  BY <2>1, <2>2
<1>5. ASSUME NEW j \in DOMAIN d.links, NEW k \in DOMAIN d.links, j < k, Had(g, d, k)'
      PROVE  Had(g, d, j)'
  <2>1. CASE Had(g, d, k)
    <3>1. Had(g, d, j)
      BY <1>1, <1>5, <2>1 DEF Freezing
    <3>. QED  BY <1>2, <3>1, NodeEvolves DEF Had
  <2>2. CASE ~Had(g, d, k)
    <3>1. Freezes(t) /\ tagptr[t] = g /\ snap[t] = d /\ i[t] = k
      BY <1>3, <1>5, <2>2
    <3>2. pc[t] = "freeze" /\ Helping(t)
      BY <3>1 DEF Freezes, Freeze, Helping
    <3>4. HelpPhase(t, g, d)
      BY <3>1, <3>2, Helper
    <3>3. Had(g, d, j)
      BY <1>5, <3>1, <3>2, <3>4 DEF HelpPhase
    <3>. QED  BY <1>2, <3>3, NodeEvolves DEF Had
  <2>. QED  BY <2>1, <2>2
<1>6. ASSUME NEW n \in Node, g \in held'[n]
      PROVE  \E k \in DOMAIN d.links : d.links[k].node = n
  <2>1. CASE g \in held[n]
    BY <1>1, <2>1 DEF Freezing
  <2>2. CASE g \notin held[n]
    <3>1. Freezes(t) /\ g = tagptr[t] /\ n = m
      BY <1>6, <2>2, HeldStep
    <3>2. Helping(t) /\ i[t] \in DOMAIN snap[t].links
      BY <3>1, FreezeFacts
    <3>3. snap[t] = d
      BY <3>1, <3>2 DEF ScxInv, SamePlan
    <3>. QED  BY <3>1, <3>2, <3>3
  <2>. QED  BY <2>1, <2>2
<1>7. ASSUME Had(g, d, 1)'
      PROVE  d.oldVal = d.links[1].fields[d.field]
  <2>1. 1 \in DOMAIN d.links
    BY Helper
  <2>2. CASE Had(g, d, 1)
    BY <1>1, <2>2 DEF Freezing
  <2>3. CASE ~Had(g, d, 1)
    <3>1. Freezes(t) /\ snap[t] = d /\ i[t] = 1 /\ m = d.links[1].node
      BY <1>3, <1>7, <2>1, <2>3
    <3>2. ~Moved(d, 1)
      BY <3>1, FreezeFacts DEF Moved
    <3>. QED  BY <1>1, <3>2 DEF WellFormed
  <2>. QED  BY <2>2, <2>3
<1>. QED
  BY <1>4, <1>5, <1>6, <1>7 DEF Freezing

(* An scx that has frozen all its nodes once has done so for ever.          *)
LEMMA AllHadStays ==
  ASSUME ScxInv, NEW t \in Thread, Step(t) \/ Call(t), NEW v \in Thread, Helping(v),
         NEW g, NEW d, d = snap[v], AllHad(g, d)
  PROVE  AllHad(g, d)'
<1>1. \A k \in DOMAIN d.links : d.links[k].node \in Node
  BY Helper
<1>. QED  BY <1>1, NodeEvolves DEF AllHad, Had

(* An scx that has written had frozen all its nodes and marked those to     *)
(* finalize, and its field does not go back to the old value.               *)
LEMMA AppliedStays ==
  ASSUME ScxInv, NEW t \in Thread, Step(t) \/ Call(t), NEW v \in Thread, Helping(v),
         NEW g, NEW d, g = tagptr[v], d = snap[v]
  PROVE  Applied(g, d)'
<1>1. Applied(g, d) /\ WellFormed(d) /\ d.finalize \subseteq Node
  BY Helper DEF Plan
<1>2. d.links[1].node \in Node /\ d.oldVal \in applied \cup {INIT_SCX_HANDLE} /\ d.field \in Field
  BY <1>1, Helper DEF WellFormed
<1>3. CASE g \in applied
  <2>1. /\ AllHad(g, d)
        /\ \A n \in d.finalize : marked[n]
        /\ field[d.links[1].node][d.field] # d.oldVal
    BY <1>1, <1>3 DEF Applied
  <2>2. AllHad(g, d)'
    BY <2>1, AllHadStays
  <2>3. \A n \in d.finalize : marked'[n]
    BY <1>1, <2>1, NodeEvolves
  <2>4. field'[d.links[1].node][d.field] # d.oldVal
    <3>1. CASE Updates(t)
      <4>. DEFINE m == snap[t].links[1].node  f == snap[t].field
      <4>1. /\ m \in Node /\ f \in Field
            /\ field' = [field EXCEPT ![m][f] = tagptr[t]]
            /\ tagptr[t] \notin applied
            /\ tagptr[t] # INIT_SCX_HANDLE
        BY <3>1, UpdateFacts, Helper
      <4>2. field \in [Node -> [Field -> Tag]]
        BY DEF ScxInv, Types, Snapshot, Value
      <4>. HIDE DEF m, f
      <4>3. \/ field'[d.links[1].node][d.field] = field[d.links[1].node][d.field]
            \/ field'[d.links[1].node][d.field] = tagptr[t]
        BY <1>2, <4>1, <4>2
      <4>. QED  BY <1>2, <2>1, <4>1, <4>3
    <3>2. CASE ~Updates(t)
      BY <2>1, <3>2, FieldStep
    <3>. QED  BY <3>1, <3>2
  <2>. QED  BY <2>2, <2>3, <2>4 DEF Applied
<1>4. CASE g \notin applied /\ g \in applied'
  <2>1. Updates(t)
    BY <1>4, FieldStep
  <2>6. Helping(t) /\ applied' = applied \cup {tagptr[t]} /\ AllHad(tagptr[t], snap[t])
    BY <2>1, UpdateFacts
  <2>7. g = tagptr[t]
    BY <1>4, <2>6
  <2>2. g = tagptr[t] /\ snap[t] = d
    BY <2>6, <2>7 DEF ScxInv, SamePlan
  <2>3. AllHad(g, d)'
    BY <2>2, <2>6, AllHadStays
  <2>4. \A n \in d.finalize : marked'[n]
    <3>1. ASSUME NEW n \in d.finalize
          PROVE  marked[n]
      <4>1. PICK k \in 2 .. Len(d.links) : d.links[k].node = n
        BY <1>1 DEF WellFormed
      <4>2. k \in DOMAIN d.links
        BY Helper
      <4>. QED  BY <2>1, <2>2, <4>1, <4>2, UpdateFacts
    <3>2. marked' = marked
      BY <2>1, UpdateFacts
    <3>. QED  BY <3>1, <3>2
  <2>5. field'[d.links[1].node][d.field] # d.oldVal
    <3>4. field' = [field EXCEPT ![snap[t].links[1].node][snap[t].field] = tagptr[t]]
      BY <2>1, UpdateFacts
    <3>5. g # INIT_SCX_HANDLE
      BY Helper
    <3>1. /\ field' = [field EXCEPT ![d.links[1].node][d.field] = g]
          /\ g \notin applied
          /\ g # INIT_SCX_HANDLE
      BY <1>4, <2>2, <3>4, <3>5
    <3>2. field \in [Node -> [Field -> Tag]]
      BY DEF ScxInv, Types, Snapshot, Value
    <3>3. field'[d.links[1].node][d.field] = g
      BY <1>2, <3>1, <3>2
    <3>. QED  BY <1>2, <3>1, <3>3
  <2>. QED  BY <2>3, <2>4, <2>5 DEF Applied
<1>. QED
  BY <1>3, <1>4 DEF Applied

(* What a step does to the descriptor of an scx: its owner lets it go when  *)
(* the scx is decided, and before that the helpers of the scx write it.     *)
LEMMA DescriptorStep ==
  ASSUME ScxInv, NEW t \in Thread, Step(t) \/ Call(t), NEW g \in Tag, g # INIT_SCX_HANDLE,
         Started(g), Current(g)
  PROVE  \/ /\ Current(g)'
            /\ mutables'[g[1]].state = mutables[g[1]].state
            /\ AllFrozen(g)' = AllFrozen(g)
         \/ /\ Abort(t) /\ tagptr[t] = g
            /\ Current(g)'
            /\ mutables'[g[1]].state = "ABORTED"
            /\ AllFrozen(g)' = AllFrozen(g)
         \/ /\ CommitState(t) /\ tagptr[t] = g
            /\ Current(g)'
            /\ mutables'[g[1]].state = "COMMITTED"
            /\ AllFrozen(g)' = AllFrozen(g)
         \/ /\ WriteAllFrozen(t) /\ tagptr[t] = g
            /\ Current(g)'
            /\ mutables'[g[1]].state = mutables[g[1]].state
            /\ AllFrozen(g)'
         \/ /\ ScxReturn(t) /\ tagptr[t] = g
            /\ ~Current(g)'
            /\ Decided(g)
<1>. DEFINE p == g[1]
<1>1. p \in Thread /\ g[2] \in Nat /\ mutables[p].seq \in Nat /\ mutables[p].seq = g[2]
  BY TagForm DEF ScxInv, Types, Mutables, Current
<1>2. tagptr[p] = g /\ Helping(p)
  BY DEF Started
<1>3. ASSUME Helping(t), Current(tagptr[t]), p = tagptr[t][1]
      PROVE  g = tagptr[t]
  <2>1. tagptr[t] \in Tag /\ tagptr[t] # INIT_SCX_HANDLE
    BY <1>3, Helper
  <2>. QED  BY <1>3, <2>1, TagForm DEF Current
<1>4. CASE \/ Quiet(t) \/ Freezes(t) \/ Marks(t) \/ Updates(t)
  <2>1. mutables' = mutables
    BY <1>4, FreezeFacts, MarkFacts, UpdateFacts DEF Quiet, Shared
  <2>. QED  BY <2>1 DEF Current, AllFrozen
<1>5. CASE Abort(t)
  BY <1>1, <1>3, <1>5, AbortFacts DEF Current, AllFrozen
<1>6. CASE CommitState(t)
  BY <1>1, <1>3, <1>6, CommitFacts DEF Current, AllFrozen
<1>7. CASE WriteAllFrozen(t)
  BY <1>1, <1>3, <1>7, AllFrozenFacts DEF Current, AllFrozen
<1>8. CASE ScxInitialized(t)
  <2>1. p # t
    BY <1>2, <1>8 DEF ScxInitialized, GoTo, Helping
  <2>2. mutables'[p] = mutables[p]
    BY <1>1, <1>8, <2>1, InitializedEffect DEF ScxInitialized, ScxInv, Types
  <2>. QED  BY <2>2 DEF Current, AllFrozen
<1>9. CASE ScxReturn(t)
  <2>1. CASE p # t
    <3>1. mutables'[p] = mutables[p]
      BY <1>1, <1>9, <2>1, NewEffect DEF ScxReturn, ScxInv, Types
    <3>. QED  BY <3>1 DEF Current, AllFrozen
  <2>2. CASE p = t
    <3>1. pc[t] = "return"
      BY <1>9 DEF ScxReturn, Leave, GoTo
    <3>2. Decided(g)
      BY <1>2, <2>2, <3>1, Helper DEF HelpPhase
    <3>3. mutables'[p].seq = mutables[p].seq + 1
      BY <1>1, <1>9, <2>2, NewEffect DEF ScxReturn, ScxInv, Types
    <3>4. ~Current(g)'
      BY <1>1, <3>3 DEF Current
    <3>. QED  BY <1>2, <1>9, <2>2, <3>2, <3>4
  <2>. QED  BY <2>1, <2>2
<1>. QED
  BY <1>4, <1>5, <1>6, <1>7, <1>8, <1>9, Kinds

(* The immutable fields of a descriptor stay as they are while it belongs   *)
(* to an scx.                                                               *)
LEMMA DescStays ==
  ASSUME ScxInv, NEW t \in Thread, Step(t) \/ Call(t), NEW p \in Thread, Helping(p)
  PROVE  desc'[p] = desc[p]
<1>1. CASE p # t
  BY <1>1, OnlyOwn DEF Private, ScxInv
<1>2. CASE p = t
  <2>1. CASE ScxReturn(t) \/ LlxReturn(t)
    BY <2>1 DEF ScxReturn, LlxReturn, descriptor
  <2>2. CASE ~(ScxReturn(t) \/ LlxReturn(t))
    BY <1>2, <2>2, StaysHelping DEF ScxInv
  <2>. QED  BY <1>2, <2>1, <2>2
<1>. QED  BY <1>1, <1>2

(* An scx is aborted only if it is doomed and committed only if it has      *)
(* written.                                                                 *)
LEMMA OutcomeStays ==
  ASSUME ScxInv, NEW t \in Thread, Step(t) \/ Call(t), NEW v \in Thread, Helping(v),
         NEW g, NEW d, g = tagptr[v], d = snap[v]
  PROVE  Outcome(g, d)'
<1>1. Outcome(g, d) /\ g \in Tag /\ g # INIT_SCX_HANDLE /\ Started(g) /\ g[1] \in Thread
  BY Helper DEF Plan
<1>2. g \in applied => g \in applied'
  <2>1. snap[v].links[1].node \in Node
    BY Helper
  <2>. QED  BY <2>1, NodeEvolves
<1>3. Doomed(g, d) => Doomed(g, d)'
  BY DoomedStays
<1>4. Abort(t) /\ tagptr[t] = g => Doomed(g, d)
  <2>1. SUFFICES ASSUME Abort(t), tagptr[t] = g PROVE Doomed(g, d)
    OBVIOUS
  <2>2. Helping(t) /\ Doomed(tagptr[t], snap[t])
    BY <2>1, AbortFacts
  <2>3. snap[t] = d
    BY <2>1, <2>2 DEF ScxInv, SamePlan
  <2>. QED  BY <2>1, <2>2, <2>3
<1>5. CommitState(t) /\ tagptr[t] = g => g \in applied
  BY CommitFacts
<1>6. ASSUME Decided(g)'
      PROVE  g \in applied' \/ Doomed(g, d)'
  <2>1. CASE Decided(g)
    BY <1>1, <1>2, <1>3, <2>1 DEF Outcome
  <2>2. CASE ~Decided(g)
    <3>1. Current(g) /\ mutables[g[1]].state = "INPROGRESS"
      BY <2>2 DEF Decided, InProgress
    <3>2. (Abort(t) \/ CommitState(t)) /\ tagptr[t] = g
      BY <1>1, <1>6, <2>2, <3>1, DescriptorStep DEF Decided, InProgress
    <3>. QED  BY <1>2, <1>3, <1>4, <1>5, <3>2
  <2>. QED  BY <2>1, <2>2
<1>7. ASSUME Current(g)'
      PROVE  /\ d = desc'[g[1]]
             /\ AllFrozen(g)' => AllHad(g, d)'
             /\ g \in applied' => AllFrozen(g)'
             /\ StateIs(g, "ABORTED")' => Doomed(g, d)'
             /\ StateIs(g, "COMMITTED")' => g \in applied'
  <2>1. Current(g) /\ (AllFrozen(g) => AllFrozen(g)')
    BY <1>1, <1>7, TagEvolves
  <2>2. /\ d = desc[g[1]]
        /\ AllFrozen(g) => AllHad(g, d)
        /\ g \in applied => AllFrozen(g)
        /\ StateIs(g, "ABORTED") => Doomed(g, d)
        /\ StateIs(g, "COMMITTED") => g \in applied
    BY <1>1, <2>1 DEF Outcome
  <2>3. d = desc'[g[1]]
    <3>1. Helping(g[1])
      BY <1>1, <2>1 DEF Started
    <3>. QED  BY <1>1, <2>2, <3>1, DescStays
  <2>4. AllFrozen(g)' => AllHad(g, d)'
    <3>1. CASE WriteAllFrozen(t) /\ tagptr[t] = g
      <4>1. Helping(t) /\ AllHad(tagptr[t], snap[t])
        BY <3>1, AllFrozenFacts
      <4>2. snap[t] = d
        BY <3>1, <4>1 DEF ScxInv, SamePlan
      <4>3. AllHad(g, d)
        BY <3>1, <4>1, <4>2
      <4>. QED  BY <4>3, AllHadStays
    <3>2. CASE ~(WriteAllFrozen(t) /\ tagptr[t] = g)
      <4>1. AllFrozen(g)' => AllFrozen(g)
        BY <1>1, <1>7, <2>1, <3>2, DescriptorStep
      <4>. QED  BY <2>2, <4>1, AllHadStays
    <3>. QED  BY <3>1, <3>2
  <2>5. g \in applied' => AllFrozen(g)'
    <3>1. CASE Updates(t)
      <4>1. applied' = applied \cup {tagptr[t]} /\ AllFrozen(tagptr[t])
        BY <3>1, UpdateFacts
      <4>. QED  BY <2>1, <2>2, <4>1
    <3>2. CASE ~Updates(t)
      BY <2>1, <2>2, <3>2, FieldStep
    <3>. QED  BY <3>1, <3>2
  <2>6. StateIs(g, "ABORTED")' => Doomed(g, d)'
    BY <1>1, <1>3, <1>4, <1>7, <2>1, <2>2, DescriptorStep DEF StateIs
  <2>7. StateIs(g, "COMMITTED")' => g \in applied'
    BY <1>1, <1>2, <1>5, <1>7, <2>1, <2>2, DescriptorStep DEF StateIs
  <2>. QED  BY <2>3, <2>4, <2>5, <2>6, <2>7
<1>. QED
  BY <1>6, <1>7 DEF Outcome

(* What the nodes frozen for an undecided scx hold is what its llx saw, and *)
(* only its own marks are on them.                                          *)
LEMMA UntouchedStays ==
  ASSUME ScxInv, NEW t \in Thread, Step(t) \/ Call(t), NEW v \in Thread, Helping(v),
         NEW g, NEW d, g = tagptr[v], d = snap[v]
  PROVE  Untouched(g, d)'
<1>1. Untouched(g, d) /\ WellFormed(d) /\ g \in Tag /\ g # INIT_SCX_HANDLE /\ Started(g)
  BY Helper DEF Plan
<1>2. SUFFICES ASSUME InProgress(g)', g \notin applied',
                      NEW k \in DOMAIN d.links, Had(g, d, k)'
               PROVE  /\ field'[d.links[k].node] = d.links[k].fields
                      /\ marked'[d.links[k].node] => AllFrozen(g)' /\ d.links[k].node \in d.finalize
  BY DEF Untouched
<1>. DEFINE n == d.links[k].node
<1>3. n \in Node /\ Good(d.links[k])
  BY <1>1, Helper DEF WellFormed
<1>4. InProgress(g) /\ g \notin applied /\ (AllFrozen(g) => AllFrozen(g)')
  <2>1. Decided(g) => Decided(g)'
    BY <1>1, TagEvolves
  <2>2. InProgress(g)
    BY <1>2, <2>1 DEF Decided
  <2>3. Current(g)'
    BY <1>2 DEF InProgress
  <2>. QED  BY <1>1, <1>2, <1>3, <2>2, <2>3, TagEvolves, NodeEvolves
<1>5. CASE Had(g, d, k)
  <2>1. /\ field[n] = d.links[k].fields
        /\ marked[n] => AllFrozen(g) /\ n \in d.finalize
    BY <1>1, <1>4, <1>5 DEF Untouched
  <2>2. scxPtr[n] = g
    BY <1>3, <1>4, <1>5 DEF Had, ScxInv, StaysFrozen
  <2>3. field'[n] = field[n]
    <3>1. CASE Updates(t)
      <4>. DEFINE m == snap[t].links[1].node
      <4>1. /\ m \in Node /\ scxPtr[m] = tagptr[t]
            /\ field' = [field EXCEPT ![m][snap[t].field] = tagptr[t]]
            /\ applied' = applied \cup {tagptr[t]}
        BY <3>1, UpdateFacts, Helper
      <4>2. n # m
        BY <1>2, <2>2, <4>1
      <4>. HIDE DEF m, n
      <4>. QED  BY <1>3, <4>1, <4>2 DEF ScxInv, Types
    <3>2. CASE ~Updates(t)
      BY <3>2, FieldStep
    <3>. QED  BY <3>1, <3>2
  <2>4. marked'[n] => AllFrozen(g)' /\ n \in d.finalize
    <3>1. CASE marked[n]
      BY <1>4, <2>1, <3>1
    <3>2. CASE ~marked[n] /\ marked'[n]
      <4>. DEFINE m == snap[t].links[i[t]].node
      <4>1. Marks(t)
        BY <3>2, MarkedStep
      <4>2. m \in Node /\ marked' = [marked EXCEPT ![m] = TRUE] /\ Helping(t) /\ m \in snap[t].finalize
        BY <4>1, MarkFacts
      <4>3. n = m
        <5>. HIDE DEF m, n
        <5>. QED  BY <1>3, <3>2, <4>2 DEF ScxInv, Types
      <4>4. scxPtr[m] = tagptr[t] /\ AllFrozen(tagptr[t])
        BY <3>2, <4>1, <4>3, MarkFacts
      <4>5. tagptr[t] = g
        BY <2>2, <4>3, <4>4
      <4>6. snap[t] = d
        BY <4>2, <4>5 DEF ScxInv, SamePlan
      <4>. QED  BY <1>4, <4>2, <4>3, <4>4, <4>5, <4>6
    <3>3. CASE ~marked'[n]
      BY <3>3
    <3>. QED  BY <3>1, <3>2, <3>3
  <2>. QED  BY <2>1, <2>3, <2>4
<1>6. CASE ~Had(g, d, k)
  <2>1. Freezes(t) /\ tagptr[t] = g /\ n = snap[t].links[i[t]].node
    BY <1>2, <1>3, <1>6, HeldStep DEF Had
  <2>2. /\ Helping(t)
        /\ i[t] \in DOMAIN snap[t].links
        /\ snap[t].links[i[t]].fields = field[snap[t].links[i[t]].node]
        /\ ~marked[snap[t].links[i[t]].node]
        /\ UNCHANGED <<field, marked>>
    BY <2>1, FreezeFacts
  <2>3. snap[t] = d
    BY <2>1, <2>2 DEF ScxInv, SamePlan
  <2>4. i[t] = k
    BY <2>1, <2>2, <2>3, Helper
  <2>. QED  BY <2>2, <2>3, <2>4
<1>. QED  BY <1>5, <1>6

(* The scx that an owner begins is new: nothing has its tag.                *)
LEMMA InitializedFacts ==
  ASSUME ScxInv, NEW t \in Thread, ScxInitialized(t)
  PROVE  LET g == <<t, mutables[t].seq + 1>>
         IN  /\ ~Helping(t)
             /\ pc[t] = "scx"
             /\ pc' = [pc EXCEPT ![t] = "freeze"]
             /\ g \in Tag
             /\ g # INIT_SCX_HANDLE
             /\ \A n \in Node : g \notin held[n]
             /\ g \notin applied
             /\ \A v \in Thread : tagptr[v] # g
             /\ tagptr'[t] = g
             /\ snap'[t] = desc[t]
             /\ i'[t] = 1
             /\ mutables'[t].seq = mutables[t].seq + 1
             /\ mutables'[t].state = "INPROGRESS"
             /\ ~mutables'[t].allFrozen
             /\ UNCHANGED <<marked, scxPtr, held, field, applied, desc, link>>
<1>. DEFINE s == mutables[t].seq + 1  g == <<t, s>>
<1>1. pc[t] = "scx" /\ ~Helping(t) /\ ~Executing(t) /\ pc' = [pc EXCEPT ![t] = "freeze"]
  BY DEF ScxInitialized, GoTo, Helping, Executing
<1>2. /\ mutables[t].seq \in 2 .. MaxSeq(t)
      /\ mutables[t].seq < MaxSeq(t)
      /\ mutables[t].state = "INPROGRESS"
      /\ ~mutables[t].allFrozen
  BY <1>1 DEF ScxInv, Descriptors
<1>3. MaxSeq(t) \in Nat
  BY ScxAssumption DEF MaxSeq
<1>4. s \in 0 .. MaxSeq(t)
  BY <1>2, <1>3
<1>5. g \in Tag /\ g # INIT_SCX_HANDLE
  BY <1>4, TagForm
<1>6. ~Started(g)
  <2>1. g[1] = t /\ g[2] = s
    OBVIOUS
  <2>2. ~(s <= mutables[t].seq)
    BY <1>2, <1>3
  <2>. HIDE DEF g
  <2>. QED  BY <1>5, <2>1, <2>2 DEF Started
<1>. HIDE DEF g
<1>7. /\ \A n \in Node : g \notin held[n]
      /\ g \notin applied
      /\ \A v \in Thread : tagptr[v] # g
  BY <1>6 DEF ScxInv, Tags
<1>8. /\ tagptr' = [tagptr EXCEPT ![t] = g]
      /\ snap' = [snap EXCEPT ![t] = desc[t]]
      /\ i' = [i EXCEPT ![t] = 1]
      /\ mutables' = [mutables EXCEPT ![t].seq = @ + 1]
      /\ UNCHANGED <<marked, scxPtr, held, field, applied, desc, link>>
  BY DEF ScxInitialized, node, g
<1>9. tagptr'[t] = g /\ snap'[t] = desc[t] /\ i'[t] = 1
  BY <1>8 DEF ScxInv, Types
<1>10. /\ mutables'[t].seq = s
       /\ mutables'[t].state = "INPROGRESS"
       /\ ~mutables'[t].allFrozen
  BY <1>2, <1>8, InitializedEffect DEF ScxInv, Types
<1>. QED
  BY <1>1, <1>5, <1>7, <1>8, <1>9, <1>10 DEF g

(* Who helps after a step: who has helped the same scx before, the owner of *)
(* a new scx, or a thread that has found an scx current.                    *)
LEMMA HelpersStep ==
  ASSUME ScxInv, NEW t \in Thread, Step(t) \/ Call(t), NEW v \in Thread, Helping(v)'
  PROVE  \/ Helping(v) /\ tagptr'[v] = tagptr[v] /\ snap'[v] = snap[v]
         \/ v = t /\ ~Helping(t) /\ ScxInitialized(t)
         \/ /\ v = t /\ ~Helping(t)
            /\ HelpOtherCheck(t)
            /\ Current(tagptr[t])
            /\ pc[t] = "helpOther.check"
            /\ pc'[t] = "freeze"
            /\ i'[t] = 2
            /\ UNCHANGED <<node, descriptor, tagptr, snap, applied, link>>
<1>0. Types
  BY DEF ScxInv
<1>1. CASE v # t
  BY <1>0, <1>1, OnlyOwn DEF Private, Helping
<1>2. CASE v = t /\ Helping(t)
  BY <1>0, <1>2, StaysHelping DEF ScxReturn, LlxReturn, Unsuccessful, Leave, GoTo, Helping, Types
<1>3. CASE v = t /\ ~Helping(t)
  <2>. USE <1>0 DEF Types, GoTo, Helping
  <2>1. ~Help(t)
    BY <1>3 DEF Help, Freeze, FreezeReread, ReadAllFrozen, Abort, WriteAllFrozen, Mark, Update, CommitState
  <2>2. ~Call(t)
    BY <1>3 DEF Call, GiveUp, LlxStart, ScxPrepare
  <2>3. ~(LlxReadScxPtr(t) \/ HelpOtherCopy(t) \/ (\E f \in Field : LlxCopy(t, f)))
    BY <1>3 DEF LlxReadScxPtr, HelpOtherCopy, LlxCopy
  <2>4. ~LlxReadState(t)
    <3>1. StateOf(tagptr[t]) \in State
      BY StateOfType
    <3>. QED  BY <1>3, <3>1 DEF LlxReadState, State
  <2>5. \A from : ~Unsuccessful(t, from)
    BY <1>3 DEF Unsuccessful, Leave
  <2>6. ~(LlxReadMarked(t) \/ LlxReturn(t) \/ LlxValidate(t) \/ ScxReturn(t))
    BY <1>3, <2>5 DEF LlxReadMarked, LlxReturn, LlxValidate, ScxReturn, Leave
  <2>7. CASE HelpOtherCheck(t)
    BY <1>3, <2>5, <2>7 DEF HelpOtherCheck
  <2>. QED  BY <1>3, <2>1, <2>2, <2>3, <2>4, <2>6, <2>7 DEF Step
<1>. QED  BY <1>1, <1>2, <1>3

(* All that holds of an scx that somebody helps stays true...               *)
LEMMA PlanStays ==
  ASSUME ScxInv, NEW t \in Thread, Step(t) \/ Call(t), NEW v \in Thread, Helping(v),
         NEW g, NEW d, g = tagptr[v], d = snap[v]
  PROVE  Plan(g, d)'
<1>1. WellFormed(d)'
  BY Helper, WellFormedStays DEF Plan
<1>. QED
  BY <1>1, FreezingStays, AppliedStays, OutcomeStays, UntouchedStays DEF Plan

(* A thread that has found an scx current has the descriptor of its owner.  *)
LEMMA CheckFacts ==
  ASSUME ScxInv, NEW t \in Thread, HelpOtherCheck(t), Current(tagptr[t])
  PROVE  LET u == tagptr[t][1]
         IN  /\ u \in Thread
             /\ Helping(u)
             /\ tagptr[u] = tagptr[t]
             /\ snap[u] = snap[t]
<1>. DEFINE g == tagptr[t]  u == g[1]
<1>1. pc[t] = "helpOther.check"
  BY DEF HelpOtherCheck
<1>2. g # INIT_SCX_HANDLE /\ snap[t] = desc[u] /\ g \in Tag /\ Started(g)
  BY <1>1 DEF ScxInv, LlxPhases, LlxPhase, Types, Tags
<1>3. u \in Thread /\ tagptr[u] = g /\ Helping(u)
  BY <1>2, TagForm DEF Started
<1>4. Outcome(g, snap[u])
  BY <1>3, Helper DEF Plan
<1>5. snap[u] = desc[u]
  BY <1>4 DEF Outcome
<1>. QED  BY <1>2, <1>3, <1>5

(* ...and is true of an scx when its first helper begins.                   *)
LEMMA PlansStep ==
  ASSUME ScxInv, NEW t \in Thread, Step(t) \/ Call(t)
  PROVE  Plans'
<1>1. ASSUME NEW v \in Thread, Helping(v)', NEW g, NEW d, g = tagptr'[v], d = snap'[v]
      PROVE  Plan(g, d)'
  <2>1. CASE Helping(v) /\ tagptr'[v] = tagptr[v] /\ snap'[v] = snap[v]
    BY <1>1, <2>1, PlanStays
  <2>2. CASE v = t /\ ScxInitialized(t)
    <3>1. g = <<t, mutables[t].seq + 1>>
      BY <1>1, <2>2, InitializedFacts
    <3>2. d = desc[t]
      BY <1>1, <2>2, InitializedFacts
    <3>3. /\ pc[t] = "scx"
          /\ \A n \in Node : g \notin held[n]
          /\ g \notin applied
          /\ mutables'[t].state = "INPROGRESS"
          /\ ~mutables'[t].allFrozen
          /\ UNCHANGED <<held, applied, desc>>
      BY <2>2, <3>1, InitializedFacts
    <3>4. g[1] = t
      BY <3>1
    <3>5. Current(g)'
      <4>1. g # INIT_SCX_HANDLE /\ mutables'[t].seq = mutables[t].seq + 1
        BY <2>2, <3>1, InitializedFacts
      <4>2. g[2] = mutables[t].seq + 1
        BY <3>1
      <4>. QED  BY <3>4, <4>1, <4>2 DEF Current
    <3>6. WellFormed(d) /\ d \in Desc
      BY <3>2, <3>3 DEF ScxInv, Prepared, WellFormed
    <3>7. WellFormed(d)'
      BY <3>6, WellFormedStays
    <3>8. \A k \in DOMAIN d.links : d.links[k].node \in Node
      BY <3>6, LinkTypes
    <3>9. \A k \in DOMAIN d.links : ~Had(g, d, k)'
      BY <3>3, <3>8 DEF Had
    <3>10. 1 \in DOMAIN d.links
      BY <3>6, LinkTypes DEF WellFormed
    <3>11. Freezing(g, d)'
      BY <3>3, <3>9, <3>10 DEF Freezing
    <3>12. Applied(g, d)'
      BY <3>3 DEF Applied
    <3>13. Untouched(g, d)'
      BY <3>9 DEF Untouched
    <3>14. Outcome(g, d)'
      <4>1. ~Decided(g)'
        BY <3>3, <3>4, <3>5 DEF Decided, InProgress
      <4>2. d = desc'[g[1]]
        BY <3>2, <3>3, <3>4
      <4>. QED  BY <3>3, <3>4, <4>1, <4>2 DEF Outcome, AllFrozen, StateIs
    <3>. QED  BY <3>7, <3>11, <3>12, <3>13, <3>14 DEF Plan
  <2>3. CASE v = t /\ HelpOtherCheck(t) /\ Current(tagptr[t]) /\ UNCHANGED <<tagptr, snap>>
    <3>1. PICK u \in Thread : Helping(u) /\ tagptr[u] = tagptr[t] /\ snap[u] = snap[t]
      BY <2>3, CheckFacts
    <3>. QED  BY <1>1, <2>3, <3>1, PlanStays
  <2>. QED
    BY <1>1, <2>1, <2>2, <2>3, HelpersStep
<1>. QED
  BY <1>1 DEF Plans

(* Those who help one scx have the same copy of its descriptor.             *)
LEMMA SamePlanStep ==
  ASSUME ScxInv, NEW t \in Thread, Step(t) \/ Call(t)
  PROVE  SamePlan'
<1>1. SUFFICES ASSUME NEW v \in Thread, NEW u \in Thread, Helping(v)', Helping(u)', tagptr'[v] = tagptr'[u]
               PROVE  snap'[v] = snap'[u]
  BY DEF SamePlan
<1>. DEFINE Same(w) == Helping(w) /\ tagptr'[w] = tagptr[w] /\ snap'[w] = snap[w]
            New(w) == w = t /\ ~Helping(t) /\ ScxInitialized(t)
            Joins(w) == /\ w = t /\ ~Helping(t)
                        /\ HelpOtherCheck(t) /\ Current(tagptr[t])
                        /\ UNCHANGED <<tagptr, snap>>
<1>2. ASSUME NEW w \in Thread, Helping(w)'
      PROVE  Same(w) \/ New(w) \/ Joins(w)
  BY <1>2, HelpersStep
<1>3. ASSUME NEW w \in Thread, NEW x \in Thread, New(w), Same(x), tagptr'[w] = tagptr'[x]
      PROVE  FALSE
  <2>. DEFINE g == <<t, mutables[t].seq + 1>>
  <2>1. tagptr'[t] = g /\ \A y \in Thread : tagptr[y] # g
    BY <1>3, InitializedFacts
  <2>. QED  BY <1>3, <2>1
<1>4. ASSUME NEW w \in Thread, NEW x \in Thread, Joins(w), Same(x), tagptr'[w] = tagptr'[x]
      PROVE  snap'[w] = snap'[x]
  <2>. DEFINE y == tagptr[t][1]
  <2>1. y \in Thread /\ Helping(y) /\ tagptr[y] = tagptr[t] /\ snap[y] = snap[t]
    BY <1>4, CheckFacts
  <2>. HIDE DEF y
  <2>2. snap[y] = snap[x]
    BY <1>4, <2>1 DEF ScxInv, SamePlan
  <2>. QED  BY <1>4, <2>1, <2>2
<1>5. CASE Same(v) /\ Same(u)
  BY <1>1, <1>5 DEF ScxInv, SamePlan
<1>6. CASE v = u
  BY <1>6
<1>. HIDE DEF Same, New, Joins
<1>7. Same(v) \/ New(v) \/ Joins(v)
  BY <1>1, <1>2
<1>8. Same(u) \/ New(u) \/ Joins(u)
  BY <1>1, <1>2
<1>9. /\ New(v) \/ Joins(v) => v = t
      /\ New(u) \/ Joins(u) => u = t
  BY DEF New, Joins
<1>. QED
  BY <1>1, <1>3, <1>4, <1>5, <1>6, <1>7, <1>8, <1>9

(* An scx is decided by a helper that aborts or commits it.                 *)
LEMMA DecidedStep ==
  ASSUME ScxInv, NEW t \in Thread, Step(t) \/ Call(t), NEW g \in Tag, Started(g),
         ~Decided(g), Decided(g)'
  PROVE  (Abort(t) \/ CommitState(t)) /\ tagptr[t] = g
<1>1. Current(g) /\ mutables[g[1]].state = "INPROGRESS" /\ g # INIT_SCX_HANDLE
  BY DEF Decided, InProgress, Current
<1>. QED  BY <1>1, DescriptorStep DEF Decided, InProgress

(* An expected scxPtr, which a freezing CAS replaces, is decided.           *)
LEMMA ScxPtrStep ==
  ASSUME ScxInv, NEW t \in Thread, Step(t) \/ Call(t), NEW n \in Node, scxPtr'[n] # scxPtr[n]
  PROVE  Decided(scxPtr[n]) /\ Freezes(t) /\ n = snap[t].links[i[t]].node /\ scxPtr'[n] = tagptr[t]
<1>. DEFINE m == snap[t].links[i[t]].node
<1>1. Freezes(t)
  BY Kinds, MarkFacts, UpdateFacts, AbortFacts, AllFrozenFacts, CommitFacts
     DEF Quiet, Shared, ScxInitialized, ScxReturn, node
<1>2. m \in Node /\ scxPtr' = [scxPtr EXCEPT ![m] = tagptr[t]] /\ Decided(scxPtr[m])
  BY <1>1, FreezeFacts
<1>. HIDE DEF m
<1>3. n = m /\ scxPtr'[n] = tagptr[t]
  BY <1>2 DEF ScxInv, Types
<1>. QED  BY <1>1, <1>2, <1>3 DEF m

(* Nobody takes a node from an scx in progress.                             *)
LEMMA StaysFrozenStep ==
  ASSUME ScxInv, NEW t \in Thread, Step(t) \/ Call(t)
  PROVE  StaysFrozen'
<1>1. ASSUME NEW n \in Node, NEW g, g \in held'[n], InProgress(g)'
      PROVE  scxPtr'[n] = g
  <2>1. CASE g \in held[n]
    <3>1. Started(g) /\ g \in Tag
      BY <2>1 DEF ScxInv, Tags, Started
    <3>2. InProgress(g)
      BY <1>1, <3>1, TagEvolves DEF Decided
    <3>3. scxPtr[n] = g
      BY <2>1, <3>2 DEF ScxInv, StaysFrozen
    <3>. QED  BY <3>2, <3>3, ScxPtrStep DEF Decided
  <2>2. CASE g \notin held[n]
    <3>1. Freezes(t) /\ g = tagptr[t] /\ n = snap[t].links[i[t]].node
      BY <1>1, <2>2, HeldStep
    <3>. QED  BY <3>1, FreezeFacts DEF ScxInv, Types
  <2>. QED  BY <2>1, <2>2
<1>. QED  BY <1>1 DEF StaysFrozen

(* A marked node stays frozen for the scx that finalizes it.                *)
LEMMA MarkedByStep ==
  ASSUME ScxInv, NEW t \in Thread, Step(t) \/ Call(t)
  PROVE  MarkedBy'
<1>1. ASSUME NEW n \in Node, marked'[n], NEW g, g = scxPtr'[n]
      PROVE  g \in applied' \/ InProgress(g)'
  <2>1. CASE marked[n]
    <3>1. g = scxPtr[n] /\ (g \in applied \/ InProgress(g)) /\ applied \subseteq applied'
      BY <1>1, <2>1, NodeEvolves DEF ScxInv, MarkedBy
    <3>2. CASE InProgress(g) /\ ~InProgress(g)'
      <4>1. g \in held[n] /\ Started(g) /\ g \in Tag
        BY <3>1 DEF ScxInv, Tags, Started
      <4>2. (Abort(t) \/ CommitState(t)) /\ tagptr[t] = g
        BY <3>2, <4>1, DecidedStep DEF Decided
      <4>3. CASE CommitState(t)
        BY <3>1, <4>2, <4>3, CommitFacts
      <4>4. CASE Abort(t)
        <5>1. Helping(t) /\ Doomed(g, snap[t]) /\ g \notin applied
          BY <4>2, <4>4, AbortFacts
        <5>2. Freezing(g, snap[t]) /\ Untouched(g, snap[t]) /\ Outcome(g, snap[t])
          BY <4>2, <5>1, Helper DEF Plan
        <5>3. PICK k \in DOMAIN snap[t].links : snap[t].links[k].node = n
          BY <4>1, <5>2 DEF Freezing
        <5>4. AllFrozen(g)
          BY <2>1, <3>2, <4>1, <5>1, <5>2, <5>3 DEF Untouched, Had
        <5>5. AllHad(g, snap[t])
          BY <3>2, <5>2, <5>4 DEF Outcome, InProgress
        <5>. QED  BY <5>1, <5>5 DEF AllHad, Doomed
      <4>. QED  BY <4>2, <4>3, <4>4
    <3>. QED  BY <3>1, <3>2
  <2>2. CASE ~marked[n]
    <3>. DEFINE m == snap[t].links[i[t]].node
    <3>1. Marks(t)
      BY <1>1, <2>2, MarkedStep
    <3>2. m \in Node /\ marked' = [marked EXCEPT ![m] = TRUE] /\ UNCHANGED <<scxPtr, mutables>>
      BY <3>1, MarkFacts
    <3>3. n = m
      <4>. HIDE DEF m
      <4>. QED  BY <1>1, <2>2, <3>2 DEF ScxInv, Types
    <3>4. scxPtr[n] = tagptr[t] /\ InProgress(tagptr[t])
      BY <2>2, <3>1, <3>3, MarkFacts
    <3>5. InProgress(g)
      BY <1>1, <3>2, <3>4
    <3>. QED  BY <3>2, <3>5 DEF InProgress, Current
  <2>. QED  BY <2>1, <2>2
<1>. QED  BY <1>1 DEF MarkedBy

(* Where a thread's tagptr comes from.                                      *)
LEMMA TagptrStep ==
  ASSUME Types, NEW t \in Thread, Step(t) \/ Call(t)
  PROVE  \/ tagptr' = tagptr
         \/ tagptr'[t] = INIT_SCX_HANDLE
         \/ LlxReadScxPtr(t) /\ tagptr'[t] = scxPtr[srcNode[t]]
         \/ ScxInitialized(t)
<1>. USE DEF locals, Types
<1>1. ASSUME NEW from, NEW ans, Leave(t, from, ans)
      PROVE  tagptr'[t] = INIT_SCX_HANDLE
  BY <1>1 DEF Leave
<1>2. ASSUME NEW from, Unsuccessful(t, from)
      PROVE  tagptr'[t] = INIT_SCX_HANDLE
  BY <1>1, <1>2 DEF Unsuccessful
<1>3. CASE Call(t) \/ Help(t)
  BY <1>3 DEF Call, GiveUp, LlxStart, ScxPrepare, Help, Freeze, FreezeReread, ReadAllFrozen, Abort,
     WriteAllFrozen, Mark, Update, CommitState
<1>4. CASE \/ LlxReadScxPtr(t) \/ LlxReadState(t) \/ (\E f \in Field : LlxCopy(t, f)) \/ HelpOtherCopy(t)
  BY <1>4 DEF LlxReadScxPtr, LlxReadState, LlxCopy, HelpOtherCopy
<1>5. CASE LlxReadMarked(t) \/ LlxValidate(t) \/ HelpOtherCheck(t) \/ LlxReturn(t) \/ ScxReturn(t)
  BY <1>1, <1>2, <1>5 DEF LlxReadMarked, LlxValidate, HelpOtherCheck, LlxReturn, ScxReturn
<1>. QED  BY <1>3, <1>4, <1>5 DEF Step

(* Only ScxInitialized and ScxReturn begin and end an execution.            *)
LEMMA ExecutingStep ==
  ASSUME ScxInv, NEW t \in Thread, Step(t) \/ Call(t), ~ScxInitialized(t), ~ScxReturn(t), NEW v \in Thread
  PROVE  Executing(v)' <=> Executing(v)
<1>1. \A w \in Thread : Executing(w) <=> Owner(w) /\ Helping(w)
  BY DEF Executing, Helping
<1>2. \A w \in Thread : Executing(w)' <=> tagptr'[w][1] = w /\ Helping(w)'
  BY DEF Executing, Helping, Owner
<1>3. CASE Helping(v)'
  <2>1. CASE Helping(v) /\ tagptr'[v] = tagptr[v]
    BY <1>1, <1>2, <1>3, <2>1 DEF Owner
  <2>2. CASE v = t /\ ~Helping(t) /\ pc[t] = "helpOther.check" /\ UNCHANGED tagptr
    BY <1>1, <1>2, <2>2 DEF ScxInv, LlxPhases, LlxPhase, Owner
  <2>. QED  BY <1>3, <2>1, <2>2, HelpersStep
<1>4. CASE ~Helping(v)'
  <2>1. CASE v # t
    BY <1>1, <1>2, <1>4, <2>1, OnlyOwn DEF ScxInv, Private, Helping
  <2>2. CASE v = t /\ Helping(t)
    BY <1>1, <1>2, <1>4, <2>2, StaysHelping DEF ScxInv, LlxReturn
  <2>. QED  BY <1>1, <1>2, <1>4, <2>1, <2>2
<1>. QED  BY <1>3, <1>4

(* Every tag in the shared memory has been given to an scx.                 *)
LEMMA TagsStep ==
  ASSUME ScxInv, NEW t \in Thread, Step(t) \/ Call(t)
  PROVE  Tags'
<1>1. ASSUME NEW n \in Node
      PROVE  scxPtr'[n] \in held'[n]
  <2>1. CASE scxPtr'[n] = scxPtr[n]
    BY <2>1, NodeEvolves DEF ScxInv, Tags
  <2>2. CASE scxPtr'[n] # scxPtr[n]
    <3>1. Freezes(t) /\ n = snap[t].links[i[t]].node /\ scxPtr'[n] = tagptr[t]
      BY <2>2, ScxPtrStep
    <3>2. held' = [held EXCEPT ![n] = @ \cup {tagptr[t]}]
      BY <3>1, FreezeFacts
    <3>. QED  BY <3>1, <3>2 DEF ScxInv, Types
  <2>. QED  BY <2>1, <2>2
<1>2. ASSUME NEW n \in Node, NEW g, g \in held'[n]
      PROVE  Started(g)'
  <2>1. CASE g \in held[n]
    BY <2>1, TagEvolves DEF ScxInv, Tags, Started
  <2>2. CASE g \notin held[n]
    <3>1. g = tagptr[t]
      BY <1>2, <2>2, HeldStep
    <3>. QED  BY <3>1, TagEvolves DEF ScxInv, Tags, Started
  <2>. QED  BY <2>1, <2>2
<1>3. ASSUME NEW v \in Thread, NEW g, g = tagptr'[v]
      PROVE  Started(g)'
  <2>1. CASE g = tagptr[v]
    BY <2>1, TagEvolves DEF ScxInv, Tags, Started
  <2>2. CASE g = INIT_SCX_HANDLE
    BY <2>2, TagForm DEF Started
  <2>3. CASE v = t /\ LlxReadScxPtr(t) /\ g = scxPtr[srcNode[t]]
    <3>1. Started(g)
      BY <2>3 DEF ScxInv, Tags, Types
    <3>. QED  BY <3>1, TagEvolves DEF Started
  <2>4. CASE v = t /\ ScxInitialized(t)
    <3>1. /\ g = <<t, mutables[t].seq + 1>>
          /\ g \in Tag
          /\ mutables'[t].seq = mutables[t].seq + 1
          /\ pc' = [pc EXCEPT ![t] = "freeze"]
      BY <1>3, <2>4, InitializedFacts
    <3>2. g[1] = t /\ g[2] = mutables[t].seq + 1 /\ mutables[t].seq \in Nat
      BY <3>1 DEF ScxInv, Types, Mutables
    <3>3. Helping(t)'
      BY <3>1 DEF Helping, ScxInv, Types
    <3>. QED  BY <1>3, <2>4, <3>1, <3>2, <3>3 DEF Started
  <2>5. CASE v # t
    BY <1>3, <2>1, <2>5, OnlyOwn DEF ScxInv, Private
  <2>. QED  BY <1>3, <2>1, <2>2, <2>3, <2>4, <2>5, TagptrStep DEF ScxInv
<1>4. ASSUME NEW g, g \in applied'
      PROVE  Started(g)' /\ g # INIT_SCX_HANDLE
  <2>1. Started(g) /\ g # INIT_SCX_HANDLE
    <3>1. CASE g \in applied
      BY <3>1 DEF ScxInv, Tags
    <3>2. CASE g \notin applied
      <4>1. Updates(t)
        BY <1>4, <3>2, FieldStep
      <4>2. applied' = applied \cup {tagptr[t]} /\ Helping(t)
        BY <4>1, UpdateFacts
      <4>3. g = tagptr[t]
        BY <1>4, <3>2, <4>2
      <4>. QED  BY <4>2, <4>3, Helper
    <3>. QED  BY <3>1, <3>2
  <2>. QED  BY <2>1, TagEvolves DEF Started
<1>5. ASSUME NEW n \in Node, NEW f \in Field
      PROVE  field'[n][f] \in applied' \cup {INIT_SCX_HANDLE}
  <2>1. field[n][f] \in applied \cup {INIT_SCX_HANDLE}
    BY DEF ScxInv, Tags
  <2>2. CASE Updates(t)
    <3>. DEFINE m == snap[t].links[1].node  e == snap[t].field
    <3>1. /\ m \in Node /\ e \in Field
          /\ field' = [field EXCEPT ![m][e] = tagptr[t]]
          /\ applied' = applied \cup {tagptr[t]}
      BY <2>2, UpdateFacts
    <3>2. field \in [Node -> [Field -> Tag]]
      BY DEF ScxInv, Types, Snapshot, Value
    <3>. HIDE DEF m, e
    <3>. QED  BY <2>1, <3>1, <3>2
  <2>3. CASE ~Updates(t)
    BY <2>1, <2>3, FieldStep
  <2>. QED  BY <2>2, <2>3
<1>6. ASSUME NEW v \in Thread, Executing(v)', NEW g, g = tagptr'[v]
      PROVE  Current(g)'
  <2>1. CASE ScxInitialized(t) /\ v = t
    <3>1. /\ g = <<t, mutables[t].seq + 1>>
          /\ g # INIT_SCX_HANDLE
          /\ mutables'[t].seq = mutables[t].seq + 1
      BY <1>6, <2>1, InitializedFacts
    <3>2. g[1] = t /\ g[2] = mutables[t].seq + 1
      BY <3>1
    <3>. QED  BY <3>1, <3>2 DEF Current
  <2>2. CASE ~(ScxInitialized(t) /\ v = t)
    <3>1. ~(ScxReturn(t) /\ v = t)
      BY <1>6 DEF ScxReturn, Leave, GoTo, Executing, ScxInv, Types
    <3>2. Executing(v)
      <4>1. CASE v = t
        BY <1>6, <2>2, <3>1, <4>1, ExecutingStep
      <4>2. CASE v # t
        BY <1>6, <4>2, OnlyOwn DEF ScxInv, Private, Executing, Owner
      <4>. QED  BY <4>1, <4>2
    <3>3. Helping(v)'
      BY <1>6 DEF Helping, Executing
    <3>4. g = tagptr[v] /\ Current(tagptr[v]) /\ g[1] = v
      <4>1. Helping(v)
        BY <3>2 DEF Executing, Helping
      <4>. QED  BY <1>6, <2>2, <3>2, <3>3, <4>1, HelpersStep DEF ScxInv, Tags, Executing, Owner
    <3>5. mutables'[v].seq = mutables[v].seq
      BY <2>2, <3>1, SeqStep
    <3>. QED  BY <3>4, <3>5 DEF Current
  <2>. QED  BY <2>1, <2>2
<1>7. ASSUME NEW v \in Thread, Helping(v)'
      PROVE  tagptr'[v] # INIT_SCX_HANDLE
  <2>1. CASE Helping(v) /\ tagptr'[v] = tagptr[v]
    BY <2>1, Helper
  <2>2. CASE v = t /\ ScxInitialized(t)
    BY <2>2, InitializedFacts
  <2>3. CASE v = t /\ pc[t] = "helpOther.check" /\ UNCHANGED tagptr
    BY <2>3 DEF ScxInv, LlxPhases, LlxPhase
  <2>. QED  BY <1>7, <2>1, <2>2, <2>3, HelpersStep
<1>. QED
  BY <1>1, <1>2, <1>3, <1>4, <1>5, <1>6, <1>7 DEF Tags

(* A descriptor that its owner does not execute with is not written by      *)
(* others.                                                                  *)
LEMMA FreeStays ==
  ASSUME ScxInv, NEW t \in Thread, Step(t) \/ Call(t), ~ScxInitialized(t), ~ScxReturn(t),
         NEW v \in Thread, ~Executing(v)
  PROVE  mutables'[v].state = mutables[v].state /\ mutables'[v].allFrozen = mutables[v].allFrozen
<1>1. ASSUME Helping(t), Current(tagptr[t]), tagptr[t][1] = v
      PROVE  FALSE
  <2>1. Started(tagptr[t]) /\ tagptr[t] # INIT_SCX_HANDLE
    BY <1>1, Helper
  <2>2. tagptr[v] = tagptr[t] /\ Helping(v)
    BY <1>1, <2>1 DEF Started
  <2>. QED  BY <1>1, <2>2 DEF Executing, Helping, Owner
<1>2. CASE \/ Quiet(t) \/ Freezes(t) \/ Marks(t) \/ Updates(t)
  BY <1>2, FreezeFacts, MarkFacts, UpdateFacts DEF Quiet, Shared
<1>3. CASE Abort(t)
  BY <1>1, <1>3, AbortFacts
<1>4. CASE CommitState(t)
  BY <1>1, <1>4, CommitFacts
<1>5. CASE WriteAllFrozen(t)
  BY <1>1, <1>5, AllFrozenFacts
<1>. QED  BY <1>2, <1>3, <1>4, <1>5, Kinds

(* An update prepares an scx when it has linked its nodes.                  *)
LEMMA ToScx ==
  ASSUME Types, NEW t \in Thread, Step(t) \/ Call(t), pc[t] # "scx", pc'[t] = "scx"
  PROVE  \E finalize \in SUBSET Node, f \in Field : ScxPrepare(t, finalize, f)
<1>. USE DEF GoTo, Types
<1>1. ~Help(t)
  BY DEF Help, Freeze, FreezeReread, ReadAllFrozen, Abort, WriteAllFrozen, Mark, Update, CommitState
<1>2. ~(LlxReadScxPtr(t) \/ HelpOtherCopy(t) \/ (\E f \in Field : LlxCopy(t, f)) \/ ScxInitialized(t))
  BY DEF LlxReadScxPtr, HelpOtherCopy, LlxCopy, ScxInitialized
<1>3. ~LlxReadState(t)
  <2>1. StateOf(tagptr[t]) \in State
    BY StateOfType
  <2>. QED  BY <2>1 DEF LlxReadState, State
<1>4. \A from : ~Unsuccessful(t, from)
  BY DEF Unsuccessful, Leave
<1>5. ~(LlxReadMarked(t) \/ LlxReturn(t) \/ LlxValidate(t) \/ HelpOtherCheck(t) \/ ScxReturn(t))
  BY <1>4 DEF LlxReadMarked, LlxReturn, LlxValidate, HelpOtherCheck, ScxReturn, Leave
<1>6. ~GiveUp(t) /\ ~\E n \in Node : LlxStart(t, n)
  BY DEF GiveUp, LlxStart
<1>. QED  BY <1>1, <1>2, <1>3, <1>5, <1>6 DEF Step, Call

(* Descriptors stay odd while their owners execute, and clean while not.    *)
LEMMA DescriptorsStep ==
  ASSUME ScxInv, NEW t \in Thread, Step(t) \/ Call(t)
  PROVE  Descriptors'
<1>. DEFINE Seq2(v) == mutables[v].seq \in 2 .. MaxSeq(v)
            Parity(v) == IF Executing(v) THEN \E k \in Nat : mutables[v].seq = 2 * k + 1
                         ELSE \E k \in Nat : mutables[v].seq = 2 * k
            Room(v) == pc[v] = "scx" => mutables[v].seq < MaxSeq(v)
            Free(v) == ~Executing(v) => mutables[v].state = "INPROGRESS" /\ ~mutables[v].allFrozen
<1>1. \A v \in Thread : Seq2(v) /\ Parity(v) /\ Room(v) /\ Free(v)
  BY DEF ScxInv, Descriptors
<1>2. \A v \in Thread : /\ MaxSeq(v) \in Nat
                        /\ \E k \in Nat : MaxSeq(v) = 2 * k
                        /\ mutables[v].seq \in Nat
  <2>1. ASSUME NEW v \in Thread
        PROVE  MaxSeq(v) \in Nat /\ \E k \in Nat : MaxSeq(v) = 2 * k
    <3>1. MaxScx[v] \in Nat /\ MaxSeq(v) = 2 * (MaxScx[v] + 1)
      BY ScxAssumption DEF MaxSeq
    <3>. QED  BY <3>1
  <2>. QED  BY <2>1 DEF ScxInv, Types, Mutables
<1>3. \A v \in Thread : v # t => pc'[v] = pc[v]
  BY OnlyOwn DEF ScxInv, Private
<1>4. CASE ~ScxInitialized(t) /\ ~ScxReturn(t)
  <2>1. ASSUME NEW v \in Thread
        PROVE  Seq2(v)' /\ Parity(v)' /\ Room(v)' /\ Free(v)'
    <3>1. mutables'[v].seq = mutables[v].seq
      BY <1>4, SeqStep
    <3>2. Executing(v)' <=> Executing(v)
      BY <1>4, ExecutingStep
    <3>3. Seq2(v)' /\ Parity(v)'
      <4>1. Seq2(v) /\ Parity(v)
        BY <1>1
      <4>2. Parity(v)'
        <5>1. CASE Executing(v)
          BY <3>1, <3>2, <4>1, <5>1
        <5>2. CASE ~Executing(v)
          BY <3>1, <3>2, <4>1, <5>2
        <5>. QED  BY <5>1, <5>2
      <4>. QED  BY <3>1, <4>1, <4>2 DEF MaxSeq
    <3>4. Free(v)'
      BY <1>1, <1>4, <3>2, FreeStays
    <3>5. Room(v)'
      <4>1. CASE pc[v] = "scx"
        BY <1>1, <3>1, <4>1 DEF MaxSeq
      <4>2. CASE pc[v] # "scx" /\ pc'[v] = "scx"
        <5>1. v = t
          BY <1>3, <4>2
        <5>2. \E finalize \in SUBSET Node, f \in Field : ScxPrepare(t, finalize, f)
          BY <4>2, <5>1, ToScx DEF ScxInv
        <5>3. mutables[t].seq < MaxSeq(t)
          BY <5>2 DEF ScxPrepare
        <5>. QED  BY <3>1, <5>1, <5>3 DEF MaxSeq
      <4>. QED  BY <4>1, <4>2
    <3>. QED  BY <3>3, <3>4, <3>5
  <2>. QED  BY <2>1 DEF Descriptors
<1>5. CASE ScxInitialized(t)
  <2>1. /\ pc[t] = "scx" /\ ~Helping(t) /\ ~Executing(t)
        /\ pc' = [pc EXCEPT ![t] = "freeze"]
        /\ tagptr'[t] = <<t, mutables[t].seq + 1>>
        /\ mutables'[t].seq = mutables[t].seq + 1
    BY <1>5, InitializedFacts DEF Helping, Executing
  <2>2. pc'[t] = "freeze" /\ tagptr'[t][1] = t
    BY <2>1 DEF ScxInv, Types
  <2>3. Executing(t)'
    BY <2>2 DEF Executing, Owner
  <2>4. ASSUME NEW v \in Thread
        PROVE  Seq2(v)' /\ Parity(v)' /\ Room(v)' /\ Free(v)'
    <3>1. CASE v = t
      <4>1. /\ mutables[t].seq \in 2 .. MaxSeq(t)
            /\ mutables[t].seq < MaxSeq(t)
            /\ \E k \in Nat : mutables[t].seq = 2 * k
        BY <1>1, <2>1
      <4>2. mutables'[t].seq \in 2 .. MaxSeq(t) /\ \E k \in Nat : mutables'[t].seq = 2 * k + 1
        BY <1>2, <2>1, <4>1
      <4>. QED  BY <2>2, <2>3, <3>1, <4>2 DEF MaxSeq
    <3>2. CASE v # t
      <4>1. mutables'[v] = mutables[v]
        BY <1>5, <3>2, InitializedEffect DEF ScxInitialized, ScxInv, Types
      <4>2. pc'[v] = pc[v] /\ (Executing(v)' <=> Executing(v))
        BY <3>2, OnlyOwn DEF ScxInv, Private, Executing, Owner
      <4>3. Parity(v)'
        <5>1. CASE Executing(v)
          BY <1>1, <4>1, <4>2, <5>1
        <5>2. CASE ~Executing(v)
          BY <1>1, <4>1, <4>2, <5>2
        <5>. QED  BY <5>1, <5>2
      <4>. QED  BY <1>1, <4>1, <4>2, <4>3 DEF MaxSeq
    <3>. QED  BY <3>1, <3>2
  <2>. QED  BY <2>4 DEF Descriptors
<1>6. CASE ScxReturn(t)
  <2>1. pc[t] = "return" /\ Executing(t) /\ pc' = [pc EXCEPT ![t] = "idle"]
    BY <1>6 DEF ScxReturn, Leave, GoTo, Executing
  <2>2. pc'[t] = "idle"
    BY <2>1 DEF ScxInv, Types
  <2>3. ~Executing(t)'
    BY <2>2 DEF Executing
  <2>4. /\ mutables'[t].seq = mutables[t].seq + 1
        /\ mutables'[t].state = "INPROGRESS"
        /\ ~mutables'[t].allFrozen
        /\ \A v \in Thread : v # t => mutables'[v] = mutables[v]
    BY <1>6, NewEffect DEF ScxReturn, ScxInv, Types
  <2>5. ASSUME NEW v \in Thread
        PROVE  Seq2(v)' /\ Parity(v)' /\ Room(v)' /\ Free(v)'
    <3>1. CASE v = t
      <4>1. mutables[t].seq \in 2 .. MaxSeq(t) /\ \E k \in Nat : mutables[t].seq = 2 * k + 1
        BY <1>1, <2>1
      <4>2. mutables'[t].seq \in 2 .. MaxSeq(t) /\ \E k \in Nat : mutables'[t].seq = 2 * k
        <5>1. PICK k \in Nat : mutables[t].seq = 2 * k + 1
          BY <4>1
        <5>2. PICK m \in Nat : MaxSeq(t) = 2 * m
          BY <1>2
        <5>3. mutables'[t].seq = 2 * (k + 1) /\ k + 1 \in Nat
          BY <2>4, <5>1
        <5>4. k + 1 <= m
          BY <4>1, <5>1, <5>2
        <5>. QED  BY <1>2, <4>1, <5>1, <5>2, <5>3, <5>4
      <4>. QED  BY <2>2, <2>3, <2>4, <3>1, <4>2 DEF MaxSeq
    <3>2. CASE v # t
      <4>1. mutables'[v] = mutables[v]
        BY <2>4, <3>2
      <4>2. pc'[v] = pc[v] /\ (Executing(v)' <=> Executing(v))
        BY <3>2, OnlyOwn DEF ScxInv, Private, Executing, Owner
      <4>3. Parity(v)'
        <5>1. CASE Executing(v)
          BY <1>1, <4>1, <4>2, <5>1
        <5>2. CASE ~Executing(v)
          BY <1>1, <4>1, <4>2, <5>2
        <5>. QED  BY <5>1, <5>2
      <4>. QED  BY <1>1, <4>1, <4>2, <4>3 DEF MaxSeq
    <3>. QED  BY <3>1, <3>2
  <2>. QED  BY <2>5 DEF Descriptors
<1>. QED  BY <1>4, <1>5, <1>6

(* Where the list of linked nodes comes from.                               *)
LEMMA LinkStep ==
  ASSUME Types, NEW t \in Thread, Step(t) \/ Call(t)
  PROVE  \/ link' = link
         \/ link'[t] = <<>>
         \/ /\ LlxValidate(t)
            /\ scxPtr[srcNode[t]] = tagptr[t]
            /\ link'[t] = Append(link[t], [node |-> srcNode[t], scxPtr |-> tagptr[t], fields |-> dest[t]])
<1>. USE DEF locals, Types
<1>1. ASSUME NEW from, Unsuccessful(t, from)
      PROVE  link'[t] = <<>>
  BY <1>1 DEF Unsuccessful
<1>2. CASE Call(t) \/ Help(t)
  BY <1>2 DEF Call, GiveUp, LlxStart, ScxPrepare, Help, Freeze, FreezeReread, ReadAllFrozen, Abort,
     WriteAllFrozen, Mark, Update, CommitState
<1>3. CASE \/ LlxReadScxPtr(t) \/ LlxReadState(t) \/ (\E f \in Field : LlxCopy(t, f)) \/ HelpOtherCopy(t)
           \/ ScxInitialized(t)
  BY <1>3 DEF LlxReadScxPtr, LlxReadState, LlxCopy, HelpOtherCopy, ScxInitialized
<1>4. CASE LlxReadMarked(t) \/ HelpOtherCheck(t) \/ LlxReturn(t) \/ ScxReturn(t)
  BY <1>1, <1>4 DEF LlxReadMarked, HelpOtherCheck, LlxReturn, ScxReturn
<1>5. CASE LlxValidate(t)
  BY <1>1, <1>5 DEF LlxValidate
<1>. QED  BY <1>2, <1>3, <1>4, <1>5 DEF Step

(* A snapshot that llx has validated is good, and below the nodes linked    *)
(* before.                                                                  *)
LEMMA LinksStep ==
  ASSUME ScxInv, NEW t \in Thread, Step(t) \/ Call(t)
  PROVE  Links'
<1>1. \A v \in Thread : /\ link[v] \in Seq(Link)
                        /\ \A k \in DOMAIN link[v] : link[v][k] \in Link
                        /\ Increasing(link[v])
                        /\ \A k \in DOMAIN link[v] : Good(link[v][k])
  BY DEF ScxInv, Types, Links
<1>2. ASSUME NEW v \in Thread, link'[v] = link[v]
      PROVE  Increasing(link'[v]) /\ \A k \in DOMAIN link'[v] : \A x : x = link'[v][k] => Good(x)'
  <2>1. ASSUME NEW k \in DOMAIN link[v], NEW e, e = link[v][k]
        PROVE  Good(e)'
    BY <1>1, <2>1, GoodStays
  <2>. QED  BY <1>1, <1>2, <2>1
<1>3. ASSUME NEW v \in Thread, link'[v] = <<>>
      PROVE  Increasing(link'[v]) /\ \A k \in DOMAIN link'[v] : \A x : x = link'[v][k] => Good(x)'
  BY <1>3 DEF Increasing
<1>4. ASSUME LlxValidate(t), scxPtr[srcNode[t]] = tagptr[t],
             NEW e, e = [node |-> srcNode[t], scxPtr |-> tagptr[t], fields |-> dest[t]],
             link'[t] = Append(link[t], e)
      PROVE  Increasing(link'[t]) /\ \A k \in DOMAIN link'[t] : \A x : x = link'[t][k] => Good(x)'
  <2>1. pc[t] = "llx.copy" /\ \A f \in Field : dest[t][f] # None
    BY <1>4 DEF LlxValidate
  <2>2. /\ \A k \in DOMAIN link[t] : link[t][k].node < srcNode[t]
        /\ tagptr[t] \in held[srcNode[t]]
        /\ Decided(tagptr[t])
        /\ ~marked[srcNode[t]]
        /\ \A f \in Field : dest[t][f] = field[srcNode[t]][f]
    BY <1>4, <2>1 DEF ScxInv, LlxPhases, LlxPhase, Linking, Helping
  <2>3. srcNode[t] \in Node /\ tagptr[t] \in Tag /\ field[srcNode[t]] \in [Field -> Tag]
        /\ dest[t] \in [Field -> Tag \cup {None}]
    BY DEF ScxInv, Types, Snapshot, Value
  <2>4. dest[t] = field[srcNode[t]]
    BY <2>2, <2>3
  <2>5. e.node = srcNode[t] /\ e.scxPtr = tagptr[t] /\ e.fields = dest[t] /\ e \in Link
    <3>1. e.node = srcNode[t] /\ e.scxPtr = tagptr[t] /\ e.fields = dest[t]
      BY <1>4
    <3>2. dest[t] \in Snapshot
      BY <2>3, <2>4 DEF Snapshot, Value
    <3>. QED  BY <1>4, <2>3, <3>1, <3>2 DEF Link
  <2>6. Good(e)
    BY <2>2, <2>4, <2>5 DEF Good
  <2>7. Good(e)'
    BY <2>5, <2>6, GoodStays
  <2>8. /\ DOMAIN link'[t] = 1 .. Len(link[t]) + 1
        /\ DOMAIN link[t] = 1 .. Len(link[t])
        /\ Len(link[t]) \in Nat
        /\ \A k \in DOMAIN link[t] : link'[t][k] = link[t][k]
        /\ link'[t][Len(link[t]) + 1] = e
    BY <1>1, <1>4, <2>5
  <2>9. \A k \in DOMAIN link[t] : \A x : x = link[t][k] => Good(x)'
    <3>1. ASSUME NEW k \in DOMAIN link[t], NEW x, x = link[t][k]
          PROVE  Good(x)'
      BY <1>1, <3>1, GoodStays
    <3>. QED  BY <3>1
  <2>10. \A k \in DOMAIN link'[t] : \A x : x = link'[t][k] => Good(x)'
    <3>1. ASSUME NEW k \in DOMAIN link'[t], NEW x, x = link'[t][k]
          PROVE  Good(x)'
      <4>1. CASE k \in DOMAIN link[t]
        BY <2>8, <2>9, <3>1, <4>1
      <4>2. CASE k \notin DOMAIN link[t]
        <5>1. k = Len(link[t]) + 1
          BY <2>8, <3>1, <4>2
        <5>. QED  BY <2>7, <2>8, <3>1, <5>1
      <4>. QED  BY <4>1, <4>2
    <3>. QED  BY <3>1
  <2>11. Increasing(link'[t])
    <3>1. ASSUME NEW j \in DOMAIN link'[t], NEW k \in DOMAIN link'[t], j < k
          PROVE  link'[t][j].node < link'[t][k].node
      <4>1. j \in DOMAIN link[t]
        BY <2>8, <3>1
      <4>2. CASE k \in DOMAIN link[t]
        BY <1>1, <2>8, <3>1, <4>1, <4>2 DEF Increasing
      <4>3. CASE k \notin DOMAIN link[t]
        <5>1. k = Len(link[t]) + 1
          BY <2>8, <3>1, <4>3
        <5>. QED  BY <2>2, <2>5, <2>8, <4>1, <5>1
      <4>. QED  BY <4>2, <4>3
    <3>. QED  BY <3>1 DEF Increasing
  <2>. QED  BY <2>10, <2>11
<1>5. ASSUME NEW v \in Thread
      PROVE  Increasing(link'[v]) /\ \A k \in DOMAIN link'[v] : \A x : x = link'[v][k] => Good(x)'
  <2>1. CASE v # t
    BY <1>2, <2>1, OnlyOwn DEF ScxInv, Private
  <2>2. CASE v = t
    BY <1>2, <1>3, <1>4, <2>2, LinkStep DEF ScxInv
  <2>. QED  BY <2>1, <2>2
<1>. QED  BY <1>5 DEF Links, Increasing

(* What an owner has prepared is what it has linked.                        *)
LEMMA PreparedStep ==
  ASSUME ScxInv, NEW t \in Thread, Step(t) \/ Call(t)
  PROVE  Prepared'
<1>0. Types /\ Types'
  BY TypeStep DEF ScxInv, Next
<1>1. ASSUME NEW v \in Thread, pc'[v] = "scx"
      PROVE  desc'[v].links = link'[v] /\ \A d : d = desc'[v] => WellFormed(d)'
  <2>1. CASE v # t
    <3>1. pc[v] = "scx" /\ desc'[v] = desc[v] /\ link'[v] = link[v]
      BY <1>0, <1>1, <2>1, OnlyOwn DEF Private
    <3>2. desc[v].links = link[v] /\ WellFormed(desc[v])
      BY <3>1 DEF ScxInv, Prepared
    <3>3. ASSUME NEW d, d = desc[v]
          PROVE  WellFormed(d)'
      BY <3>2, <3>3, WellFormedStays
    <3>. QED  BY <3>1, <3>2, <3>3
  <2>2. CASE v = t
    <3>1. pc[t] # "scx"
      <4>1. ASSUME pc[t] = "scx"
            PROVE  ScxInitialized(t)
        BY <4>1 DEF Step, Call, Help, LlxReadScxPtr, LlxReadState, LlxReadMarked, LlxCopy, LlxValidate,
           HelpOtherCopy, HelpOtherCheck, LlxReturn, ScxReturn, Freeze, FreezeReread, ReadAllFrozen, Abort,
           WriteAllFrozen, Mark, Update, CommitState, GiveUp, LlxStart, ScxPrepare, GoTo, Unsuccessful, Leave
      <4>. QED  BY <1>0, <1>1, <2>2, <4>1 DEF ScxInitialized, GoTo, Types
    <3>2. PICK finalize \in SUBSET Node, f \in Field : ScxPrepare(t, finalize, f)
      BY <1>0, <1>1, <2>2, <3>1, ToScx
    <3>. DEFINE l == link[t]  n == link[t][1].node
    <3>3. /\ l # <<>>
          /\ finalize \subseteq {l[k].node : k \in 2 .. Len(l)}
          /\ desc'[t] = [links |-> l, finalize |-> finalize, field |-> f, oldVal |-> field[n][f]]
          /\ UNCHANGED <<node, link, mutables, applied, tagptr>>
      BY <1>0, <3>2 DEF ScxPrepare, Types, locals
    <3>4. l \in Seq(Link) /\ Increasing(l) /\ \A k \in DOMAIN l : Good(l[k])
      BY <1>0 DEF ScxInv, Types, Links
    <3>5. 1 \in DOMAIN l /\ n \in Node
      <4>1. 1 \in DOMAIN l
        BY <3>3, <3>4
      <4>2. l[1] \in Link
        BY <3>4, <4>1
      <4>. QED  BY <4>1, <4>2 DEF Link
    <3>6. ASSUME NEW d, d = desc'[t]
          PROVE  WellFormed(d)
      <4>1. d.links = l /\ d.finalize = finalize /\ d.field = f /\ d.oldVal = field[n][f]
        BY <3>3, <3>6
      <4>2. d \in Desc
        BY <1>0, <3>6 DEF Types
      <4>3. d.oldVal \in applied \cup {INIT_SCX_HANDLE}
        BY <3>5, <4>1 DEF ScxInv, Tags
      <4>4. ~Moved(d, 1) => d.oldVal = d.links[1].fields[d.field]
        BY <3>4, <3>5, <4>1 DEF Moved, Good
      <4>. HIDE DEF l, n
      <4>. QED  BY <3>3, <3>4, <4>1, <4>2, <4>3, <4>4 DEF WellFormed
    <3>7. ASSUME NEW d, d = desc'[t]
          PROVE  WellFormed(d)'
      BY <3>6, <3>7, WellFormedStays
    <3>. QED  BY <2>2, <3>3, <3>7
  <2>. QED  BY <2>1, <2>2
<1>2. ASSUME NEW v \in Thread, Executing(v)'
      PROVE  desc'[v].links = link'[v]
  <2>1. Helping(v)'
    BY <1>2 DEF Executing, Helping
  <2>2. CASE v # t
    <3>1. Private(v)' = Private(v)
      BY <1>0, <2>2, OnlyOwn
    <3>2. Executing(v)
      BY <1>2, <3>1 DEF Private, Executing, Owner
    <3>. QED  BY <3>1, <3>2 DEF Private, ScxInv, Prepared
  <2>3. CASE v = t /\ ScxInitialized(t)
    <3>1. pc[t] = "scx" /\ UNCHANGED <<desc, link>>
      BY <2>3, InitializedFacts
    <3>. QED  BY <2>3, <3>1 DEF ScxInv, Prepared
  <2>4. CASE v = t /\ ~ScxInitialized(t)
    <3>1. ~ScxReturn(t)
      BY <1>0, <1>2, <2>4 DEF ScxReturn, Leave, GoTo, Executing, Types
    <3>2. Executing(t)
      BY <1>2, <2>4, <3>1, ExecutingStep
    <3>3. Helping(t) /\ ~LlxReturn(t)
      BY <3>2 DEF Executing, Helping, LlxReturn
    <3>4. desc'[t] = desc[t] /\ link'[t] = link[t]
      BY <1>0, <3>1, <3>3, StaysHelping
    <3>. QED  BY <2>4, <3>2, <3>4 DEF ScxInv, Prepared
  <2>. QED  BY <2>2, <2>3, <2>4
<1>. QED  BY <1>1, <1>2 DEF Prepared

(* What a thread knows in help stays true whatever the others do.           *)
LEMMA HelpPhaseStays ==
  ASSUME ScxInv, NEW t \in Thread, Step(t) \/ Call(t), NEW v \in Thread, Helping(v),
         NEW g, NEW d, g = tagptr[v], d = snap[v],
         pc'[v] = pc[v], i'[v] = i[v], result'[v] = result[v]
  PROVE  HelpPhase(v, g, d)'
<1>1. /\ HelpPhase(v, g, d) /\ Plan(g, d) /\ Started(g) /\ g \in Tag /\ d \in Desc
      /\ \A k \in DOMAIN d.links : d.links[k].node \in Node
      /\ d.finalize \subseteq Node /\ 1 \in DOMAIN d.links
  BY Helper
<1>2. \A k \in DOMAIN d.links : Had(g, d, k) => Had(g, d, k)'
  BY <1>1, NodeEvolves DEF Had
<1>3. \A k \in DOMAIN d.links : Moved(d, k) => Moved(d, k)'
  BY <1>1, MovedStays DEF Plan, WellFormed
<1>4. Doomed(g, d) => Doomed(g, d)'
  BY DoomedStays
<1>5. AllHad(g, d) => AllHad(g, d)'
  BY AllHadStays
<1>6. \A n \in d.finalize : marked[n] => marked'[n]
  BY <1>1, NodeEvolves
<1>7. applied \subseteq applied'
  BY <1>1, NodeEvolves
<1>8. /\ Decided(g) => Decided(g)'
      /\ Current(g)' => /\ Current(g)
                        /\ AllFrozen(g) => AllFrozen(g)'
                        /\ \A s : Decided(g) /\ StateIs(g, s) => StateIs(g, s)'
  BY <1>1, TagEvolves DEF StateIs
<1>. QED
  BY <1>1, <1>2, <1>3, <1>4, <1>5, <1>6, <1>7, <1>8 DEF HelpPhase

(* A helper's own steps.                                                    *)
LEMMA OwnFreeze ==
  ASSUME ScxInv, NEW t \in Thread, Freeze(t), NEW g, NEW d, g = tagptr[t], d = snap[t]
  PROVE  HelpPhase(t, g, d)'
<1>0. Step(t) /\ pc[t] = "freeze" /\ Helping(t) /\ i[t] <= Len(d.links)
  BY DEF Step, Help, Freeze, Helping
<1>1. /\ HelpPhase(t, g, d)
      /\ Len(d.links) \in Nat /\ DOMAIN d.links = 1 .. Len(d.links)
      /\ \A k \in DOMAIN d.links : d.links[k].node \in Node
      /\ i[t] \in Nat \ {0}
  BY <1>0, Helper DEF ScxInv, Types, Index
<1>2. i[t] \in DOMAIN d.links
  BY <1>0, <1>1
<1>3. \A k \in DOMAIN d.links : k < i[t] => Had(g, d, k)'
  BY <1>0, <1>1, NodeEvolves DEF HelpPhase, Had
<1>4. CASE Freezes(t)
  <2>1. /\ held' = [held EXCEPT ![d.links[i[t]].node] = @ \cup {g}]
        /\ i' = [i EXCEPT ![t] = @ + 1]
        /\ UNCHANGED pc
    BY <1>4, FreezeFacts
  <2>2. \A k \in DOMAIN d.links : k = i[t] => Had(g, d, k)'
    <3>1. \A n \in Node : n = d.links[i[t]].node => g \in held'[n]
      BY <2>1 DEF ScxInv, Types
    <3>. QED  BY <1>1, <3>1 DEF Had
  <2>3. i'[t] = i[t] + 1 /\ pc'[t] = "freeze"
    BY <1>0, <2>1 DEF ScxInv, Types
  <2>4. \A k \in DOMAIN d.links : k < i'[t] => Had(g, d, k)'
    BY <1>1, <1>3, <2>2, <2>3
  <2>5. i'[t] <= Len(d.links) + 1
    BY <1>0, <1>1, <2>3
  <2>. QED
    BY <2>3, <2>4, <2>5 DEF HelpPhase
<1>5. CASE ~Freezes(t)
  <2>1. /\ Moved(d, i[t])
        /\ pc' = [pc EXCEPT ![t] = "freeze.exp"]
        /\ UNCHANGED <<scxPtr, held, i>>
    BY <1>5 DEF Freezes, Freeze, Moved
  <2>2. pc'[t] = "freeze.exp" /\ i'[t] = i[t] /\ Moved(d, i[t])'
    BY <2>1 DEF Moved, ScxInv, Types
  <2>. QED  BY <1>2, <1>3, <2>2 DEF HelpPhase
<1>. QED  BY <1>4, <1>5

(* The second read of scxPtr: frozen by another helper, or lost.            *)
LEMMA OwnReread ==
  ASSUME ScxInv, NEW t \in Thread, FreezeReread(t), NEW g, NEW d, g = tagptr[t], d = snap[t]
  PROVE  HelpPhase(t, g, d)'
<1>0. pc[t] = "freeze.exp" /\ Helping(t)
  BY DEF FreezeReread, GoTo, Helping
<1>1. /\ HelpPhase(t, g, d)
      /\ Len(d.links) \in Nat /\ DOMAIN d.links = 1 .. Len(d.links)
      /\ \A k \in DOMAIN d.links : d.links[k].node \in Node
      /\ i[t] \in Nat \ {0}
      /\ g \in Tag
  BY <1>0, Helper DEF ScxInv, Types, Index
<1>2. i[t] \in DOMAIN d.links /\ Moved(d, i[t]) /\ \A k \in DOMAIN d.links : k < i[t] => Had(g, d, k)
  BY <1>0, <1>1 DEF HelpPhase
<1>3. UNCHANGED <<marked, scxPtr, field, held, mutables, desc>>
  BY DEF FreezeReread, node, descriptor
<1>4. CASE scxPtr[d.links[i[t]].node] = g
  <2>1. i' = [i EXCEPT ![t] = @ + 1] /\ pc' = [pc EXCEPT ![t] = "freeze"]
    BY <1>4 DEF FreezeReread, GoTo
  <2>2. i'[t] = i[t] + 1 /\ pc'[t] = "freeze"
    BY <2>1 DEF ScxInv, Types
  <2>3. Had(g, d, i[t])
    BY <1>1, <1>2, <1>4 DEF Had, ScxInv, Tags
  <2>4. \A k \in DOMAIN d.links : k < i'[t] => Had(g, d, k)
    BY <1>1, <1>2, <2>2, <2>3
  <2>5. \A k \in DOMAIN d.links : Had(g, d, k) => Had(g, d, k)'
    BY <1>3 DEF Had
  <2>6. i'[t] <= Len(d.links) + 1
    BY <1>1, <1>2, <2>2
  <2>. QED  BY <2>2, <2>4, <2>5, <2>6 DEF HelpPhase
<1>5. CASE scxPtr[d.links[i[t]].node] # g
  <2>1. pc' = [pc EXCEPT ![t] = "freeze.allFrozen"] /\ UNCHANGED i
    BY <1>5 DEF FreezeReread, GoTo
  <2>2. pc'[t] = "freeze.allFrozen" /\ i'[t] = i[t]
    BY <2>1 DEF ScxInv, Types
  <2>3. Doomed(g, d) \/ Decided(g)
    <3>1. CASE Had(g, d, i[t])
      BY <1>1, <1>2, <1>5, <3>1 DEF Had, Decided, ScxInv, StaysFrozen
    <3>2. CASE ~Had(g, d, i[t])
      BY <1>2, <3>2 DEF Doomed
    <3>. QED  BY <3>1, <3>2
  <2>4. Doomed(g, d)' \/ Decided(g)'
    BY <1>3, <2>3 DEF Doomed, Had, Moved, Decided, InProgress, Current
  <2>5. \A k \in DOMAIN d.links : k < i'[t] => Had(g, d, k)'
    BY <1>2, <1>3, <2>2 DEF Had
  <2>. QED  BY <2>2, <2>4, <2>5 DEF HelpPhase
<1>. QED  BY <1>4, <1>5

(* A helper that reads allFrozen: FALSE means that the scx is doomed, and   *)
(* TRUE that it has been committed, as nobody aborts it any more.           *)
LEMMA OwnReadAllFrozen ==
  ASSUME ScxInv, NEW t \in Thread, ReadAllFrozen(t), NEW g, NEW d, g = tagptr[t], d = snap[t]
  PROVE  HelpPhase(t, g, d)'
<1>0. pc[t] = "freeze.allFrozen" /\ Helping(t)
  BY DEF ReadAllFrozen, GoTo, Helping
<1>1. HelpPhase(t, g, d) /\ Outcome(g, d) /\ g \in Tag
  BY <1>0, Helper DEF Plan
<1>2. (Doomed(g, d) \/ Decided(g)) /\ \A k \in DOMAIN d.links : k < i[t] => Had(g, d, k)
  BY <1>0, <1>1 DEF HelpPhase
<1>3. UNCHANGED <<marked, scxPtr, field, held, mutables, desc, i, applied>>
  BY DEF ReadAllFrozen, node, descriptor
<1>4. CASE Current(g) /\ ~AllFrozen(g)
  <2>1. pc' = [pc EXCEPT ![t] = "abort"]
    BY <1>4 DEF ReadAllFrozen, GoTo, AllFrozen
  <2>2. pc'[t] = "abort" /\ i'[t] = i[t]
    BY <1>3, <2>1 DEF ScxInv, Types
  <2>3. Doomed(g, d)
    BY <1>1, <1>2, <1>4 DEF Outcome
  <2>4. Doomed(g, d)'
    BY <1>3, <2>3 DEF Doomed, Had, Moved
  <2>5. \A k \in DOMAIN d.links : k < i'[t] => Had(g, d, k)'
    BY <1>2, <1>3, <2>2 DEF Had
  <2>. QED  BY <2>2, <2>4, <2>5 DEF HelpPhase
<1>5. CASE ~(Current(g) /\ ~AllFrozen(g))
  <2>1. /\ pc' = [pc EXCEPT ![t] = "return"]
        /\ Current(g) => result' = [result EXCEPT ![t] = "COMMITTED"]
    BY <1>5 DEF ReadAllFrozen, GoTo, AllFrozen
  <2>2. pc'[t] = "return" /\ (Current(g) => result'[t] = "COMMITTED")
    BY <2>1 DEF ScxInv, Types
  <2>3. CASE ~Current(g)
    <3>1. ~Current(g)'
      BY <1>3, <2>3 DEF Current
    <3>. QED  BY <2>2, <3>1 DEF HelpPhase, Decided, InProgress
  <2>4. CASE Current(g)
    <3>1. AllHad(g, d)
      BY <1>1, <1>5, <2>4 DEF Outcome
    <3>2. ~Doomed(g, d)
      BY <3>1 DEF AllHad, Doomed
    <3>3. Decided(g)
      BY <1>2, <3>2
    <3>4. mutables[g[1]].state \in State
      BY <2>4, TagForm, <1>1 DEF Current, ScxInv, Types, Mutables
    <3>5. StateIs(g, "COMMITTED")
      BY <1>1, <2>4, <3>2, <3>3, <3>4 DEF Outcome, Decided, InProgress, StateIs, State
    <3>6. Decided(g)' /\ StateIs(g, "COMMITTED")'
      BY <1>3, <3>3, <3>5 DEF Decided, InProgress, Current, StateIs
    <3>. QED  BY <2>2, <2>4, <3>6 DEF HelpPhase
  <2>. QED  BY <2>3, <2>4
<1>. QED  BY <1>4, <1>5

(* Abort and CommitState decide the scx.                                    *)
LEMMA OwnDecision ==
  ASSUME ScxInv, NEW t \in Thread, Abort(t) \/ CommitState(t), NEW g, NEW d, g = tagptr[t], d = snap[t]
  PROVE  HelpPhase(t, g, d)'
<1>1. CASE Abort(t)
  <2>1. /\ Helping(t)
        /\ \A p \in Thread : /\ mutables'[p].seq = mutables[p].seq
                             /\ mutables'[p].state = IF Current(g) /\ p = g[1]
                                                     THEN "ABORTED" ELSE mutables[p].state
        /\ pc' = [pc EXCEPT ![t] = "return"]
        /\ result' = [result EXCEPT ![t] = "ABORTED"]
    BY <1>1, AbortFacts
  <2>2. pc'[t] = "return" /\ result'[t] = "ABORTED" /\ g[1] \in Thread
    BY <2>1, Helper DEF ScxInv, Types
  <2>3. Current(g)' => Current(g) /\ StateIs(g, "ABORTED")'
    BY <2>1, <2>2 DEF Current, StateIs
  <2>. QED  BY <2>2, <2>3 DEF HelpPhase, Decided, InProgress, StateIs
<1>2. CASE CommitState(t)
  <2>1. /\ Helping(t)
        /\ \A p \in Thread : /\ mutables'[p].seq = mutables[p].seq
                             /\ mutables'[p].state = IF Current(g) /\ p = g[1]
                                                     THEN "COMMITTED" ELSE mutables[p].state
        /\ pc' = [pc EXCEPT ![t] = "return"]
        /\ result' = [result EXCEPT ![t] = "COMMITTED"]
    BY <1>2, CommitFacts
  <2>2. pc'[t] = "return" /\ result'[t] = "COMMITTED" /\ g[1] \in Thread
    BY <2>1, Helper DEF ScxInv, Types
  <2>3. Current(g)' => Current(g) /\ StateIs(g, "COMMITTED")'
    BY <2>1, <2>2 DEF Current, StateIs
  <2>. QED  BY <2>2, <2>3 DEF HelpPhase, Decided, InProgress, StateIs
<1>. QED  BY <1>1, <1>2

(* WriteAllFrozen comes when all nodes have been frozen.                    *)
LEMMA OwnAllFrozen ==
  ASSUME ScxInv, NEW t \in Thread, WriteAllFrozen(t), NEW g, NEW d, g = tagptr[t], d = snap[t]
  PROVE  HelpPhase(t, g, d)'
<1>1. /\ Helping(t)
      /\ AllHad(g, d)
      /\ \A p \in Thread : /\ mutables'[p].seq = mutables[p].seq
                           /\ Current(g) /\ p = g[1] => mutables'[p].allFrozen
      /\ pc' = [pc EXCEPT ![t] = "mark"]
      /\ i' = [i EXCEPT ![t] = 1]
      /\ UNCHANGED held
  BY AllFrozenFacts
<1>2. /\ pc'[t] = "mark" /\ i'[t] = 1 /\ g[1] \in Thread
      /\ Len(d.links) \in Nat /\ DOMAIN d.links = 1 .. Len(d.links)
  BY <1>1, Helper DEF ScxInv, Types
<1>3. AllHad(g, d)' /\ (Current(g)' => AllFrozen(g)')
  BY <1>1, <1>2 DEF AllHad, Had, Current, AllFrozen
<1>4. \A k \in DOMAIN d.links : ~(k < i'[t])
  BY <1>2
<1>5. i'[t] <= Len(d.links) + 1
  BY <1>2
<1>. QED  BY <1>2, <1>3, <1>4, <1>5 DEF HelpPhase

(* Marking goes through the nodes in order.                                 *)
LEMMA OwnMark ==
  ASSUME ScxInv, NEW t \in Thread, Mark(t), NEW g, NEW d, g = tagptr[t], d = snap[t]
  PROVE  HelpPhase(t, g, d)'
<1>. DEFINE n == d.links[i[t]].node
<1>0. pc[t] = "mark" /\ Helping(t) /\ i[t] <= Len(d.links)
  BY DEF Mark, Helping
<1>1. /\ HelpPhase(t, g, d)
      /\ Len(d.links) \in Nat /\ DOMAIN d.links = 1 .. Len(d.links)
      /\ \A k \in DOMAIN d.links : d.links[k].node \in Node
      /\ i[t] \in Nat \ {0}
  BY <1>0, Helper DEF ScxInv, Types, Index
<1>2. /\ AllHad(g, d)
      /\ Current(g) => AllFrozen(g)
      /\ \A k \in DOMAIN d.links : k < i[t] /\ d.links[k].node \in d.finalize => marked[d.links[k].node]
  BY <1>0, <1>1 DEF HelpPhase
<1>3. /\ marked' = IF n \in d.finalize THEN [marked EXCEPT ![n] = TRUE] ELSE marked
      /\ i' = [i EXCEPT ![t] = @ + 1]
      /\ UNCHANGED <<pc, held, mutables>>
  BY DEF Mark, descriptor
<1>4. i'[t] = i[t] + 1 /\ pc'[t] = "mark"
  BY <1>0, <1>3 DEF ScxInv, Types
<1>5. AllHad(g, d)' /\ (Current(g)' => AllFrozen(g)')
  BY <1>2, <1>3 DEF AllHad, Had, Current, AllFrozen
<1>6. i'[t] <= Len(d.links) + 1
  BY <1>0, <1>1, <1>4
<1>7. \A k \in DOMAIN d.links : k < i'[t] /\ d.links[k].node \in d.finalize => marked'[d.links[k].node]
  <2>1. ASSUME NEW k \in DOMAIN d.links, k < i'[t], d.links[k].node \in d.finalize
        PROVE  marked'[d.links[k].node]
    <3>1. d.links[k].node \in Node /\ n \in Node
      BY <1>0, <1>1
    <3>2. CASE k < i[t]
      <4>1. marked[d.links[k].node]
        BY <1>2, <2>1, <3>2
      <4>. HIDE DEF n
      <4>. QED  BY <1>3, <3>1, <4>1 DEF ScxInv, Types
    <3>3. CASE k = i[t]
      BY <1>3, <2>1, <3>1, <3>3 DEF ScxInv, Types
    <3>. QED  BY <1>1, <1>4, <2>1, <3>2, <3>3
  <2>. QED  BY <2>1
<1>. QED  BY <1>4, <1>5, <1>6, <1>7 DEF HelpPhase

(* An update CAS that fails finds that the scx has taken effect.            *)
LEMMA OwnUpdate ==
  ASSUME ScxInv, NEW t \in Thread, Update(t), NEW g, NEW d, g = tagptr[t], d = snap[t]
  PROVE  HelpPhase(t, g, d)'
<1>0. pc[t] = "mark" /\ Helping(t) /\ pc' = [pc EXCEPT ![t] = "commit"] /\ UNCHANGED held
  BY DEF Update, GoTo, Helping
<1>1. HelpPhase(t, g, d) /\ Plan(g, d) /\ 1 \in DOMAIN d.links
  BY <1>0, Helper
<1>2. AllHad(g, d) /\ pc'[t] = "commit"
  BY <1>0, <1>1 DEF HelpPhase, ScxInv, Types
<1>3. AllHad(g, d)'
  BY <1>0, <1>2 DEF AllHad, Had
<1>4. g \in applied'
  <2>1. CASE Updates(t)
    BY ZenonT(40), <2>1, UpdateFacts
  <2>2. CASE ~Updates(t)
    <3>1. field[d.links[1].node][d.field] # d.oldVal /\ UNCHANGED applied
      BY <2>2 DEF Updates, Update
    <3>2. SUFFICES ASSUME g \notin applied PROVE FALSE
      BY <3>1
    <3>3. ~Doomed(g, d) /\ Had(g, d, 1)
      BY <1>1, <1>2 DEF AllHad, Doomed
    <3>4. InProgress(g)
      BY <1>1, <3>2, <3>3 DEF Plan, Outcome, Decided
    <3>5. field[d.links[1].node] = d.links[1].fields
      BY <1>1, <3>2, <3>3, <3>4 DEF Plan, Untouched
    <3>6. d.oldVal = d.links[1].fields[d.field]
      BY <1>1, <3>3 DEF Plan, Freezing
    <3>. QED  BY <3>1, <3>5, <3>6
  <2>. QED  BY <2>1, <2>2
<1>. QED  BY <1>2, <1>3, <1>4 DEF HelpPhase

(* A thread that goes on in help does so by one of help's steps.            *)
LEMMA HelpStep ==
  ASSUME ScxInv, NEW t \in Thread, Step(t) \/ Call(t), Helping(t), Helping(t)'
  PROVE  Help(t)
<1>. USE DEF Helping, GoTo, ScxInv, Types
<1>1. ~Call(t)
  BY DEF Call, GiveUp, LlxStart, ScxPrepare
<1>2. ~(\/ LlxReadScxPtr(t) \/ LlxReadState(t) \/ LlxReadMarked(t)
        \/ (\E f \in Field : LlxCopy(t, f)) \/ LlxValidate(t)
        \/ HelpOtherCopy(t) \/ HelpOtherCheck(t) \/ ScxInitialized(t))
  BY DEF LlxReadScxPtr, LlxReadState, LlxReadMarked, LlxCopy, LlxValidate, HelpOtherCopy,
     HelpOtherCheck, ScxInitialized
<1>3. ~(LlxReturn(t) \/ ScxReturn(t))
  BY DEF LlxReturn, ScxReturn, Unsuccessful, Leave
<1>. QED  BY <1>1, <1>2, <1>3 DEF Step

(* What every helper knows of its scx stays true.                           *)
LEMMA HelpPhasesStep ==
  ASSUME ScxInv, NEW t \in Thread, Step(t) \/ Call(t)
  PROVE  HelpPhases'
<1>1. ASSUME NEW v \in Thread, Helping(v)', NEW g, NEW d, g = tagptr'[v], d = snap'[v]
      PROVE  HelpPhase(v, g, d)'
  <2>1. CASE v # t
    <3>1. Private(v)' = Private(v)
      BY <2>1, OnlyOwn DEF ScxInv
    <3>2. Helping(v)
      BY <1>1, <3>1 DEF Private, Helping
    <3>. QED  BY <1>1, <3>1, <3>2, HelpPhaseStays DEF Private
  <2>2. CASE v = t /\ Helping(t)
    <3>1. Help(t)
      BY <1>1, <2>2, HelpStep
    <3>2. g = tagptr[t] /\ d = snap[t]
      BY <1>1, <2>2, HelpersStep
    <3>. QED
      BY <2>2, <3>1, <3>2, OwnFreeze, OwnReread, OwnReadAllFrozen, OwnDecision, OwnAllFrozen, OwnMark,
         OwnUpdate DEF Help
  <2>3. CASE v = t /\ ScxInitialized(t)
    <3>1. /\ i'[t] = 1
          /\ pc' = [pc EXCEPT ![t] = "freeze"]
          /\ pc[t] = "scx"
          /\ d = desc[t]
      BY <1>1, <2>3, InitializedFacts
    <3>2. pc'[t] = "freeze" /\ d \in Desc
      BY <3>1 DEF ScxInv, Types
    <3>3. Len(d.links) \in Nat /\ DOMAIN d.links = 1 .. Len(d.links)
      BY <3>2, LinkTypes
    <3>4. i'[t] <= Len(d.links) + 1 /\ \A k \in DOMAIN d.links : ~(k < i'[t])
      BY <3>1, <3>3
    <3>. QED  BY <2>3, <3>2, <3>4 DEF HelpPhase
  <2>4. CASE /\ v = t
             /\ HelpOtherCheck(t)
             /\ Current(tagptr[t])
             /\ pc[t] = "helpOther.check"
             /\ pc'[t] = "freeze"
             /\ i'[t] = 2
             /\ UNCHANGED <<node, tagptr, snap>>
    <3>1. PICK u \in Thread : Helping(u) /\ tagptr[u] = g /\ snap[u] = d
      BY <1>1, <2>4, CheckFacts
    <3>2. /\ Freezing(g, d)
          /\ Len(d.links) \in Nat \ {0} /\ DOMAIN d.links = 1 .. Len(d.links)
      BY <3>1, Helper DEF Plan
    <3>3. g \in held[srcNode[t]] /\ srcNode[t] \in Node
      BY <1>1, <2>4 DEF ScxInv, LlxPhases, LlxPhase, Linking, Helping, Types
    <3>4. PICK k \in DOMAIN d.links : Had(g, d, k)
      BY <3>2, <3>3 DEF Freezing, Had
    <3>5. Had(g, d, 1)
      <4>1. CASE k = 1
        BY <3>4, <4>1
      <4>2. CASE 1 < k
        BY <3>2, <3>4, <4>2 DEF Freezing
      <4>. QED  BY <3>2, <4>1, <4>2
    <3>6. \A j \in DOMAIN d.links : j < i'[t] => Had(g, d, j)'
      <4>1. \A j \in DOMAIN d.links : j < i'[t] => j = 1
        BY <2>4, <3>2
      <4>2. Had(g, d, 1)'
        BY <2>4, <3>5 DEF Had, node
      <4>. QED  BY <4>1, <4>2
    <3>7. i'[t] <= Len(d.links) + 1
      BY <2>4, <3>2
    <3>. QED  BY <2>4, <3>6, <3>7 DEF HelpPhase
  <2>. QED
    BY <1>1, <2>1, <2>2, <2>3, <2>4, HelpersStep
<1>. QED
  BY <1>1 DEF HelpPhases

-----------------------------------------------------------------------------
(* What a thread knows in llx stays true, as long as it does not move.      *)
LEMMA LlxPhaseStays ==
  ASSUME ScxInv, NEW t \in Thread, Step(t) \/ Call(t), NEW v \in Thread,
         NEW g, g = tagptr[v], tagptr'[v] = g, NEW n, n = srcNode[v], srcNode'[v] = n,
         pc'[v] = pc[v] \/ (Helping(v) /\ Helping(v)'),
         seenMarked'[v] = seenMarked[v], dest'[v] = dest[v], link'[v] = link[v],
         snap'[v] = snap[v]
  PROVE  LlxPhase(v)'
<1>1. LlxPhase(v) /\ g \in Tag /\ n \in Node /\ Started(g)
  BY DEF ScxInv, LlxPhases, Types, Tags
<1>2. /\ held[n] \subseteq held'[n]
      /\ scxPtr'[n] # scxPtr[n] => scxPtr'[n] \notin held[n] /\ ~marked[n]
      /\ marked[n] => marked'[n] /\ field'[n] = field[n]
      /\ field'[n] # field[n] \/ marked'[n] # marked[n] => InProgress(scxPtr[n])
  BY <1>1, NodeEvolves
<1>3. (Decided(g) => Decided(g)') /\ (Current(g)' => Current(g))
  BY <1>1, TagEvolves
<1>4. Current(g) /\ g # INIT_SCX_HANDLE => desc'[g[1]] = desc[g[1]]
  BY <1>1, TagForm, DescStays DEF Started
<1>5. Linking(v)' <=> Linking(v)
  BY DEF Linking, Helping, Owner
<1>6. Linking(v) => /\ \A k \in DOMAIN link[v] : link[v][k].node < n
                    /\ seenMarked[v] => marked[n]
  BY <1>1 DEF LlxPhase
<1>7. Linking(v) /\ pc[v] # "llx.scxPtr" => /\ g \in held[n]
                                            /\ seenMarked[v] => g = scxPtr[n]
  BY <1>1 DEF LlxPhase
<1>8. CASE pc'[v] = pc[v]
  <2>1. pc[v] # "llx.copy" => dest[v] = Uncopied
    BY <1>1 DEF LlxPhase
  <2>2. pc[v] = "idle" => g = INIT_SCX_HANDLE
    BY <1>1 DEF LlxPhase
  <2>3. pc[v] \in {"llx.marked", "llx.copy"} => Decided(g) /\ Linking(v)
    BY <1>1 DEF LlxPhase, Linking, Helping
  <2>4. pc[v] = "llx.copy" /\ scxPtr[n] = g =>
          /\ ~marked[n]
          /\ \A f \in Field : dest[v][f] # None => dest[v][f] = field[n][f]
    BY <1>1 DEF LlxPhase
  <2>5. pc[v] \in {"helpOther", "helpOther.check"} => g # INIT_SCX_HANDLE /\ g[1] # v
    BY <1>1 DEF LlxPhase, Owner
  <2>6. pc[v] = "helpOther.check" /\ Current(g) => snap[v] = desc[g[1]]
    BY <1>1 DEF LlxPhase
  <2>7. pc[v] = "llx.copy" /\ scxPtr'[n] = g =>
          /\ ~marked'[n]
          /\ \A f \in Field : dest[v][f] # None => dest[v][f] = field'[n][f]
    <3>1. SUFFICES ASSUME pc[v] = "llx.copy", scxPtr'[n] = g
                   PROVE  /\ ~marked'[n]
                          /\ \A f \in Field : dest[v][f] # None => dest[v][f] = field'[n][f]
      OBVIOUS
    <3>2. scxPtr[n] = g
      BY <1>2, <1>7, <2>3, <3>1
    <3>3. field'[n] = field[n] /\ marked'[n] = marked[n]
      BY <1>2, <2>3, <3>1, <3>2 DEF Decided
    <3>. QED  BY <2>4, <3>1, <3>2, <3>3
  <2>8. Linking(v) /\ seenMarked[v] => marked'[n]
    BY <1>2, <1>6
  <2>9. Linking(v) /\ pc[v] # "llx.scxPtr" => g \in held'[n] /\ (seenMarked[v] => g = scxPtr'[n])
    BY <1>2, <1>6, <1>7
  <2>10. pc[v] = "helpOther.check" /\ Current(g)' => snap[v] = desc'[g[1]]
    BY <1>3, <1>4, <2>5, <2>6
  <2>11. pc[v] \in {"llx.marked", "llx.copy"} => Decided(g)'
    BY <1>3, <2>3
  <2>. QED
    BY <1>5, <1>6, <1>8, <2>1, <2>2, <2>5, <2>7, <2>8, <2>9, <2>10, <2>11 DEF LlxPhase, Owner
<1>9. CASE Helping(v) /\ Helping(v)'
  <2>1. dest[v] = Uncopied
    BY <1>1, <1>9 DEF LlxPhase, Helping
  <2>2. Linking(v) /\ seenMarked[v] => marked'[n]
    BY <1>2, <1>6
  <2>3. Linking(v) => g \in held'[n] /\ (seenMarked[v] => g = scxPtr'[n])
    BY <1>2, <1>6, <1>7, <1>9 DEF Helping
  <2>. QED
    BY <1>5, <1>6, <1>9, <2>1, <2>2, <2>3 DEF LlxPhase, Helping
<1>. QED  BY <1>8, <1>9

(* A call that has returned knows nothing.                                  *)
LEMMA LlxIdle ==
  ASSUME Types, NEW t \in Thread, NEW from, NEW ans, Leave(t, from, ans)
  PROVE  LlxPhase(t)'
<1>1. pc'[t] = "idle" /\ dest'[t] = Uncopied /\ tagptr'[t] = INIT_SCX_HANDLE
  BY DEF Leave, GoTo, Types
<1>. QED  BY <1>1 DEF LlxPhase, Linking

(* An scx whose tag llx finds ABORTED has not finalized the node.           *)
LEMMA AbortedUnmarked ==
  ASSUME ScxInv, NEW n \in Node, NEW g, g = scxPtr[n], StateOf(g) = "ABORTED"
  PROVE  ~marked[n]
<1>1. SUFFICES ASSUME marked[n] PROVE FALSE
  OBVIOUS
<1>2. Current(g) /\ StateIs(g, "ABORTED")
  BY DEF StateOf, StateIs
<1>3. g \in applied
  BY <1>1, <1>2 DEF ScxInv, MarkedBy, InProgress, StateIs
<1>4. Started(g) /\ g # INIT_SCX_HANDLE /\ g \in Tag
  BY <1>3 DEF ScxInv, Tags, Started
<1>5. g[1] \in Thread /\ tagptr[g[1]] = g /\ Helping(g[1])
  BY <1>2, <1>4, TagForm DEF Started
<1>6. Outcome(g, snap[g[1]]) /\ Applied(g, snap[g[1]])
  BY <1>5, Helper DEF Plan
<1>. QED  BY <1>2, <1>3, <1>6 DEF Outcome, Applied, AllHad, Doomed

(* What a thread in llx knows after a step of its own.                      *)
LEMMA LlxOwnStep ==
  ASSUME ScxInv, NEW t \in Thread, Step(t) \/ Call(t)
  PROVE  LlxPhase(t)'
<1>. DEFINE g == tagptr[t]  n == srcNode[t]
<1>0. Types /\ LlxPhase(t) /\ g \in Tag /\ n \in Node
  BY DEF ScxInv, Types, LlxPhases
<1>1. ASSUME NEW from, Unsuccessful(t, from)
      PROVE  LlxPhase(t)'
  BY <1>0, <1>1, LlxIdle DEF Unsuccessful
<1>2. CASE LlxReturn(t) \/ ScxReturn(t) \/ LlxValidate(t)
  BY <1>0, <1>1, <1>2, LlxIdle DEF LlxReturn, ScxReturn, LlxValidate
<1>3. CASE Help(t)
  <2>1. /\ Helping(t) /\ Helping(t)'
        /\ tagptr'[t] = tagptr[t] /\ snap'[t] = snap[t] /\ link'[t] = link[t]
    <3>1. Helping(t)
      BY <1>3 DEF Help, Freeze, FreezeReread, ReadAllFrozen, Abort, WriteAllFrozen, Mark, Update, CommitState,
         GoTo, Helping
    <3>2. ~ScxReturn(t) /\ ~LlxReturn(t)
      <4>1. pc'[t] # "idle"
        BY <1>0, <1>3 DEF Help, Freeze, FreezeReread, ReadAllFrozen, Abort, WriteAllFrozen, Mark, Update,
           CommitState, GoTo, Types
      <4>. QED  BY <1>0, <4>1 DEF ScxReturn, LlxReturn, Unsuccessful, Leave, GoTo, Types
    <3>. QED  BY <1>0, <3>1, <3>2, StaysHelping
  <2>2. UNCHANGED llxLocals
    BY <1>3 DEF Help, Freeze, FreezeReread, ReadAllFrozen, Abort, WriteAllFrozen, Mark, Update, CommitState
  <2>. QED  BY <2>1, <2>2, LlxPhaseStays DEF llxLocals
<1>4. CASE GiveUp(t)
  <2>1. pc'[t] = "idle" /\ UNCHANGED locals
    BY <1>4 DEF GiveUp
  <2>2. pc[t] = "idle"
    BY <1>4 DEF GiveUp
  <2>. QED  BY <1>0, <2>1, <2>2 DEF LlxPhase, Linking, locals, llxLocals
<1>5. CASE \E finalize \in SUBSET Node, f \in Field : ScxPrepare(t, finalize, f)
  <2>1. pc[t] = "idle" /\ pc'[t] = "scx" /\ UNCHANGED locals
    BY <1>0, <1>5 DEF ScxPrepare, GoTo, Types
  <2>. QED  BY <1>0, <2>1 DEF LlxPhase, Linking, locals, llxLocals
<1>6. CASE \E m \in Node : LlxStart(t, m)
  <2>1. PICK m \in Node : LlxStart(t, m)
    BY <1>6
  <2>2. /\ pc[t] = "idle" /\ pc'[t] = "llx.scxPtr"
        /\ \A k \in DOMAIN link[t] : link[t][k].node < m
        /\ srcNode'[t] = m
        /\ seenMarked'[t] = marked[m]
        /\ UNCHANGED <<marked, dest, tagptr, link>>
    BY <1>0, <2>1 DEF LlxStart, GoTo, Types, node
  <2>. QED  BY <1>0, <2>2 DEF LlxPhase, Linking, Helping
<1>7. CASE LlxReadScxPtr(t)
  <2>1. /\ pc[t] = "llx.scxPtr" /\ pc'[t] = "llx.state"
        /\ tagptr'[t] = scxPtr[n]
        /\ UNCHANGED <<marked, scxPtr, held, srcNode, seenMarked, dest, link>>
    BY <1>0, <1>7 DEF LlxReadScxPtr, GoTo, Types, node, llxLocals
  <2>2. /\ dest[t] = Uncopied
        /\ \A k \in DOMAIN link[t] : link[t][k].node < n
        /\ seenMarked[t] => marked[n]
        /\ scxPtr[n] \in held[n]
    BY <1>0, <2>1 DEF LlxPhase, Linking, Helping, ScxInv, Tags
  <2>. QED  BY <2>1, <2>2 DEF LlxPhase, Linking, Helping
<1>8. ASSUME Linking(t), pc[t] # "llx.scxPtr"
      PROVE  /\ \A k \in DOMAIN link[t] : link[t][k].node < n
             /\ seenMarked[t] => marked[n]
             /\ g \in held[n]
             /\ seenMarked[t] => g = scxPtr[n]
  BY <1>0, <1>8 DEF LlxPhase
<1>9. CASE LlxReadState(t)
  <2>1. /\ pc[t] = "llx.state"
        /\ UNCHANGED <<node, descriptor, tagptr, srcNode, seenMarked, dest, link>>
        /\ dest[t] = Uncopied
        /\ Linking(t)
    BY <1>0, <1>9 DEF LlxReadState, GoTo, llxLocals, LlxPhase, Linking, Helping
  <2>2. StateOf(g) \in State
    BY <1>0, StateOfType
  <2>3. CASE StateOf(g) = "ABORTED"
    <3>1. pc'[t] = "llx.copy"
      BY <1>0, <1>9, <2>3 DEF LlxReadState, GoTo, Types
    <3>2. Decided(g)
      BY <2>3 DEF StateOf, Decided, InProgress
    <3>3. Decided(tagptr[t])'
      BY <2>1, <3>2 DEF Decided, InProgress, Current, descriptor
    <3>4. scxPtr[n] = g => ~marked[n]
      BY <1>0, <2>3, AbortedUnmarked
    <3>5. \A f \in Field : dest'[t][f] = None
      BY <2>1 DEF Uncopied
    <3>. QED  BY <1>8, <2>1, <3>1, <3>3, <3>4, <3>5 DEF LlxPhase, Linking, Helping, node
  <2>4. CASE StateOf(g) = "COMMITTED"
    <3>1. pc'[t] = "llx.marked"
      BY <1>0, <1>9, <2>4 DEF LlxReadState, GoTo, Types
    <3>2. Decided(g)
      BY <2>4 DEF StateOf, Decided, InProgress
    <3>3. Decided(tagptr[t])'
      BY <2>1, <3>2 DEF Decided, InProgress, Current, descriptor
    <3>. QED  BY <1>8, <2>1, <3>1, <3>3 DEF LlxPhase, Linking, Helping, node
  <2>5. CASE StateOf(g) = "INPROGRESS"
    <3>1. pc'[t] = "helpOther"
      BY <1>0, <1>9, <2>5 DEF LlxReadState, GoTo, Types
    <3>2. Current(g) /\ g # INIT_SCX_HANDLE
      BY <2>5 DEF StateOf, Current
    <3>3. Started(g)
      BY DEF ScxInv, Tags
    <3>4. ~Owner(t)
      BY <2>1, <3>2, <3>3 DEF Started, Owner, Helping
    <3>5. ~Owner(t)' /\ tagptr'[t] # INIT_SCX_HANDLE
      BY <2>1, <3>2, <3>4 DEF Owner
    <3>. QED  BY <1>8, <2>1, <3>1, <3>5 DEF LlxPhase, Linking, Helping, node
  <2>. QED  BY <2>2, <2>3, <2>4, <2>5 DEF State
<1>10. CASE LlxReadMarked(t)
  <2>1. CASE marked[n]
    BY <1>1, <1>10, <2>1 DEF LlxReadMarked
  <2>2. CASE ~marked[n]
    <3>1. /\ pc[t] = "llx.marked" /\ pc'[t] = "llx.copy"
          /\ UNCHANGED <<node, descriptor, locals, link>>
          /\ dest[t] = Uncopied
          /\ Linking(t)
          /\ Decided(g)
      BY <1>0, <1>10, <2>2 DEF LlxReadMarked, GoTo, Types, LlxPhase, Linking, Helping
    <3>2. Decided(tagptr[t])'
      BY <3>1 DEF Decided, InProgress, Current, descriptor, locals
    <3>3. \A f \in Field : dest'[t][f] = None
      BY <3>1 DEF Uncopied, locals, llxLocals
    <3>. QED  BY <1>8, <2>2, <3>1, <3>2, <3>3 DEF LlxPhase, Linking, Helping, node, locals, llxLocals
  <2>. QED  BY <2>1, <2>2
<1>11. CASE \E f \in Field : LlxCopy(t, f)
  <2>1. PICK f \in Field : LlxCopy(t, f)
    BY <1>11
  <2>2. /\ pc[t] = "llx.copy"
        /\ dest' = [dest EXCEPT ![t][f] = field[n][f]]
        /\ UNCHANGED <<node, descriptor, pc, tagptr, srcNode, seenMarked, link>>
        /\ Linking(t)
    BY <2>1 DEF LlxCopy, Linking, Helping
  <2>3. /\ Decided(g)
        /\ scxPtr[n] = g => /\ ~marked[n]
                            /\ \A e \in Field : dest[t][e] # None => dest[t][e] = field[n][e]
    BY <1>0, <2>2 DEF LlxPhase
  <2>4. \A e \in Field : dest'[t][e] = IF e = f THEN field[n][f] ELSE dest[t][e]
    BY <1>0, <2>2 DEF Types
  <2>5. Decided(tagptr[t])'
    BY <2>2, <2>3 DEF Decided, InProgress, Current, descriptor
  <2>. QED  BY <1>8, <2>2, <2>3, <2>4, <2>5 DEF LlxPhase, Linking, Helping, node
<1>12. CASE HelpOtherCopy(t)
  <2>1. /\ pc[t] = "helpOther" /\ pc'[t] = "helpOther.check"
        /\ snap'[t] = desc[g[1]]
        /\ UNCHANGED <<node, descriptor, tagptr, srcNode, seenMarked, dest, link>>
        /\ Linking(t)
    BY <1>0, <1>12 DEF HelpOtherCopy, GoTo, Types, llxLocals, Linking, Helping
  <2>2. dest[t] = Uncopied /\ g # INIT_SCX_HANDLE /\ ~Owner(t)
    BY <1>0, <2>1 DEF LlxPhase
  <2>3. ~Owner(t)'
    BY <2>1, <2>2 DEF Owner
  <2>. QED  BY <1>8, <2>1, <2>2, <2>3 DEF LlxPhase, Linking, Helping, node, descriptor
<1>13. CASE HelpOtherCheck(t)
  <2>1. CASE ~Current(g)
    BY <1>1, <1>13, <2>1 DEF HelpOtherCheck
  <2>2. CASE Current(g)
    <3>1. /\ pc[t] = "helpOther.check" /\ pc'[t] = "freeze"
          /\ UNCHANGED <<node, tagptr, srcNode, seenMarked, dest, link>>
          /\ Linking(t)
      BY <1>0, <1>13, <2>2 DEF HelpOtherCheck, GoTo, Types, llxLocals, Linking, Helping
    <3>2. dest[t] = Uncopied
      BY <1>0, <3>1 DEF LlxPhase
    <3>. QED  BY <1>8, <3>1, <3>2 DEF LlxPhase, Linking, Helping, node
  <2>. QED  BY <2>1, <2>2
<1>14. CASE ScxInitialized(t)
  <2>1. /\ pc[t] = "scx" /\ pc'[t] = "freeze"
        /\ tagptr'[t] = <<t, mutables[t].seq + 1>>
        /\ UNCHANGED dest
    BY <1>0, <1>14 DEF ScxInitialized, GoTo, Types, llxLocals
  <2>2. dest[t] = Uncopied
    BY <1>0, <2>1 DEF LlxPhase
  <2>3. Owner(t)'
    BY <2>1 DEF Owner
  <2>. QED  BY <2>1, <2>2, <2>3 DEF LlxPhase, Linking, Helping
<1>. QED
  BY <1>2, <1>3, <1>4, <1>5, <1>6, <1>7, <1>9, <1>10, <1>11, <1>12, <1>13, <1>14 DEF Step, Call

(* What every thread in llx knows stays true.                               *)
LEMMA LlxPhasesStep ==
  ASSUME ScxInv, NEW t \in Thread, Step(t) \/ Call(t)
  PROVE  LlxPhases'
<1>1. ASSUME NEW v \in Thread
      PROVE  LlxPhase(v)'
  <2>1. CASE v = t
    BY <2>1, LlxOwnStep
  <2>2. CASE v # t
    BY <2>2, OnlyOwn, LlxPhaseStays DEF ScxInv, Private
  <2>. QED  BY <2>1, <2>2
<1>. QED  BY <1>1 DEF LlxPhases

-----------------------------------------------------------------------------
(* The invariant holds initially...                                         *)
LEMMA InitialInvariant ==
  ASSUME Init
  PROVE  ScxInv
<1>. DEFINE h == INIT_SCX_HANDLE
<1>1. /\ \A n \in Node : ~marked[n] /\ scxPtr[n] = h /\ held[n] = {h} /\ \A f \in Field : field[n][f] = h
      /\ \A t \in Thread : /\ mutables[t] = NewMutables(2)
                           /\ desc[t] = NoDesc /\ pc[t] = "idle" /\ srcNode[t] = 1
                           /\ dest[t] = Uncopied /\ tagptr[t] = h /\ link[t] = <<>>
      /\ applied = {}
  BY DEF Init
<1>2. \A t \in Thread : /\ mutables[t].seq = 2
                        /\ mutables[t].state = "INPROGRESS"
                        /\ ~mutables[t].allFrozen
  <2>1. NewMutables(2).seq = 2 /\ NewMutables(2).state = "INPROGRESS" /\ ~NewMutables(2).allFrozen
    BY DEF NewMutables
  <2>. QED  BY <1>1, <2>1
<1>3. Types
  <2>1. NewMutables(2) \in Mutables
    BY DEF NewMutables, Mutables, State
  <2>2. NoDesc \in Desc
    BY DEF NoDesc, Desc
  <2>3. Uncopied \in [Field -> Tag \cup {None}]
    BY DEF Uncopied
  <2>4. h \in Tag /\ 1 \in Node /\ 1 \in Index
    BY TagForm, Indices, ScxAssumption DEF Node
  <2>5. [n \in Node |-> [f \in Field |-> h]] \in [Node -> Snapshot]
    BY <2>4 DEF Snapshot, Value
  <2>6. /\ marked \in [Node -> BOOLEAN]
        /\ scxPtr \in [Node -> Tag]
        /\ field \in [Node -> Snapshot]
        /\ held \in [Node -> SUBSET Tag]
    BY <2>4, <2>5 DEF Init
  <2>7. /\ mutables \in [Thread -> Mutables]
        /\ desc \in [Thread -> Desc]
        /\ snap \in [Thread -> Desc]
        /\ dest \in [Thread -> [Field -> Tag \cup {None}]]
    BY <2>1, <2>2, <2>3 DEF Init
  <2>8. /\ pc \in [Thread -> Pcs]
        /\ srcNode \in [Thread -> Node]
        /\ seenMarked \in [Thread -> BOOLEAN]
        /\ tagptr \in [Thread -> Tag]
        /\ i \in [Thread -> Index]
        /\ result \in [Thread -> {"COMMITTED", "ABORTED"}]
        /\ link \in [Thread -> Seq(Link)]
        /\ answer \in [Thread -> Answers]
        /\ applied \subseteq Tag
    BY <2>4 DEF Init, Pcs, Answers
  <2>. QED  BY <2>6, <2>7, <2>8 DEF Types
<1>4. \A t \in Thread : ~Helping(t) /\ ~Executing(t) /\ ~Linking(t)
  BY <1>1 DEF Helping, Executing, Linking
<1>5. Started(h) /\ ~Current(h) /\ ~InProgress(h)
  BY TagForm DEF Started, Current, InProgress
<1>. HIDE DEF h
<1>6. Descriptors
  <2>1. \A t \in Thread : 2 \in 2 .. MaxSeq(t)
    <3>1. ASSUME NEW t \in Thread PROVE 2 \in 2 .. MaxSeq(t)
      <4>1. MaxScx[t] \in Nat
        BY ScxAssumption
      <4>2. MaxSeq(t) \in Nat /\ 2 <= MaxSeq(t)
        BY <4>1 DEF MaxSeq
      <4>. QED  BY <4>2
    <3>. QED  BY <3>1
  <2>2. 2 = 2 * 1 /\ 1 \in Nat
    OBVIOUS
  <2>3. \E k \in Nat : 2 = 2 * k
    BY <2>2
  <2>. QED  BY <1>1, <1>2, <1>4, <2>1, <2>3 DEF Descriptors
<1>7. Tags
  BY <1>1, <1>4, <1>5 DEF Tags, h
<1>8. StaysFrozen /\ MarkedBy
  BY <1>1, <1>5 DEF StaysFrozen, MarkedBy
<1>9. Links /\ Prepared /\ Plans /\ SamePlan /\ HelpPhases
  BY <1>1, <1>4 DEF Links, Increasing, Prepared, Plans, SamePlan, HelpPhases
<1>10. LlxPhases
  BY <1>1, <1>4 DEF LlxPhases, LlxPhase, h
<1>. QED
  BY <1>3, <1>6, <1>7, <1>8, <1>9, <1>10 DEF ScxInv

(* ...and every step keeps it.                                              *)
LEMMA InvariantStep ==
  ASSUME ScxInv, [Next]_vars
  PROVE  ScxInv'
<1>1. CASE Next
  <2>1. PICK t \in Thread : Step(t) \/ Call(t)
    BY <1>1 DEF Next
  <2>. QED
    BY <1>1, <2>1, TypeStep, DescriptorsStep, TagsStep, StaysFrozenStep, MarkedByStep, LinksStep,
       PreparedStep, PlansStep, SamePlanStep, LlxPhasesStep, HelpPhasesStep DEF ScxInv
<1>2. CASE UNCHANGED vars
  <2>. USE <1>2 DEF vars, node, descriptor, locals, llxLocals, helpLocals
  <2>1. Types'
    BY DEF ScxInv, Types
  <2>2. /\ \A g : (Current(g)' <=> Current(g)) /\ (Started(g)' <=> Started(g)) /\ (Decided(g)' <=> Decided(g))
        /\ \A g : InProgress(g)' <=> InProgress(g)
        /\ \A t : /\ Executing(t)' <=> Executing(t)
                  /\ Helping(t)' <=> Helping(t)
                  /\ Linking(t)' <=> Linking(t)
                  /\ Owner(t)' <=> Owner(t)
    BY DEF Current, Started, Decided, InProgress, Executing, Helping, Linking, Owner
  <2>3. Descriptors'
    BY <2>2 DEF ScxInv, Descriptors
  <2>4. Tags' /\ StaysFrozen' /\ MarkedBy'
    BY <2>2 DEF ScxInv, Tags, StaysFrozen, MarkedBy
  <2>5. \A e : Good(e)' <=> Good(e)
    BY <2>2 DEF Good
  <2>6. \A d : WellFormed(d)' <=> WellFormed(d)
    BY <2>5 DEF WellFormed, Moved
  <2>7. Links' /\ Prepared'
    BY <2>2, <2>5, <2>6 DEF ScxInv, Links, Prepared
  <2>8. \A g, d : /\ Doomed(g, d)' <=> Doomed(g, d)
                  /\ AllHad(g, d)' <=> AllHad(g, d)
                  /\ \A k : (Had(g, d, k)' <=> Had(g, d, k)) /\ (Moved(d, k)' <=> Moved(d, k))
                  /\ AllFrozen(g)' = AllFrozen(g)
                  /\ \A s : StateIs(g, s)' <=> StateIs(g, s)
    BY DEF Doomed, AllHad, Had, Moved, AllFrozen, StateIs
  <2>9. \A g, d : Plan(g, d)' <=> Plan(g, d)
    <3>1. \A g, d : Freezing(g, d)' <=> Freezing(g, d)
      BY <2>8 DEF Freezing
    <3>2. \A g, d : Applied(g, d)' <=> Applied(g, d)
      BY <2>8 DEF Applied
    <3>3. \A g, d : Outcome(g, d)' <=> Outcome(g, d)
      BY <2>2, <2>8 DEF Outcome
    <3>4. \A g, d : Untouched(g, d)' <=> Untouched(g, d)
      BY <2>2, <2>8 DEF Untouched
    <3>. QED  BY <2>6, <3>1, <3>2, <3>3, <3>4 DEF Plan
  <2>10. Plans' /\ SamePlan'
    BY <2>2, <2>9 DEF ScxInv, Plans, SamePlan
  <2>11. LlxPhases'
    BY <2>2 DEF ScxInv, LlxPhases, LlxPhase
  <2>12. HelpPhases'
    BY <2>2, <2>8 DEF ScxInv, HelpPhases, HelpPhase
  <2>. QED  BY <2>1, <2>3, <2>4, <2>7, <2>10, <2>11, <2>12 DEF ScxInv
<1>. QED  BY <1>1, <1>2

(* The invariant holds in every execution.                                  *)
THEOREM ScxInvariance == Spec => []ScxInv
<1>1. Init => ScxInv
  BY InitialInvariant
<1>2. ScxInv /\ [Next]_vars => ScxInv'
  BY InvariantStep
<1>. QED  BY <1>1, <1>2, PTL DEF Spec

-----------------------------------------------------------------------------
(* What TypeOK says beyond Types: the indices of help, and the descriptors. *)
Shaped(d) == d.finalize \subseteq {d.links[k].node : k \in 2 .. Len(d.links)}
Bounds ==
  \A t \in Thread :
    /\ ~Helping(t) => i[t] = 1
    /\ Helping(t) => i[t] <= Len(snap[t].links) + 1
    /\ Shaped(desc[t])
    /\ Shaped(snap[t])

(* The indices stay within the descriptors.                                 *)
LEMMA BoundsStep ==
  ASSUME ScxInv, Bounds, NEW t \in Thread, Step(t) \/ Call(t)
  PROVE  Bounds'
<1>0. Types /\ i[t] \in Nat \ {0}
  BY DEF ScxInv, Types, Index
<1>1. ASSUME NEW v \in Thread, v # t
      PROVE  /\ ~Helping(v)' => i'[v] = 1
             /\ Helping(v)' => i'[v] <= Len(snap'[v].links) + 1
             /\ Shaped(desc'[v])
             /\ Shaped(snap'[v])
  <2>1. pc'[v] = pc[v] /\ i'[v] = i[v] /\ desc'[v] = desc[v] /\ snap'[v] = snap[v]
    BY <1>0, <1>1, OnlyOwn DEF Private
  <2>. QED  BY <2>1 DEF Bounds, Helping
<1>2. Shaped(NoDesc)
  BY DEF Shaped, NoDesc
<1>3. Shaped(desc'[t])
  <2>1. CASE \E finalize \in SUBSET Node, f \in Field : ScxPrepare(t, finalize, f)
    <3>1. PICK finalize \in SUBSET Node, f \in Field : ScxPrepare(t, finalize, f)
      BY <2>1
    <3>2. /\ finalize \subseteq {link[t][k].node : k \in 2 .. Len(link[t])}
          /\ desc'[t].finalize = finalize
          /\ desc'[t].links = link[t]
      BY <1>0, <3>1 DEF ScxPrepare, Types
    <3>. QED  BY <3>2 DEF Shaped
  <2>2. CASE ~(\E finalize \in SUBSET Node, f \in Field : ScxPrepare(t, finalize, f))
    <3>1. desc' = desc
      BY <2>2 DEF Step, Call, Help, LlxReadScxPtr, LlxReadState, LlxReadMarked, LlxCopy, LlxValidate,
         HelpOtherCopy, HelpOtherCheck, LlxReturn, ScxInitialized, ScxReturn, Freeze, FreezeReread,
         ReadAllFrozen, Abort, WriteAllFrozen, Mark, Update, CommitState, GiveUp, LlxStart, descriptor
    <3>. QED  BY <3>1 DEF Bounds
  <2>. QED  BY <2>1, <2>2
<1>4. ASSUME NEW from, NEW ans, Leave(t, from, ans)
      PROVE  ~Helping(t)' /\ i'[t] = 1 /\ Shaped(snap'[t])
  BY <1>0, <1>2, <1>4 DEF Leave, GoTo, Helping, Types
<1>5. ASSUME NEW from, Unsuccessful(t, from)
      PROVE  ~Helping(t)' /\ i'[t] = 1 /\ Shaped(snap'[t])
  BY <1>4, <1>5 DEF Unsuccessful
<1>6. /\ ~Helping(t)' => i'[t] = 1
      /\ Helping(t)' => i'[t] <= Len(snap'[t].links) + 1
      /\ Shaped(snap'[t])
  <2>1. CASE LlxReadMarked(t) /\ marked[srcNode[t]]
    BY <1>5, <2>1 DEF LlxReadMarked
  <2>2. CASE LlxValidate(t) \/ LlxReturn(t) \/ ScxReturn(t)
    BY <1>4, <1>5, <2>2 DEF LlxValidate, LlxReturn, ScxReturn
  <2>3. CASE HelpOtherCheck(t) /\ ~Current(tagptr[t])
    BY <1>5, <2>3 DEF HelpOtherCheck
  <2>4. CASE HelpOtherCheck(t) /\ Current(tagptr[t])
    <3>1. PICK u \in Thread : Helping(u) /\ snap[u] = snap[t]
      BY <2>4, CheckFacts
    <3>2. Len(snap[t].links) \in Nat \ {0}
      BY <3>1, Helper
    <3>3. i'[t] = 2 /\ snap'[t] = snap[t] /\ pc'[t] = "freeze"
      BY <1>0, <2>4 DEF HelpOtherCheck, GoTo, Types
    <3>. QED  BY <3>2, <3>3 DEF Bounds, Helping
  <2>5. CASE ScxInitialized(t)
    <3>1. i'[t] = 1 /\ snap'[t] = desc[t] /\ desc[t] \in Desc /\ pc'[t] = "freeze"
      BY <1>0, <2>5 DEF ScxInitialized, GoTo, Types
    <3>2. Len(desc[t].links) \in Nat
      BY <3>1, LinkTypes
    <3>. QED  BY <3>1, <3>2 DEF Bounds, Helping
  <2>6. CASE \/ LlxReadScxPtr(t) \/ (\E f \in Field : LlxCopy(t, f))
             \/ LlxReadMarked(t) /\ ~marked[srcNode[t]]
             \/ GiveUp(t) \/ (\E n \in Node : LlxStart(t, n))
             \/ \E finalize \in SUBSET Node, f \in Field : ScxPrepare(t, finalize, f)
    <3>1. ~Helping(t) /\ ~Helping(t)' /\ UNCHANGED <<i, snap>>
      BY <1>0, <2>6 DEF LlxReadScxPtr, LlxCopy, LlxReadMarked, GiveUp, LlxStart, ScxPrepare, GoTo, Helping,
         Types, locals, helpLocals
    <3>. QED  BY <3>1 DEF Bounds
  <2>7. CASE LlxReadState(t)
    <3>1. StateOf(tagptr[t]) \in State
      BY <1>0, StateOfType DEF Types
    <3>2. ~Helping(t) /\ ~Helping(t)' /\ UNCHANGED <<i, snap>>
      BY <1>0, <2>7, <3>1 DEF LlxReadState, GoTo, Helping, Types, helpLocals, State
    <3>. QED  BY <3>2 DEF Bounds
  <2>8. CASE HelpOtherCopy(t)
    <3>1. ~Helping(t) /\ ~Helping(t)' /\ UNCHANGED i /\ snap'[t] = desc[tagptr[t][1]]
      BY <1>0, <2>8 DEF HelpOtherCopy, GoTo, Helping, Types
    <3>2. tagptr[t][1] \in Thread
      BY <2>8, TagForm DEF HelpOtherCopy, GoTo, ScxInv, LlxPhases, LlxPhase, Types
    <3>. QED  BY <3>1, <3>2 DEF Bounds
  <2>9. CASE Help(t)
    <3>1. Helping(t) /\ snap' = snap
      BY <2>9 DEF Help, Freeze, FreezeReread, ReadAllFrozen, Abort, WriteAllFrozen, Mark, Update, CommitState,
         GoTo, Helping, helpLocals
    <3>2. Helping(t)'
      BY <1>0, <2>9 DEF Help, Freeze, FreezeReread, ReadAllFrozen, Abort, WriteAllFrozen, Mark, Update,
         CommitState, GoTo, Helping, Types
    <3>3. Len(snap[t].links) \in Nat \ {0} /\ DOMAIN snap[t].links = 1 .. Len(snap[t].links)
      BY <3>1, Helper
    <3>4. i'[t] = i[t] \/ i'[t] = 1 \/ (i'[t] = i[t] + 1 /\ i[t] <= Len(snap[t].links))
      <4>1. CASE Freeze(t)
        BY <1>0, <4>1 DEF Freeze, Types
      <4>2. CASE FreezeReread(t)
        <5>1. i[t] \in DOMAIN snap[t].links
          BY <3>1, <4>2, Helper DEF FreezeReread, HelpPhase, GoTo
        <5>. QED  BY <1>0, <3>3, <4>2, <5>1 DEF FreezeReread, Types
      <4>3. CASE WriteAllFrozen(t) \/ Mark(t)
        BY <1>0, <4>3 DEF WriteAllFrozen, Mark, Types
      <4>4. CASE ReadAllFrozen(t) \/ Abort(t) \/ Update(t) \/ CommitState(t)
        BY <4>4 DEF ReadAllFrozen, Abort, Update, CommitState
      <4>. QED  BY <2>9, <4>1, <4>2, <4>3, <4>4 DEF Help
    <3>5. i'[t] <= Len(snap[t].links) + 1
      BY <1>0, <3>1, <3>3, <3>4 DEF Bounds
    <3>. QED  BY <3>1, <3>2, <3>5 DEF Bounds
  <2>. QED  BY <2>1, <2>2, <2>3, <2>4, <2>5, <2>6, <2>7, <2>8, <2>9 DEF Step, Call
<1>. QED
  BY <1>1, <1>3, <1>6 DEF Bounds

(* TypeOK: the indices stay within the descriptors, the sequence numbers    *)
(* within their bound.                                                      *)
THEOREM TypeCorrect == Spec => []TypeOK
<1>1. Init => Bounds
  <2>1. SUFFICES ASSUME Init PROVE Bounds
    OBVIOUS
  <2>2. \A t \in Thread : i[t] = 1 /\ desc[t] = NoDesc /\ snap[t] = NoDesc /\ ~Helping(t)
    BY <2>1 DEF Init, Helping
  <2>3. Shaped(NoDesc)
    BY DEF Shaped, NoDesc
  <2>. QED  BY <2>2, <2>3 DEF Bounds
<1>2. ScxInv /\ Bounds /\ [Next]_vars => Bounds'
  <2>1. CASE UNCHANGED vars
    BY <2>1 DEF Bounds, Helping, vars, descriptor, locals, helpLocals
  <2>. QED  BY <2>1, BoundsStep DEF Next
<1>3. ScxInv /\ Bounds => TypeOK
  <2>1. SUFFICES ASSUME ScxInv, Bounds PROVE TypeOK
    OBVIOUS
  <2>2. ASSUME NEW t \in Thread
        PROVE  mutables[t] \in [seq : 2 .. MaxSeq(t), state : State, allFrozen : BOOLEAN]
    <3>1. mutables[t] \in [seq : Nat, state : State, allFrozen : BOOLEAN]
      BY <2>1 DEF ScxInv, Types, Mutables
    <3>2. mutables[t].seq \in 2 .. MaxSeq(t)
      BY <2>1 DEF ScxInv, Descriptors
    <3>. QED  BY <3>1, <3>2
  <2>3. ASSUME NEW t \in Thread
        PROVE  /\ \A f \in Field : dest[t][f] \in Value \cup {None}
               /\ i[t] \in 1 .. Len(snap[t].links) + 2
               /\ \A k \in DOMAIN link[t] : link[t][k] \in Link
               /\ \A d \in {desc[t], snap[t]} : d.finalize \subseteq {d.links[k].node : k \in 2 .. Len(d.links)}
    <3>1. i[t] \in Nat \ {0} /\ snap[t] \in Desc /\ link[t] \in Seq(Link) /\ dest[t] \in [Field -> Tag \cup {None}]
      BY <2>1 DEF ScxInv, Types, Index
    <3>2. Len(snap[t].links) \in Nat
      BY <3>1, LinkTypes
    <3>3. i[t] \in 1 .. Len(snap[t].links) + 2
      BY <2>1, <3>1, <3>2 DEF Bounds
    <3>4. \A d \in {desc[t], snap[t]} : d.finalize \subseteq {d.links[k].node : k \in 2 .. Len(d.links)}
      BY <2>1 DEF Bounds, Shaped
    <3>. QED  BY <3>1, <3>3, <3>4 DEF Value
  <2>. QED  BY <2>1, <2>2, <2>3 DEF TypeOK, ScxInv, Types
<1>. QED  BY <1>1, <1>2, <1>3, ScxInvariance, PTL DEF Spec

(* When help returns, the scx that was helped is decided.                   *)
THEOREM HelpingDecides == Spec => []HelpDecides
<1>1. ScxInv => HelpDecides
  BY DEF ScxInv, HelpPhases, HelpPhase, Helping, HelpDecides, Decided
<1>. QED  BY <1>1, ScxInvariance, PTL

(* A finalized node keeps its mark, its fields and its scxPtr.              *)
THEOREM FinalizedNodesStay == Spec => MarkedIsFinal
<1>1. ASSUME ScxInv, Next PROVE KeepsFinal
  <2>1. PICK t \in Thread : Step(t) \/ Call(t)
    BY <1>1 DEF Next
  <2>. QED  BY <1>1, <2>1, NodeEvolves DEF KeepsFinal
<1>2. ScxInv /\ [Next]_vars => [KeepsFinal]_vars
  BY <1>1
<1>. QED  BY <1>2, ScxInvariance, PTL DEF Spec, MarkedIsFinal

-----------------------------------------------------------------------------
(* Not all fail.                                                            *)

(* Some scx has frozen n. *)
Touched(n) == \E g \in held[n] : g # INIT_SCX_HANDLE

(* As long as no scx has taken effect, those that have frozen the lowest    *)
(* node that any has frozen are undecided: nobody is in their way.          *)
Lowest(n) == \A m \in Node : n < m => ~Touched(m)
LowestUndecided ==
  applied = {} =>
    \A n \in Node : Lowest(n) => \A g \in held[n] : g # INIT_SCX_HANDLE => InProgress(g)

(* An scx that is over has frozen a node, or has met one that was frozen.   *)
SomeFrozen == \A t \in Thread : mutables[t].seq > 3 => \E n \in Node : Touched(n)

(* A set of nodes has a greatest member.                                    *)
LEMMA Greatest ==
  ASSUME NEW T \in SUBSET Node, T # {}
  PROVE  \E n \in T : \A m \in T : ~ (n < m)
<1>. DEFINE R == OpToRel(<, Nat)  D == {NumNodes - n : n \in T}
<1>1. IsWellFoundedOn(R, Nat)
  BY NatLessThanWellFounded
<1>2. \A m, n \in Nat : m < n => <<m, n>> \in R
  BY DEF OpToRel
<1>3. D \in SUBSET Nat /\ D # {}
  <2>1. \A n \in Node : NumNodes - n \in Nat
    BY ScxAssumption DEF Node
  <2>. QED  BY <2>1
<1>. HIDE DEF R
<1>4. PICK d \in D : \A e \in D : ~ (<<e, d>> \in R)
  BY <1>1, <1>3, WFMin
<1>5. PICK n \in T : d = NumNodes - n
  OBVIOUS
<1>6. \A m \in T : ~ (NumNodes - m < NumNodes - n)
  BY <1>2, <1>3, <1>4, <1>5
<1>. QED  BY <1>6, ScxAssumption DEF Node

(* The node that dooms an scx has been frozen by another.                   *)
LEMMA DoomedBy ==
  ASSUME ScxInv, NEW t \in Thread, Helping(t), Doomed(tagptr[t], snap[t])
  PROVE  \E k \in DOMAIN snap[t].links :
           ~Had(tagptr[t], snap[t], k) /\ Moved(snap[t], k) /\ Touched(snap[t].links[k].node)
<1>1. PICK k \in DOMAIN snap[t].links : ~Had(tagptr[t], snap[t], k) /\ Moved(snap[t], k)
  BY DEF Doomed
<1>2. snap[t].links[k].node \in Node
  BY Helper
<1>3. snap[t].links[k].scxPtr \in held[snap[t].links[k].node]
  BY Helper DEF Plan, WellFormed, Good
<1>4. scxPtr[snap[t].links[k].node] \in held[snap[t].links[k].node]
  BY <1>2 DEF ScxInv, Tags
<1>. QED  BY <1>1, <1>3, <1>4 DEF Moved, Touched

(* What has been frozen stays so.                                           *)
LEMMA TouchedStays ==
  ASSUME ScxInv, NEW t \in Thread, Step(t) \/ Call(t), NEW n \in Node
  PROVE  /\ Touched(n) => Touched(n)'
         /\ Lowest(n)' => Lowest(n)
<1>1. \A m \in Node : held[m] \subseteq held'[m]
  BY NodeEvolves
<1>. QED  BY <1>1 DEF Touched, Lowest

(* A node comes lower than another if it is later in the same scx.          *)
LEMMA Later ==
  ASSUME ScxInv, NEW t \in Thread, Helping(t),
         NEW j \in DOMAIN snap[t].links, NEW k \in DOMAIN snap[t].links, j < k
  PROVE  snap[t].links[j].node < snap[t].links[k].node
BY Helper DEF Plan, WellFormed, Increasing

(* An scx that freezes the lowest node is not doomed, and one that has      *)
(* frozen it is not aborted: what dooms it would be lower.                  *)
LEMMA LowestStep ==
  ASSUME ScxInv, LowestUndecided, NEW t \in Thread, Step(t) \/ Call(t)
  PROVE  LowestUndecided'
<1>1. SUFFICES ASSUME applied' = {}, NEW n \in Node, Lowest(n)', NEW g \in held'[n], g # INIT_SCX_HANDLE
               PROVE  InProgress(g)'
  BY DEF LowestUndecided
<1>2. applied = {}
  BY <1>1, NodeEvolves
<1>3. Lowest(n)
  BY <1>1, TouchedStays
<1>4. CASE g \notin held[n]
  <2>1. Freezes(t) /\ g = tagptr[t] /\ n = snap[t].links[i[t]].node
    BY <1>1, <1>4, HeldStep
  <2>2. /\ Helping(t) /\ i[t] \in DOMAIN snap[t].links
        /\ scxPtr[n] = snap[t].links[i[t]].scxPtr
        /\ UNCHANGED mutables
    BY <2>1, FreezeFacts
  <2>3. SUFFICES ASSUME Decided(g) PROVE FALSE
    BY <2>2 DEF Decided, InProgress, Current
  <2>4. Doomed(g, snap[t])
    BY <1>2, <2>1, <2>2, <2>3, Helper DEF Plan, Outcome
  <2>5. PICK k \in DOMAIN snap[t].links :
          ~Had(g, snap[t], k) /\ Moved(snap[t], k) /\ Touched(snap[t].links[k].node)
    BY <2>1, <2>2, <2>4, DoomedBy
  <2>6. k # i[t]
    BY <2>2, <2>1, <2>5 DEF Moved
  <2>7. ~(k < i[t])
    BY <2>1, <2>2, <2>5, Helper DEF HelpPhase, Freezes, Freeze
  <2>8. i[t] < k
    BY <2>2, <2>6, <2>7, Helper
  <2>9. n < snap[t].links[k].node /\ snap[t].links[k].node \in Node
    BY <2>1, <2>2, <2>8, Later, Helper
  <2>. QED  BY <1>3, <2>5, <2>9 DEF Lowest
<1>5. CASE g \in held[n]
  <2>1. InProgress(g)
    BY <1>1, <1>2, <1>3, <1>5 DEF LowestUndecided
  <2>2. SUFFICES ASSUME Decided(g)' PROVE FALSE
    BY DEF Decided
  <2>3. Started(g) /\ g \in Tag
    BY <1>5 DEF ScxInv, Tags, Started
  <2>4. (Abort(t) \/ CommitState(t)) /\ tagptr[t] = g
    BY <2>1, <2>2, <2>3, DecidedStep DEF Decided
  <2>5. Abort(t)
    BY <1>2, <2>4, CommitFacts
  <2>6. Helping(t) /\ Doomed(g, snap[t])
    BY <2>4, <2>5, AbortFacts
  <2>7. PICK k \in DOMAIN snap[t].links :
          ~Had(g, snap[t], k) /\ Moved(snap[t], k) /\ Touched(snap[t].links[k].node)
    BY <2>4, <2>6, DoomedBy
  <2>8. PICK j \in DOMAIN snap[t].links : snap[t].links[j].node = n
    BY <1>5, <2>4, <2>6, Helper DEF Plan, Freezing
  <2>9. Had(g, snap[t], j) /\ j # k
    BY <1>5, <2>7, <2>8 DEF Had
  <2>10. ~(k < j)
    BY <2>4, <2>6, <2>7, <2>9, Helper DEF Plan, Freezing
  <2>11. j < k
    BY <2>6, <2>9, <2>10, Helper
  <2>12. n < snap[t].links[k].node /\ snap[t].links[k].node \in Node
    BY <2>6, <2>8, <2>11, Later, Helper
  <2>. QED  BY <1>3, <2>7, <2>12 DEF Lowest
<1>. QED  BY <1>4, <1>5

(* An scx returns when it is decided: it has taken effect, or is doomed.    *)
LEMMA FrozenStep ==
  ASSUME ScxInv, SomeFrozen, NEW t \in Thread, Step(t) \/ Call(t)
  PROVE  SomeFrozen'
<1>1. SUFFICES ASSUME NEW u \in Thread, mutables'[u].seq > 3
               PROVE  \E n \in Node : Touched(n)
  BY TouchedStays DEF SomeFrozen
<1>2. CASE mutables[u].seq > 3
  BY <1>2 DEF SomeFrozen
<1>3. CASE ~(mutables[u].seq > 3)
  <2>1. mutables[u].seq \in Nat
    BY DEF ScxInv, Types, Mutables
  <2>2. mutables[u].seq = 3 /\ u = t /\ (ScxInitialized(t) \/ ScxReturn(t))
    BY <1>1, <1>3, <2>1, SeqStep
  <2>3. Executing(t)
    BY <2>2 DEF ScxInv, Descriptors
  <2>4. ScxReturn(t)
    BY <2>2, <2>3 DEF Executing, ScxInitialized, GoTo
  <2>5. Helping(t) /\ pc[t] = "return"
    BY <2>4 DEF ScxReturn, Leave, GoTo, Helping
  <2>6. Decided(tagptr[t])
    BY <2>5, Helper DEF HelpPhase
  <2>7. CASE tagptr[t] \in applied
    <3>1. Had(tagptr[t], snap[t], 1)
      BY <2>5, <2>7, Helper DEF Plan, Applied, AllHad
    <3>. QED  BY <2>5, <3>1, Helper DEF Had, Touched
  <2>8. CASE Doomed(tagptr[t], snap[t])
    BY <2>5, <2>8, DoomedBy, Helper
  <2>. QED  BY <2>5, <2>6, <2>7, <2>8, Helper DEF Plan, Outcome
<1>. QED  BY <1>2, <1>3

(* When no scx is being executed and some have been, one has taken effect:  *)
(* otherwise one that has frozen the lowest node would be undecided.        *)
THEOREM SomeSucceed == Spec => []NotAllFail
<1>1. Init => LowestUndecided /\ SomeFrozen
  BY DEF Init, LowestUndecided, SomeFrozen, NewMutables
<1>2. ScxInv /\ LowestUndecided /\ SomeFrozen /\ [Next]_vars => (LowestUndecided /\ SomeFrozen)'
  <2>1. CASE UNCHANGED vars
    BY <2>1 DEF vars, node, descriptor, LowestUndecided, SomeFrozen, Lowest, Touched, InProgress, Current
  <2>. QED  BY <2>1, LowestStep, FrozenStep DEF Next
<1>3. ScxInv /\ LowestUndecided /\ SomeFrozen => NotAllFail
  <2>1. SUFFICES ASSUME ScxInv, LowestUndecided, SomeFrozen, applied = {},
                        NEW u \in Thread, mutables[u].seq > 2,
                        \A t \in Thread : mutables[t].seq % 2 = 0
                 PROVE  FALSE
    BY DEF NotAllFail
  <2>2. mutables[u].seq > 3
    <3>1. mutables[u].seq \in Nat /\ mutables[u].seq % 2 = 0
      BY <2>1 DEF ScxInv, Types, Mutables
    <3>. QED  BY <2>1, <3>1
  <2>. DEFINE T == {n \in Node : Touched(n)}
  <2>3. T # {} /\ T \in SUBSET Node
    BY <2>1, <2>2 DEF SomeFrozen
  <2>4. PICK n \in T : \A m \in T : ~ (n < m)
    BY <2>3, Greatest
  <2>5. n \in Node /\ Touched(n) /\ Lowest(n)
    BY <2>4 DEF Lowest
  <2>6. PICK g \in held[n] : g # INIT_SCX_HANDLE
    BY <2>5 DEF Touched
  <2>7. InProgress(g)
    BY <2>1, <2>5, <2>6 DEF LowestUndecided
  <2>8. Started(g) /\ g[1] \in Thread
    BY <2>1, <2>5, <2>6, TagForm DEF ScxInv, Tags, Started
  <2>9. Current(g) /\ tagptr[g[1]] = g /\ Helping(g[1])
    BY <2>6, <2>7, <2>8 DEF InProgress, Started
  <2>10. Executing(g[1])
    BY <2>9 DEF Executing, Helping, Owner
  <2>11. PICK k \in Nat : mutables[g[1]].seq = 2 * k + 1
    BY <2>1, <2>8, <2>10 DEF ScxInv, Descriptors
  <2>12. (2 * k + 1) % 2 = 1
    BY <2>11
  <2>. QED  BY <2>1, <2>8, <2>11, <2>12
<1>. QED  BY <1>1, <1>2, <1>3, ScxInvariance, PTL DEF Spec

-----------------------------------------------------------------------------
(* The refinement. *)

(* A link is found by its node.                                             *)
LEMMA FieldsFound ==
  ASSUME NEW s \in Seq(Link), Increasing(s), NEW k \in DOMAIN s
  PROVE  FieldsIn(s, s[k].node) = s[k].fields
<1>. DEFINE n == s[k].node  j == CHOOSE l \in DOMAIN s : s[l].node = n
<1>1. j \in DOMAIN s /\ s[j].node = n
  OBVIOUS
<1>2. DOMAIN s = 1 .. Len(s) /\ Len(s) \in Nat
  OBVIOUS
<1>3. \A l \in DOMAIN s : s[l].node \in Int
  <2>1. \A e \in Link : e.node \in Int
    BY DEF Link, Node
  <2>2. \A l \in DOMAIN s : s[l] \in Link
    OBVIOUS
  <2>. QED  BY <2>1, <2>2
<1>4. FieldsIn(s, n) = s[j].fields
  BY DEF FieldsIn
<1>. HIDE DEF j
<1>5. j = k
  BY <1>1, <1>2, <1>3 DEF Increasing
<1>. QED  BY <1>4, <1>5

(* An update that links one more node, below the others, has linked this    *)
(* node and the others.                                                     *)
LEMMA FieldsAppended ==
  ASSUME NEW s \in Seq(Link), Increasing(s), NEW e \in Link,
         \A k \in DOMAIN s : s[k].node < e.node, NEW n \in Node
  PROVE  FieldsIn(Append(s, e), n) = IF n = e.node THEN e.fields ELSE FieldsIn(s, n)
<1>. DEFINE a == Append(s, e)
<1>1. /\ a \in Seq(Link)
      /\ DOMAIN a = 1 .. Len(s) + 1
      /\ a[Len(s) + 1] = e
      /\ \A k \in DOMAIN s : k \in DOMAIN a /\ a[k] = s[k]
      /\ DOMAIN s = 1 .. Len(s) /\ Len(s) \in Nat
  OBVIOUS
<1>. HIDE DEF a
<1>2. \A k \in DOMAIN a : k \in DOMAIN s \/ k = Len(s) + 1
  BY <1>1
<1>3. Increasing(a)
  BY <1>1, <1>2 DEF Increasing
<1>4. CASE n = e.node
  <2>1. Len(s) + 1 \in DOMAIN a
    BY <1>1
  <2>2. FieldsIn(a, a[Len(s) + 1].node) = a[Len(s) + 1].fields
    BY <1>1, <1>3, <2>1, FieldsFound
  <2>. QED  BY <1>1, <1>4, <2>2 DEF a
<1>5. CASE n # e.node /\ \E k \in DOMAIN s : s[k].node = n
  <2>1. PICK k \in DOMAIN s : s[k].node = n
    BY <1>5
  <2>2. FieldsIn(s, s[k].node) = s[k].fields
    BY FieldsFound
  <2>3. FieldsIn(a, a[k].node) = a[k].fields
    BY <1>1, <1>3, FieldsFound
  <2>. QED  BY <1>1, <1>5, <2>1, <2>2, <2>3 DEF a
<1>6. CASE n # e.node /\ ~\E k \in DOMAIN s : s[k].node = n
  BY <1>1, <1>2, <1>6 DEF FieldsIn, a
<1>. QED  BY <1>4, <1>5, <1>6

(* What has been linked.                                                    *)
LEMMA LinkedForm ==
  ASSUME Types, NEW t \in Thread
  PROVE  /\ link[t] = <<>> => Linked[t] = Promise!NoLinks
         /\ \A n \in Node : Linked[t][n] = FieldsIn(link[t], n)
<1>1. \A n \in Node : Linked[t][n] = FieldsIn(link[t], n)
  BY DEF Linked
<1>2. ASSUME link[t] = <<>> PROVE Linked[t] = Promise!NoLinks
  <2>1. DOMAIN link[t] = {}
    BY <1>2
  <2>. QED  BY <2>1 DEF Linked, FieldsIn, Promise!NoLinks
<1>. QED  BY <1>1, <1>2

(* A thread whose list of links becomes empty has linked nothing.           *)
LEMMA LinksGone ==
  ASSUME Types, NEW t \in Thread, link' = [link EXCEPT ![t] = <<>>]
  PROVE  Linked' = [Linked EXCEPT ![t] = Promise!NoLinks]
<1>1. link'[t] = <<>> /\ \A v \in Thread : v # t => link'[v] = link[v]
  BY DEF Types
<1>2. \A n \in Node : FieldsIn(link'[t], n) = None
  <2>1. DOMAIN link'[t] = {}
    BY <1>1
  <2>. QED  BY <2>1 DEF FieldsIn
<1>3. Linked' = [v \in Thread |-> [n \in Node |-> FieldsIn(link'[v], n)]]
  BY DEF Linked
<1>4. Linked = [v \in Thread |-> [n \in Node |-> FieldsIn(link[v], n)]]
  BY DEF Linked
<1>5. Promise!NoLinks = [n \in Node |-> None]
  BY DEF Promise!NoLinks
<1>. QED  BY <1>1, <1>2, <1>3, <1>4, <1>5

(* Whom an abstract request belongs to.                                     *)
LEMMA RequestForm ==
  ASSUME Types, Prepared, NEW t \in Thread, WellFormed(desc[t])
  PROVE  /\ RequestOf(t) \in Request
         /\ RequestOf(t) # None
<1>1. /\ desc[t].links \in Seq(Link) /\ desc[t].links # <<>>
      /\ desc[t].finalize \subseteq Node
      /\ desc[t].field \in Field
      /\ \A k \in DOMAIN desc[t].links : desc[t].links[k].node \in Node
  BY LinkTypes DEF WellFormed
<1>2. 1 \in DOMAIN desc[t].links
  BY <1>1
<1>3. tagptr[t] \in Value
  BY DEF Types, Value
<1>4. {desc[t].links[k].node : k \in DOMAIN desc[t].links} \subseteq Node
  BY <1>1
<1>5. RequestOf(t) \in Request
  BY <1>1, <1>2, <1>3, <1>4 DEF RequestOf, Request
<1>. QED  BY <1>5, NoneAssumption

(* The owner of an scx that is executed has prepared it.                    *)
LEMMA OwnersRequest ==
  ASSUME ScxInv, NEW t \in Thread, Executing(t)
  PROVE  /\ Helping(t)
         /\ Current(tagptr[t])
         /\ snap[t] = desc[t]
         /\ desc[t].links = link[t]
         /\ WellFormed(desc[t])
         /\ RequestOf(t) # None
         /\ Requested[t] = RequestOf(t)
<1>1. Helping(t) /\ Owner(t)
  BY DEF Executing, Helping
<1>2. Current(tagptr[t]) /\ tagptr[t][1] = t
  BY <1>1 DEF ScxInv, Tags, Owner
<1>3. Outcome(tagptr[t], snap[t]) /\ WellFormed(snap[t])
  BY <1>1, Helper DEF Plan
<1>4. snap[t] = desc[t]
  BY <1>2, <1>3 DEF Outcome
<1>5. desc[t].links = link[t]
  BY DEF ScxInv, Prepared
<1>6. RequestOf(t) # None
  BY <1>3, <1>4, RequestForm DEF ScxInv
<1>. QED  BY <1>1, <1>2, <1>3, <1>4, <1>5, <1>6 DEF Requested

(* The abstract request of an owner does not change while it executes.      *)
LEMMA RequestsStay ==
  ASSUME ScxInv, NEW t \in Thread, Step(t) \/ Call(t), ~ScxInitialized(t), ~ScxReturn(t)
  PROVE  /\ Requested' = Requested
         /\ \A v \in Thread : Executing(v)' <=> Executing(v)
         /\ \A v \in Thread : Executing(v) => tagptr'[v] = tagptr[v] /\ desc'[v] = desc[v]
         /\ applied' = applied => Done' = Done
<1>1. \A v \in Thread : Executing(v)' <=> Executing(v)
  BY ExecutingStep
<1>2. ASSUME NEW v \in Thread, Executing(v) PROVE tagptr'[v] = tagptr[v] /\ desc'[v] = desc[v]
  <2>1. CASE v # t
    BY <2>1, OnlyOwn DEF ScxInv, Private
  <2>2. CASE v = t
    <3>1. Helping(t) /\ ~LlxReturn(t)
      BY <1>2, <2>2 DEF Executing, Helping, LlxReturn
    <3>. QED  BY <2>2, <3>1, StaysHelping DEF ScxInv
  <2>. QED  BY <2>1, <2>2
<1>3. Requested' = [v \in Thread |-> IF Executing(v)' THEN RequestOf(v)' ELSE None]
  BY DEF Requested
<1>4. \A v \in Thread : Executing(v) => RequestOf(v)' = RequestOf(v)
  BY <1>2 DEF RequestOf
<1>5. Requested' = Requested
  BY <1>1, <1>3, <1>4 DEF Requested
<1>6. ASSUME applied' = applied PROVE Done' = Done
  <2>1. Done' = {v \in Thread : Executing(v)' /\ tagptr'[v] \in applied'}
    BY DEF Done
  <2>. QED  BY <1>1, <1>2, <1>6, <2>1 DEF Done
<1>. QED  BY <1>1, <1>2, <1>5, <1>6

(* A step that changes neither the nodes nor what has been linked or        *)
(* answered is none of the promise's.                                       *)
LEMMA Stutters ==
  ASSUME ScxInv, NEW t \in Thread, Step(t) \/ Call(t), ~ScxInitialized(t), ~ScxReturn(t),
         UNCHANGED <<marked, scxPtr, field, applied, link, answer>>
  PROVE  UNCHANGED Promise!vars
<1>1. Requested' = Requested /\ Done' = Done
  BY RequestsStay
<1>2. Finalized' = Finalized
  BY DEF Finalized
<1>3. Linked' = Linked
  BY DEF Linked
<1>. QED  BY <1>1, <1>2, <1>3 DEF Promise!vars

(* Freezing is invisible: the node is not finalized.                        *)
LEMMA FreezeImplements ==
  ASSUME ScxInv, NEW t \in Thread, Freeze(t)
  PROVE  UNCHANGED Promise!vars
<1>1. Step(t)
  BY DEF Step, Help
<1>2. ~ScxInitialized(t) /\ ~ScxReturn(t)
  BY DEF Freeze, ScxInitialized, ScxReturn, Leave, GoTo
<1>3. UNCHANGED <<marked, field, applied, link, answer>>
  BY DEF Freeze
<1>4. Requested' = Requested /\ Done' = Done
  BY <1>1, <1>2, <1>3, RequestsStay
<1>5. \A n \in Node : scxPtr'[n] # scxPtr[n] => ~marked[n]
  BY <1>1, NodeEvolves
<1>6. Finalized' = Finalized
  BY <1>3, <1>5 DEF Finalized
<1>7. Linked' = Linked
  BY <1>3 DEF Linked
<1>. QED  BY <1>3, <1>4, <1>6, <1>7 DEF Promise!vars

(* So is marking: it shows when the scx writes its field.                   *)
LEMMA MarkImplements ==
  ASSUME ScxInv, NEW t \in Thread, Mark(t)
  PROVE  UNCHANGED Promise!vars
<1>1. Step(t)
  BY DEF Step, Help
<1>2. ~ScxInitialized(t) /\ ~ScxReturn(t)
  BY DEF Mark, ScxInitialized, ScxReturn, Leave, GoTo
<1>3. UNCHANGED <<scxPtr, field, applied, link, answer>>
  BY DEF Mark
<1>4. Requested' = Requested /\ Done' = Done
  BY <1>1, <1>2, <1>3, RequestsStay
<1>5. \A n \in Node : marked'[n] # marked[n] => ~marked[n] /\ scxPtr[n] \notin applied
  <2>1. CASE ~Marks(t)
    BY <2>1 DEF Mark, Marks
  <2>2. CASE Marks(t)
    <3>. DEFINE m == snap[t].links[i[t]].node
    <3>1. /\ m \in Node
          /\ ~marked[m] => scxPtr[m] \notin applied
          /\ marked' = [marked EXCEPT ![m] = TRUE]
      BY <2>2, MarkFacts
    <3>2. marked \in [Node -> BOOLEAN]
      BY DEF ScxInv, Types
    <3>. HIDE DEF m
    <3>. QED  BY <3>1, <3>2
  <2>. QED  BY <2>1, <2>2
<1>6. Finalized' = Finalized
  BY <1>3, <1>5 DEF Finalized
<1>7. Linked' = Linked
  BY <1>3 DEF Linked
<1>. QED  BY <1>3, <1>4, <1>6, <1>7 DEF Promise!vars

(* The update CAS that succeeds for an scx is where it takes effect, for    *)
(* its owner, whoever executes it: its nodes are as the owner linked them,  *)
(* and the ones it finalizes are marked.                                    *)
LEMMA UpdateImplements ==
  ASSUME ScxInv, NEW t \in Thread, Updates(t)
  PROVE  \E u \in Thread : Promise!Commit(u)
<1>. DEFINE g == tagptr[t]  u == g[1]  d == snap[t]
<1>1. /\ Helping(t)
      /\ InProgress(g)
      /\ g \notin applied
      /\ d.field \in Field
      /\ \A k \in DOMAIN d.links :
           /\ scxPtr[d.links[k].node] = g
           /\ field[d.links[k].node] = d.links[k].fields
           /\ marked[d.links[k].node] => d.links[k].node \in d.finalize
           /\ d.links[k].node \in d.finalize => marked[d.links[k].node]
      /\ field' = [field EXCEPT ![d.links[1].node][d.field] = g]
      /\ applied' = applied \cup {g}
      /\ UNCHANGED <<marked, scxPtr, desc, tagptr, link>>
  BY UpdateFacts
<1>2. u \in Thread /\ Started(g) /\ Current(g) /\ WellFormed(d) /\ Freezing(g, d) /\ Outcome(g, d)
  BY <1>1, Helper DEF Plan, InProgress
<1>3. tagptr[u] = g /\ Helping(u) /\ Executing(u) /\ desc[u] = d
  BY <1>2 DEF Started, Current, Helping, Executing, Owner, Outcome
<1>4. /\ Requested[u] = RequestOf(u) /\ RequestOf(u) # None
      /\ d.links = link[u]
  BY <1>2, <1>3, OwnersRequest
<1>. DEFINE nodes == {d.links[k].node : k \in DOMAIN d.links}
<1>5. /\ RequestOf(u).nodes = nodes
      /\ RequestOf(u).finalize = d.finalize
      /\ RequestOf(u).node = d.links[1].node
      /\ RequestOf(u).field = d.field
      /\ RequestOf(u).new = g
  BY <1>3 DEF RequestOf
<1>6. u \notin Done
  BY <1>1, <1>3 DEF Done
<1>7. ASSUME NEW m \in nodes PROVE m \notin Finalized /\ field[m] = Linked[u][m]
  <2>1. PICK k \in DOMAIN d.links : m = d.links[k].node
    OBVIOUS
  <2>2. m \in Node /\ link[u] \in Seq(Link) /\ Increasing(link[u])
    BY <1>1, <1>2, <1>4, <2>1, Helper DEF WellFormed
  <2>3. FieldsIn(link[u], link[u][k].node) = link[u][k].fields
    BY <1>4, <2>1, <2>2, FieldsFound
  <2>4. Linked[u][m] = FieldsIn(link[u], m)
    BY <1>2, <2>2, LinkedForm DEF ScxInv
  <2>. QED  BY <1>1, <1>4, <2>1, <2>3, <2>4 DEF Finalized
<1>8. Finalized' = Finalized \cup d.finalize
  <2>1. ASSUME NEW n \in Node, scxPtr[n] = g PROVE marked[n] <=> n \in d.finalize
    <3>1. g \in held[n]
      BY <2>1 DEF ScxInv, Tags
    <3>2. PICK k \in DOMAIN d.links : d.links[k].node = n
      BY <1>2, <3>1 DEF Freezing
    <3>. QED  BY <1>1, <3>2
  <2>2. d.finalize \subseteq nodes /\ d.finalize \subseteq Node
    <3>1. d.finalize \subseteq {d.links[k].node : k \in 2 .. Len(d.links)}
      BY <1>2 DEF WellFormed
    <3>2. 2 .. Len(d.links) \subseteq DOMAIN d.links
      BY <1>1, Helper
    <3>. QED  BY <1>1, <3>1, <3>2, Helper
  <2>3. \A n \in d.finalize : scxPtr[n] = g
    BY <1>1, <2>2
  <2>4. Finalized' = {n \in Node : marked[n] /\ scxPtr[n] \in applied \cup {g}}
    BY <1>1 DEF Finalized
  <2>. HIDE DEF g, d
  <2>. QED  BY <2>1, <2>2, <2>3, <2>4 DEF Finalized
<1>9. Done' = Done \cup {u}
  <2>1. /\ Step(t)
        /\ ~ScxInitialized(t) /\ ~ScxReturn(t)
    BY DEF Step, Help, Updates, Update, ScxInitialized, ScxReturn, Leave, GoTo
  <2>2. \A v \in Thread : Executing(v)' <=> Executing(v)
    BY <2>1, RequestsStay
  <2>3. \A v \in Thread : Executing(v) => (tagptr[v] = g <=> v = u)
    BY <1>3 DEF Executing, Owner
  <2>4. Done' = {v \in Thread : Executing(v) /\ tagptr[v] \in applied \cup {g}}
    BY <1>1, <2>2 DEF Done
  <2>. HIDE DEF g
  <2>. QED  BY <1>2, <1>3, <2>3, <2>4 DEF Done
<1>10. Requested' = Requested /\ Linked' = Linked /\ answer' = answer
  <2>1. /\ Step(t)
        /\ ~ScxInitialized(t) /\ ~ScxReturn(t)
    BY DEF Step, Help, Updates, Update, ScxInitialized, ScxReturn, Leave, GoTo
  <2>2. answer' = answer
    BY DEF Updates, Update
  <2>3. Linked' = Linked
    BY <1>1 DEF Linked
  <2>. QED  BY <2>1, <2>2, <2>3, RequestsStay
<1>. HIDE DEF g, u, d, nodes
<1>11. Promise!Commit(u)
  BY <1>1, <1>4, <1>5, <1>6, <1>7, <1>8, <1>9, <1>10 DEF Promise!Commit
<1>. QED  BY <1>2, <1>11

(* DESC1_INITIALIZED is the invocation: the nodes have been linked, and     *)
(* the field to change is one of a node that is not to be finalized.        *)
LEMMA InitializedImplements ==
  ASSUME ScxInv, NEW t \in Thread, ScxInitialized(t)
  PROVE  Promise!Invoke(t)
<1>. DEFINE g == <<t, mutables[t].seq + 1>>  d == desc[t]
            nodes == {d.links[k].node : k \in DOMAIN d.links}
            r == [nodes |-> nodes, finalize |-> d.finalize, node |-> d.links[1].node,
                  field |-> d.field, new |-> g]
<1>1. /\ pc[t] = "scx" /\ ~Helping(t)
      /\ pc' = [pc EXCEPT ![t] = "freeze"]
      /\ g \in Tag /\ g \notin applied
      /\ tagptr'[t] = g
      /\ UNCHANGED <<marked, scxPtr, field, applied, desc, link>>
  BY InitializedFacts
<1>2. WellFormed(d) /\ d.links = link[t]
  BY <1>1 DEF ScxInv, Prepared
<1>3. ~Executing(t) /\ Executing(t)'
  BY <1>1 DEF Executing, Helping, Owner, ScxInv, Types
<1>4. ASSUME NEW v \in Thread, v # t
      PROVE  (Executing(v)' <=> Executing(v)) /\ tagptr'[v] = tagptr[v] /\ desc'[v] = desc[v]
  BY <1>4, OnlyOwn DEF ScxInv, Private, Executing, Owner, Step
<1>5. Requested[t] = None /\ Requested \in [Thread -> Request \cup {None}]
  <2>1. ASSUME NEW v \in Thread, Executing(v) PROVE RequestOf(v) \in Request
    BY <2>1, OwnersRequest, RequestForm DEF ScxInv
  <2>. QED  BY <1>3, <2>1 DEF Requested
<1>6. /\ d.links \in Seq(Link) /\ 1 \in DOMAIN d.links
      /\ \A k \in DOMAIN d.links : d.links[k].node \in Node /\ d.links[k] \in Link
      /\ DOMAIN d.links = 1 .. Len(d.links) /\ Len(d.links) \in Nat
  <2>1. d.links \in Seq(Link) /\ d.links # <<>> /\ \A k \in DOMAIN d.links : d.links[k].node \in Node
    BY <1>2, LinkTypes DEF WellFormed
  <2>. QED  BY <2>1
<1>7. nodes \in SUBSET {m \in Node : Linked[t][m] # None}
  <2>1. ASSUME NEW k \in DOMAIN d.links PROVE Linked[t][d.links[k].node] # None
    <3>1. FieldsIn(link[t], link[t][k].node) = link[t][k].fields
      BY <1>2, <1>6, FieldsFound DEF WellFormed
    <3>2. link[t][k].fields \in Snapshot
      BY <1>2, <1>6 DEF Link
    <3>3. Linked[t][d.links[k].node] = FieldsIn(link[t], d.links[k].node)
      BY <1>6, LinkedForm DEF ScxInv
    <3>. QED  BY <1>2, <3>1, <3>2, <3>3, NoneAssumption
  <2>. QED  BY <1>6, <2>1
<1>8. /\ d.finalize \in SUBSET nodes
      /\ d.links[1].node \in nodes
      /\ d.links[1].node \notin d.finalize
  <2>1. d.finalize \subseteq {d.links[k].node : k \in 2 .. Len(d.links)}
    BY <1>2 DEF WellFormed
  <2>2. \A k \in 2 .. Len(d.links) : k \in DOMAIN d.links /\ d.links[1].node # d.links[k].node
    <3>1. \A n \in Node : n \in Int
      BY DEF Node
    <3>. QED  BY <1>2, <1>6, <3>1 DEF WellFormed, Increasing
  <2>. QED  BY <1>6, <2>1, <2>2
<1>9. d.field \in Field /\ g \in Value
  BY <1>1, <1>2 DEF WellFormed, Value
<1>10. RequestOf(t)' = r
  BY <1>1 DEF RequestOf
<1>11. r \in Request
  BY <1>6, <1>7, <1>8, <1>9 DEF Request
<1>12. Requested' = [Requested EXCEPT ![t] = r]
  <2>1. Requested' = [v \in Thread |-> IF Executing(v)' THEN RequestOf(v)' ELSE None]
    BY DEF Requested
  <2>2. \A v \in Thread : v # t => RequestOf(v)' = RequestOf(v)
    BY <1>4 DEF RequestOf
  <2>. HIDE DEF r
  <2>. QED  BY <1>3, <1>4, <1>10, <2>1, <2>2 DEF Requested
<1>13. Requested' # Requested
  <2>. HIDE DEF r
  <2>. QED  BY <1>5, <1>11, <1>12, NoneAssumption
<1>14. Finalized' = Finalized /\ Linked' = Linked /\ answer' = answer
  BY <1>1 DEF Finalized, Linked, ScxInitialized
<1>15. Done' = Done
  <2>1. Done' = {v \in Thread : Executing(v)' /\ tagptr'[v] \in applied}
    BY <1>1 DEF Done
  <2>. HIDE DEF g
  <2>. QED  BY <1>1, <1>3, <1>4, <2>1 DEF Done
<1>16. field' = field
  BY <1>1
<1>17. \E ns \in SUBSET {m \in Node : Linked[t][m] # None} :
         \E finalize \in SUBSET ns, n \in ns, f \in Field, new \in Value :
           /\ n \notin finalize
           /\ Requested' = [Requested EXCEPT ![t] =
                [nodes |-> ns, finalize |-> finalize, node |-> n, field |-> f, new |-> new]]
  <2>. HIDE DEF nodes, d, g
  <2>. QED  BY <1>7, <1>8, <1>9, <1>12 DEF r
<1>. HIDE DEF g, d, nodes, r
<1>. QED  BY <1>5, <1>13, <1>14, <1>15, <1>16, <1>17 DEF Promise!Invoke

(* What scx returns is what it has done.                                    *)
LEMMA ReturnImplements ==
  ASSUME ScxInv, NEW t \in Thread, ScxReturn(t)
  PROVE  Promise!Return(t)
<1>. DEFINE g == tagptr[t]
<1>1. /\ pc[t] = "return" /\ Owner(t) /\ Helping(t) /\ Executing(t)
      /\ pc' = [pc EXCEPT ![t] = "idle"]
      /\ answer' = [answer EXCEPT ![t] = IF result[t] = "COMMITTED" THEN "true" ELSE "false"]
      /\ link' = [link EXCEPT ![t] = <<>>]
      /\ UNCHANGED <<marked, scxPtr, field, applied, desc>>
  BY DEF ScxReturn, Leave, GoTo, Helping, Executing, node
<1>2. /\ Requested[t] # None
      /\ Current(g) /\ snap[t] = desc[t]
  BY <1>1, OwnersRequest
<1>3. result[t] = "COMMITTED" <=> t \in Done
  <2>1. StateIs(g, result[t]) /\ Outcome(g, snap[t]) /\ Applied(g, snap[t])
    BY <1>1, <1>2, Helper DEF HelpPhase, Plan
  <2>2. result[t] \in {"COMMITTED", "ABORTED"}
    BY DEF ScxInv, Types
  <2>3. StateIs(g, "ABORTED") => g \notin applied
    <3>1. SUFFICES ASSUME StateIs(g, "ABORTED"), g \in applied PROVE FALSE
      OBVIOUS
    <3>2. Doomed(g, snap[t]) /\ AllHad(g, snap[t])
      BY <1>2, <2>1, <3>1 DEF Outcome, Applied
    <3>. QED  BY <3>2 DEF Doomed, AllHad
  <2>. QED  BY <1>1, <1>2, <2>1, <2>2, <2>3 DEF Outcome, Done
<1>4. ~Executing(t)'
  BY <1>1 DEF Executing, ScxInv, Types
<1>5. ASSUME NEW v \in Thread, v # t
      PROVE  (Executing(v)' <=> Executing(v)) /\ tagptr'[v] = tagptr[v] /\ desc'[v] = desc[v]
  BY <1>5, OnlyOwn DEF ScxInv, Private, Executing, Owner, Step
<1>6. Requested' = [Requested EXCEPT ![t] = None]
  <2>1. Requested' = [v \in Thread |-> IF Executing(v)' THEN RequestOf(v)' ELSE None]
    BY DEF Requested
  <2>2. \A v \in Thread : v # t => RequestOf(v)' = RequestOf(v)
    BY <1>5 DEF RequestOf
  <2>. QED  BY <1>4, <1>5, <2>1, <2>2 DEF Requested
<1>7. Done' = Done \ {t}
  BY <1>1, <1>4, <1>5 DEF Done
<1>8. Linked' = [Linked EXCEPT ![t] = Promise!NoLinks]
  BY <1>1, LinksGone DEF ScxInv
<1>9. answer' = [answer EXCEPT ![t] = IF t \in Done THEN "true" ELSE "false"]
  BY <1>1, <1>3
<1>10. UNCHANGED <<field, Finalized>>
  BY <1>1 DEF Finalized
<1>. QED  BY <1>2, <1>6, <1>7, <1>8, <1>9, <1>10 DEF Promise!Return

(* An llx that has read the same scxPtr twice, and that was not in          *)
(* progress, has a snapshot.                                                *)
LEMMA LinkImplements ==
  ASSUME ScxInv, NEW t \in Thread, LlxValidate(t), scxPtr[srcNode[t]] = tagptr[t]
  PROVE  Promise!Llx(t, srcNode[t])
<1>. DEFINE n == srcNode[t]
            e == [node |-> n, scxPtr |-> tagptr[t], fields |-> dest[t]]
<1>1. /\ pc[t] = "llx.copy"
      /\ \A f \in Field : dest[t][f] # None
      /\ answer' = [answer EXCEPT ![t] = "linked"]
      /\ link' = [link EXCEPT ![t] = Append(@, e)]
      /\ UNCHANGED <<marked, scxPtr, field, applied>>
  BY DEF LlxValidate, Leave, node
<1>2. /\ Step(t)
      /\ ~ScxInitialized(t) /\ ~ScxReturn(t) /\ ~Executing(t)
  BY <1>1 DEF Step, ScxInitialized, ScxReturn, Leave, GoTo, Executing
<1>3. Requested[t] = None
  BY <1>2 DEF Requested
<1>4. /\ ~marked[n]
      /\ \A f \in Field : dest[t][f] = field[n][f]
      /\ \A k \in DOMAIN link[t] : link[t][k].node < n
  BY <1>1 DEF ScxInv, LlxPhases, LlxPhase, Linking, Helping
<1>5. /\ n \in Node /\ field[n] \in Snapshot /\ tagptr[t] \in Tag
      /\ dest[t] \in [Field -> Tag \cup {None}]
      /\ link[t] \in Seq(Link) /\ Increasing(link[t])
      /\ Linked = [v \in Thread |-> [m \in Node |-> FieldsIn(link[v], m)]]
      /\ \A v \in Thread : v # t => link'[v] = link[v]
      /\ link'[t] = Append(link[t], e)
  BY <1>1 DEF ScxInv, Types, Links, Linked
<1>6. dest[t] = field[n]
  BY <1>4, <1>5 DEF Snapshot
<1>7. e \in Link /\ e.node = n /\ e.fields = field[n]
  BY <1>5, <1>6 DEF Link
<1>8. \A m \in Node : FieldsIn(link'[t], m) = IF m = n THEN field[n] ELSE FieldsIn(link[t], m)
  <2>. HIDE DEF e, n
  <2>. QED  BY <1>4, <1>5, <1>7, FieldsAppended
<1>9. Linked' = [Linked EXCEPT ![t][n] = field[n]]
  <2>1. Linked' = [v \in Thread |-> [m \in Node |-> FieldsIn(link'[v], m)]]
    BY DEF Linked
  <2>2. \A v \in Thread : v # t => Linked'[v] = Linked[v]
    BY <1>5, <2>1
  <2>3. Linked'[t] = [m \in Node |-> FieldsIn(link'[t], m)]
    BY <2>1
  <2>4. Linked[t] = [m \in Node |-> FieldsIn(link[t], m)]
    BY <1>5
  <2>. HIDE DEF n
  <2>5. Linked'[t] = [Linked[t] EXCEPT ![n] = field[n]]
    BY <1>5, <1>8, <2>3, <2>4
  <2>6. DOMAIN Linked = Thread /\ DOMAIN Linked' = Thread /\ Linked = [v \in Thread |-> Linked[v]]
        /\ Linked' = [v \in Thread |-> Linked'[v]]
    BY <1>5, <2>1
  <2>. QED  BY <2>2, <2>5, <2>6
<1>10. n \notin Finalized /\ Finalized' = Finalized
  BY <1>1, <1>4 DEF Finalized
<1>11. Requested' = Requested /\ Done' = Done
  BY <1>1, <1>2, RequestsStay
<1>. HIDE DEF n, e
<1>. QED  BY <1>1, <1>3, <1>9, <1>10, <1>11 DEF Promise!Llx, n

(* An llx that says that the node has been finalized is right.              *)
LEMMA FailureImplements ==
  ASSUME ScxInv, NEW t \in Thread, Step(t), NEW from, Unsuccessful(t, from),
         \/ pc[t] \in {"llx.marked", "llx.copy"}
         \/ pc[t] = "helpOther.check" /\ ~Current(tagptr[t])
         \/ pc[t] = "return" /\ ~Owner(t),
         UNCHANGED <<node, descriptor, applied>>
  PROVE  \E n \in Node, reason \in {"FINALIZED", "FAILED"} : Promise!LlxUnsuccessful(t, n, reason)
<1>. DEFINE n == srcNode[t]  reason == IF seenMarked[t] THEN "FINALIZED" ELSE "FAILED"
<1>1. /\ answer' = [answer EXCEPT ![t] = reason]
      /\ link' = [link EXCEPT ![t] = <<>>]
      /\ UNCHANGED <<marked, scxPtr, field, applied>>
  BY DEF Unsuccessful, Leave, node
<1>2. /\ ~ScxInitialized(t) /\ ~ScxReturn(t) /\ ~Executing(t)
  BY DEF ScxInitialized, ScxReturn, Leave, GoTo, Executing, Helping
<1>3. Requested[t] = None
  BY <1>2 DEF Requested
<1>4. Decided(tagptr[t])
  <2>1. CASE pc[t] = "return"
    BY <2>1, Helper DEF Helping, HelpPhase
  <2>2. CASE pc[t] = "helpOther.check"
    BY <2>2 DEF Decided, InProgress
  <2>3. CASE pc[t] \in {"llx.marked", "llx.copy"}
    BY <2>3 DEF ScxInv, LlxPhases, LlxPhase
  <2>. QED  BY <2>1, <2>2, <2>3
<1>5. n \in Node /\ (seenMarked[t] => marked[n] /\ tagptr[t] = scxPtr[n])
  BY DEF ScxInv, Types, LlxPhases, LlxPhase, Linking, Helping
<1>6. seenMarked[t] => n \in Finalized
  BY <1>4, <1>5 DEF ScxInv, MarkedBy, Decided, Finalized
<1>7. Linked' = [Linked EXCEPT ![t] = Promise!NoLinks]
  BY <1>1, LinksGone DEF ScxInv
<1>8. Requested' = Requested /\ Done' = Done
  BY <1>1, <1>2, RequestsStay
<1>9. Finalized' = Finalized
  BY <1>1 DEF Finalized
<1>10. Promise!LlxUnsuccessful(t, n, reason)
  <2>. HIDE DEF n
  <2>. QED  BY <1>1, <1>3, <1>6, <1>7, <1>8, <1>9 DEF Promise!LlxUnsuccessful
<1>. HIDE DEF n
<1>. QED  BY <1>5, <1>10

(* Every step is one of the promise's, or changes nothing that it sees.     *)
LEMMA StepImplements == ScxInv /\ [Next]_vars => [Promise!Next]_(Promise!vars)
<1>1. CASE UNCHANGED vars
  BY <1>1 DEF vars, node, descriptor, locals, llxLocals, helpLocals, Promise!vars, Finalized, Linked,
     Requested, Done, RequestOf, Executing, Owner
<1>2. ASSUME ScxInv, NEW t \in Thread, Step(t) \/ Call(t)
      PROVE  Promise!Next \/ UNCHANGED Promise!vars
  <2>1. CASE Freeze(t) \/ Mark(t)
    BY <1>2, <2>1, FreezeImplements, MarkImplements
  <2>2. CASE Update(t)
    <3>1. CASE Updates(t)
      BY <1>2, <3>1, UpdateImplements DEF Promise!Next
    <3>2. CASE ~Updates(t)
      <4>1. /\ UNCHANGED <<marked, scxPtr, field, applied, link, answer>>
            /\ ~ScxInitialized(t) /\ ~ScxReturn(t)
        BY <2>2, <3>2 DEF Update, Updates, ScxInitialized, ScxReturn, Leave, GoTo
      <4>. QED  BY <1>2, <4>1, Stutters
    <3>. QED  BY <3>1, <3>2
  <2>3. CASE ScxInitialized(t)
    BY <1>2, <2>3, InitializedImplements DEF Promise!Next
  <2>4. CASE ScxReturn(t)
    BY <1>2, <2>4, ReturnImplements DEF Promise!Next
  <2>5. CASE GiveUp(t)
    <3>1. /\ UNCHANGED <<marked, scxPtr, field, applied, answer>>
          /\ link' = [link EXCEPT ![t] = <<>>]
          /\ ~Executing(t)
      BY <2>5 DEF GiveUp, node, Executing
    <3>2. ~ScxInitialized(t) /\ ~ScxReturn(t)
      BY <2>5 DEF GiveUp, ScxInitialized, ScxReturn, Leave, GoTo
    <3>3. Requested' = Requested /\ Done' = Done
      BY <1>2, <3>1, <3>2, RequestsStay
    <3>4. Linked' = [Linked EXCEPT ![t] = Promise!NoLinks]
      BY <1>2, <3>1, LinksGone DEF ScxInv
    <3>5. Requested[t] = None /\ Finalized' = Finalized
      BY <3>1 DEF Requested, Finalized
    <3>6. Promise!GiveUp(t)
      BY <3>1, <3>3, <3>4, <3>5 DEF Promise!GiveUp
    <3>. QED  BY <3>6 DEF Promise!Next
  <2>6. CASE LlxValidate(t) /\ scxPtr[srcNode[t]] = tagptr[t]
    <3>1. srcNode[t] \in Node
      BY <1>2 DEF ScxInv, Types
    <3>. QED  BY <1>2, <2>6, <3>1, LinkImplements DEF Promise!Next
  <2>7. CASE \/ LlxValidate(t) /\ scxPtr[srcNode[t]] # tagptr[t]
             \/ LlxReadMarked(t) /\ marked[srcNode[t]]
             \/ HelpOtherCheck(t) /\ ~Current(tagptr[t])
             \/ LlxReturn(t)
    <3>1. PICK from :
            /\ Unsuccessful(t, from)
            /\ UNCHANGED <<node, descriptor, applied>>
            /\ \/ pc[t] \in {"llx.marked", "llx.copy"}
               \/ pc[t] = "helpOther.check" /\ ~Current(tagptr[t])
               \/ pc[t] = "return" /\ ~Owner(t)
      <4>1. LlxReturn(t) => pc[t] = "return"
        BY DEF LlxReturn, Unsuccessful, Leave, GoTo
      <4>. QED  BY <2>7, <4>1 DEF LlxValidate, LlxReadMarked, HelpOtherCheck, LlxReturn
    <3>2. Step(t)
      BY <2>7 DEF Step
    <3>. QED  BY <1>2, <3>1, <3>2, FailureImplements DEF Promise!Next
  <2>8. CASE \/ (\E n \in Node : LlxStart(t, n))
             \/ (\E finalize \in SUBSET Node, f \in Field : ScxPrepare(t, finalize, f))
             \/ LlxReadScxPtr(t) \/ LlxReadState(t) \/ (\E f \in Field : LlxCopy(t, f))
    <3>1. UNCHANGED <<marked, scxPtr, field, applied, link, answer>>
      BY <2>8 DEF LlxStart, ScxPrepare, LlxReadScxPtr, LlxReadState, LlxCopy, node
    <3>2. pc[t] \notin {"scx", "return"}
      BY <2>8 DEF LlxStart, ScxPrepare, LlxReadScxPtr, LlxReadState, LlxCopy, GoTo
    <3>3. ~ScxInitialized(t) /\ ~ScxReturn(t)
      BY <3>2 DEF ScxInitialized, ScxReturn, Leave, GoTo
    <3>. QED  BY <1>2, <3>1, <3>3, Stutters
  <2>9. CASE \/ HelpOtherCopy(t)
             \/ HelpOtherCheck(t) /\ Current(tagptr[t])
             \/ LlxReadMarked(t) /\ ~marked[srcNode[t]]
             \/ FreezeReread(t) \/ ReadAllFrozen(t) \/ Abort(t) \/ WriteAllFrozen(t) \/ CommitState(t)
    <3>1. UNCHANGED <<marked, scxPtr, field, applied, link, answer>>
      BY <2>9 DEF HelpOtherCopy, HelpOtherCheck, LlxReadMarked, FreezeReread, ReadAllFrozen, Abort,
         WriteAllFrozen, CommitState, node
    <3>2. pc[t] \notin {"scx", "return"}
      BY <2>9 DEF HelpOtherCopy, HelpOtherCheck, LlxReadMarked, FreezeReread, ReadAllFrozen, Abort,
         WriteAllFrozen, CommitState, GoTo
    <3>3. ~ScxInitialized(t) /\ ~ScxReturn(t)
      BY <3>2 DEF ScxInitialized, ScxReturn, Leave, GoTo
    <3>. QED  BY <1>2, <3>1, <3>3, Stutters
  <2>. QED
    BY <1>2, <2>1, <2>2, <2>3, <2>4, <2>5, <2>6, <2>7, <2>8, <2>9 DEF Step, Call, Help
<1>. QED  BY <1>1, <1>2 DEF Next

(* LLX and SCX over descriptors that are reused keep what they promise:     *)
(* snapshots are of one moment, an scx takes effect at most once, at the    *)
(* update CAS of one of its helpers, while nothing that it depends on has   *)
(* changed, and what it returns is what it has done.                        *)
THEOREM Implementation == Spec => AtomicScxSpec
<1>1. Init => Promise!Init
  <2>1. SUFFICES ASSUME Init PROVE Promise!Init
    OBVIOUS
  <2>2. Finalized = {} /\ Requested = [t \in Thread |-> None] /\ Done = {}
    BY <2>1 DEF Init, Finalized, Requested, Done, Executing
  <2>3. Linked = [t \in Thread |-> Promise!NoLinks]
    BY <2>1 DEF Init, Linked, FieldsIn, Promise!NoLinks
  <2>. QED  BY <2>1, <2>2, <2>3 DEF Init, Promise!Init
<1>. QED  BY <1>1, StepImplements, ScxInvariance, PTL DEF Spec, AtomicScxSpec, Promise!Spec
=============================================================================
