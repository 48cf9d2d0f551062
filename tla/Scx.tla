--------------------------------- MODULE Scx ---------------------------------
(***************************************************************************)
(* SCXProvider: LLX and SCX over reusable descriptors, one for each        *)
(* thread.  One action per access to shared memory: a node's marked bit,   *)
(* its scxPtr, its fields, and the descriptors.  The loops of              *)
(* MUTABLES1_WRITE_FIELD and MUTABLES1_WRITE_BIT end with a CAS that       *)
(* succeeds or with a read that makes it unnecessary: they are one step,   *)
(* at that access.                                                         *)
(*                                                                         *)
(* The callers are the updates of the ABtree: they link nodes from the top *)
(* down, read the field to change, and execute an scx that changes a field *)
(* of the first node and finalizes others.  Every new value is a pointer   *)
(* to a node allocated for this scx, which epochs keep from being reused,  *)
(* so the tag of the scx stands for it.                                    *)
(***************************************************************************)
EXTENDS Integers, Sequences

CONSTANTS
  Thread,
  NumNodes,   (* nodes 1 .. NumNodes, from the top down                    *)
  Field,
  MaxScx,     (* bound: MaxScx[t] calls of scxExecute by thread t          *)
  None

ASSUME ScxAssumption ==
  /\ NumNodes \in Nat \ {0}
  /\ MaxScx \in [Thread -> Nat]
  /\ None \notin Thread

Node == 1 .. NumNodes

VARIABLES
  marked, scxPtr, field,  (* of the nodes                                  *)
  held,                   (* history: what scxPtr[n] has been               *)
  mutables,               (* mutables[t]: sequence number, state and       *)
                          (* allFrozen bit of t's descriptor               *)
  desc,                   (* the other fields of t's descriptor            *)
  pc,
  srcNode, seenMarked,    (* llx: its argument and its first read          *)
  dest,                   (* llx: the fields copied so far                 *)
  tagptr, snap, i,        (* help: the scx, the copy of its descriptor,    *)
                          (* and the index of the node                     *)
  result,                 (* what help returns                             *)
  link,                   (* the nodes t has linked, in order, each with   *)
                          (* its scxPtr and its fields                     *)
  answer,                 (* what the last call of t returned              *)
  applied                 (* history: the scxs that have written           *)

node == <<marked, scxPtr, field, held>>
descriptor == <<mutables, desc>>
llxLocals == <<srcNode, seenMarked, dest>>
helpLocals == <<snap, i, result>>
locals == <<llxLocals, tagptr, helpLocals>>
vars == <<node, descriptor, pc, locals, link, answer, applied>>

-----------------------------------------------------------------------------
(* A tag: the thread that owns the descriptor and a sequence number.  The  *)
(* static descriptor of new nodes is committed for ever.                   *)
INIT_SCX_HANDLE == <<None, 0>>
MaxSeq(t) == 2 * MaxScx[t] + 2
Tag == {INIT_SCX_HANDLE} \cup UNION {{t} \X (0 .. MaxSeq(t)) : t \in Thread}
State == {"INPROGRESS", "COMMITTED", "ABORTED"}

NewMutables(seq) == [seq |-> seq, state |-> "INPROGRESS", allFrozen |-> FALSE]

(* DESC1_READ_FIELD's success bit: the descriptor has not been reused. *)
Current(tag) == tag # INIT_SCX_HANDLE /\ mutables[tag[1]].seq = tag[2]

(* The state llx goes by. *)
StateOf(tag) == IF Current(tag) THEN mutables[tag[1]].state ELSE "COMMITTED"

(* MUTABLES1_WRITE_FIELD and MUTABLES1_WRITE_BIT: nothing is written once  *)
(* the descriptor has been reused.                                         *)
WriteState(tag, state) ==
  mutables' = IF Current(tag) THEN [mutables EXCEPT ![tag[1]].state = state] ELSE mutables
SetAllFrozen(tag) ==
  mutables' = IF Current(tag) THEN [mutables EXCEPT ![tag[1]].allFrozen = TRUE] ELSE mutables

Uncopied == [f \in Field |-> None]

(* A descriptor's immutable fields.  The field to change is one of the     *)
(* first node.                                                             *)
NoDesc == [links |-> <<>>, finalize |-> {}, field |-> None, oldVal |-> None]

Owner(t) == tagptr[t][1] = t

GoTo(t, from, to) == pc[t] = from /\ pc' = [pc EXCEPT ![t] = to]

Init ==
  /\ marked = [n \in Node |-> FALSE]
  /\ scxPtr = [n \in Node |-> INIT_SCX_HANDLE]
  /\ field = [n \in Node |-> [f \in Field |-> INIT_SCX_HANDLE]]
  /\ held = [n \in Node |-> {INIT_SCX_HANDLE}]
  /\ mutables = [t \in Thread |-> NewMutables(2)]
  /\ desc = [t \in Thread |-> NoDesc]
  /\ pc = [t \in Thread |-> "idle"]
  /\ srcNode = [t \in Thread |-> 1]
  /\ seenMarked = [t \in Thread |-> FALSE]
  /\ dest = [t \in Thread |-> Uncopied]
  /\ tagptr = [t \in Thread |-> INIT_SCX_HANDLE]
  /\ snap = [t \in Thread |-> NoDesc]
  /\ i = [t \in Thread |-> 1]
  /\ result = [t \in Thread |-> "ABORTED"]
  /\ link = [t \in Thread |-> <<>>]
  /\ answer = [t \in Thread |-> "none"]
  /\ applied = {}

(* A call returns and its locals are gone. *)
Leave(t, from, ans) ==
  /\ GoTo(t, from, "idle")
  /\ answer' = [answer EXCEPT ![t] = ans]
  /\ srcNode' = [srcNode EXCEPT ![t] = 1]
  /\ seenMarked' = [seenMarked EXCEPT ![t] = FALSE]
  /\ dest' = [dest EXCEPT ![t] = Uncopied]
  /\ tagptr' = [tagptr EXCEPT ![t] = INIT_SCX_HANDLE]
  /\ snap' = [snap EXCEPT ![t] = NoDesc]
  /\ i' = [i EXCEPT ![t] = 1]
  /\ result' = [result EXCEPT ![t] = "ABORTED"]

-----------------------------------------------------------------------------
(* llx. *)

(* Mutant: an update links its nodes in any order. *)
LlxStartAnyOrder(t, n) ==
  /\ GoTo(t, "idle", "llx.scxPtr")
  /\ \A k \in DOMAIN link[t] : link[t][k].node # n
  /\ srcNode' = [srcNode EXCEPT ![t] = n]
  /\ seenMarked' = [seenMarked EXCEPT ![t] = marked[n]]
  /\ UNCHANGED <<node, descriptor, dest, tagptr, helpLocals, link, answer, applied>>

(* An update links each node once, going down. *)
LlxStart(t, n) ==
  /\ GoTo(t, "idle", "llx.scxPtr")
  /\ \A k \in DOMAIN link[t] : link[t][k].node < n
  /\ srcNode' = [srcNode EXCEPT ![t] = n]
  /\ seenMarked' = [seenMarked EXCEPT ![t] = marked[n]]
  /\ UNCHANGED <<node, descriptor, dest, tagptr, helpLocals, link, answer, applied>>

LlxReadScxPtr(t) ==
  /\ GoTo(t, "llx.scxPtr", "llx.state")
  /\ tagptr' = [tagptr EXCEPT ![t] = scxPtr[srcNode[t]]]
  /\ UNCHANGED <<node, descriptor, llxLocals, helpLocals, link, answer, applied>>

(* Mutant: llx waits for the scx it finds in progress. *)
LlxReadStateWaits(t) ==
  /\ pc[t] = "llx.state"
  /\ StateOf(tagptr[t]) # "INPROGRESS"
  /\ GoTo(t, "llx.state", IF StateOf(tagptr[t]) = "ABORTED" THEN "llx.copy" ELSE "llx.marked")
  /\ UNCHANGED <<node, descriptor, llxLocals, tagptr, helpLocals, link, answer, applied>>

LlxReadState(t) ==
  /\ GoTo(t, "llx.state", CASE StateOf(tagptr[t]) = "ABORTED" -> "llx.copy"
                            [] StateOf(tagptr[t]) = "COMMITTED" -> "llx.marked"
                            [] StateOf(tagptr[t]) = "INPROGRESS" -> "helpOther")
  /\ UNCHANGED <<node, descriptor, llxLocals, tagptr, helpLocals, link, answer, applied>>

(* The caller retries from its search. *)
Unsuccessful(t, from) ==
  /\ Leave(t, from, IF seenMarked[t] THEN "FINALIZED" ELSE "FAILED")
  /\ link' = [link EXCEPT ![t] = <<>>]

(* Mutant: the first read of marked is trusted. *)
LlxReadMarkedOnce(t) ==
  /\ pc[t] = "llx.marked"
  /\ IF seenMarked[t]
     THEN Unsuccessful(t, "llx.marked")
     ELSE GoTo(t, "llx.marked", "llx.copy") /\ UNCHANGED <<locals, link, answer>>
  /\ UNCHANGED <<node, descriptor, applied>>

LlxReadMarked(t) ==
  /\ pc[t] = "llx.marked"
  /\ IF marked[srcNode[t]]
     THEN Unsuccessful(t, "llx.marked")
     ELSE GoTo(t, "llx.marked", "llx.copy") /\ UNCHANGED <<locals, link, answer>>
  /\ UNCHANGED <<node, descriptor, applied>>

(* memcpy to dest, field by field. *)
LlxCopy(t, f) ==
  /\ pc[t] = "llx.copy"
  /\ dest[t][f] = None
  /\ dest' = [dest EXCEPT ![t][f] = field[srcNode[t]][f]]
  /\ UNCHANGED <<node, descriptor, pc, srcNode, seenMarked, tagptr, helpLocals, link, answer, applied>>

(* Mutant: scxPtr is not read again. *)
LlxValidateNot(t) ==
  /\ pc[t] = "llx.copy"
  /\ \A f \in Field : dest[t][f] # None
  /\ Leave(t, "llx.copy", "linked")
  /\ link' = [link EXCEPT ![t] =
                Append(@, [node |-> srcNode[t], scxPtr |-> tagptr[t], fields |-> dest[t]])]
  /\ UNCHANGED <<node, descriptor, applied>>

LlxValidate(t) ==
  /\ pc[t] = "llx.copy"
  /\ \A f \in Field : dest[t][f] # None
  /\ IF scxPtr[srcNode[t]] = tagptr[t]
     THEN /\ Leave(t, "llx.copy", "linked")
          /\ link' = [link EXCEPT ![t] =
                        Append(@, [node |-> srcNode[t], scxPtr |-> tagptr[t], fields |-> dest[t]])]
     ELSE Unsuccessful(t, "llx.copy")
  /\ UNCHANGED <<node, descriptor, applied>>

(* helpOther: the copy of the descriptor... *)
HelpOtherCopy(t) ==
  /\ GoTo(t, "helpOther", "helpOther.check")
  /\ snap' = [snap EXCEPT ![t] = desc[tagptr[t][1]]]
  /\ UNCHANGED <<node, descriptor, llxLocals, tagptr, i, result, link, answer, applied>>

(* Mutant: the copy is used whatever the descriptor has become. *)
HelpOtherUnchecked(t) ==
  /\ GoTo(t, "helpOther.check", "freeze")
  /\ i' = [i EXCEPT ![t] = 2]
  /\ UNCHANGED <<node, descriptor, llxLocals, tagptr, snap, result, link, answer, applied>>

(* ...is used if the descriptor still belongs to the scx.  A helper starts *)
(* with the second node.                                                   *)
HelpOtherCheck(t) ==
  /\ pc[t] = "helpOther.check"
  /\ IF Current(tagptr[t])
     THEN /\ GoTo(t, "helpOther.check", "freeze")
          /\ i' = [i EXCEPT ![t] = 2]
          /\ UNCHANGED <<llxLocals, tagptr, snap, result, link, answer>>
     ELSE Unsuccessful(t, "helpOther.check")
  /\ UNCHANGED <<node, descriptor, applied>>

-----------------------------------------------------------------------------
(* scx. *)

(* scxInit, scxAddNode for each linked node, the read of the field, and    *)
(* the first lines of scxExecute: the descriptor's sequence number is even *)
(* and nobody uses what is written here.                                   *)
ScxPrepare(t, finalize, f) ==
  /\ pc[t] = "idle"
  /\ mutables[t].seq < MaxSeq(t)
  /\ link[t] # <<>>
  /\ finalize \subseteq {link[t][k].node : k \in 2 .. Len(link[t])}
  /\ GoTo(t, "idle", "scx")
  /\ desc' = [desc EXCEPT ![t] = [links |-> link[t], finalize |-> finalize,
                                 field |-> f, oldVal |-> field[link[t][1].node][f]]]
  /\ UNCHANGED <<node, mutables, locals, link, answer, applied>>

(* What a linked node points to is not what the search has seen: the       *)
(* update gives up and retries from its search.                            *)
GiveUp(t) ==
  /\ pc[t] = "idle"
  /\ link' = [link EXCEPT ![t] = <<>>]
  /\ UNCHANGED <<node, descriptor, pc, locals, answer, applied>>

(* DESC1_INITIALIZED. *)
ScxInitialized(t) ==
  /\ GoTo(t, "scx", "freeze")
  /\ mutables' = [mutables EXCEPT ![t].seq = @ + 1]
  /\ tagptr' = [tagptr EXCEPT ![t] = <<t, mutables[t].seq + 1>>]
  /\ snap' = [snap EXCEPT ![t] = desc[t]]
  /\ i' = [i EXCEPT ![t] = 1]
  /\ UNCHANGED <<node, desc, llxLocals, result, link, answer, applied>>

(* Mutant: the sequence number is odd again. *)
ScxReturnOdd(t) ==
  /\ Owner(t)
  /\ Leave(t, "return", IF result[t] = "COMMITTED" THEN "true" ELSE "false")
  /\ mutables' = [mutables EXCEPT ![t] = NewMutables(@.seq + 2)]
  /\ link' = [link EXCEPT ![t] = <<>>]
  /\ UNCHANGED <<node, desc, applied>>

(* DESC1_NEW: the descriptor is free for the next scx. *)
ScxReturn(t) ==
  /\ Owner(t)
  /\ Leave(t, "return", IF result[t] = "COMMITTED" THEN "true" ELSE "false")
  /\ mutables' = [mutables EXCEPT ![t] = NewMutables(@.seq + 1)]
  /\ link' = [link EXCEPT ![t] = <<>>]
  /\ UNCHANGED <<node, desc, applied>>

LlxReturn(t) ==
  /\ ~Owner(t)
  /\ Unsuccessful(t, "return")
  /\ UNCHANGED <<node, descriptor, applied>>

-----------------------------------------------------------------------------
(* help, by the owner of the descriptor and by others. *)

(* The freezing CAS. *)
Freeze(t) ==
  LET n == snap[t].links[i[t]].node
  IN  /\ pc[t] = "freeze"
      /\ i[t] <= Len(snap[t].links)
      /\ IF scxPtr[n] = snap[t].links[i[t]].scxPtr
         THEN /\ scxPtr' = [scxPtr EXCEPT ![n] = tagptr[t]]
              /\ held' = [held EXCEPT ![n] = @ \cup {tagptr[t]}]
              /\ i' = [i EXCEPT ![t] = @ + 1]
              /\ UNCHANGED pc
         ELSE /\ pc' = [pc EXCEPT ![t] = "freeze.exp"]
              /\ UNCHANGED <<scxPtr, held, i>>
      /\ UNCHANGED <<marked, field, descriptor, llxLocals, tagptr, snap, result, link, answer, applied>>

(* Has another helper frozen the node? *)
FreezeReread(t) ==
  /\ pc[t] = "freeze.exp"
  /\ IF scxPtr[snap[t].links[i[t]].node] = tagptr[t]
     THEN GoTo(t, "freeze.exp", "freeze") /\ i' = [i EXCEPT ![t] = @ + 1]
     ELSE GoTo(t, "freeze.exp", "freeze.allFrozen") /\ UNCHANGED i
  /\ UNCHANGED <<node, descriptor, llxLocals, tagptr, snap, result, link, answer, applied>>

ReadAllFrozen(t) ==
  LET undecided == Current(tagptr[t]) /\ ~mutables[tagptr[t][1]].allFrozen
  IN  /\ GoTo(t, "freeze.allFrozen", IF undecided THEN "abort" ELSE "return")
      /\ result' = [result EXCEPT ![t] = IF Current(tagptr[t]) THEN "COMMITTED" ELSE "ABORTED"]
      /\ UNCHANGED <<node, descriptor, llxLocals, tagptr, snap, i, link, answer, applied>>

Abort(t) ==
  /\ GoTo(t, "abort", "return")
  /\ WriteState(tagptr[t], "ABORTED")
  /\ result' = [result EXCEPT ![t] = "ABORTED"]
  /\ UNCHANGED <<node, desc, llxLocals, tagptr, snap, i, link, answer, applied>>

WriteAllFrozen(t) ==
  /\ i[t] > Len(snap[t].links)
  /\ GoTo(t, "freeze", "mark")
  /\ SetAllFrozen(tagptr[t])
  /\ i' = [i EXCEPT ![t] = 1]
  /\ UNCHANGED <<node, desc, llxLocals, tagptr, snap, result, link, answer, applied>>

Mark(t) ==
  /\ pc[t] = "mark"
  /\ i[t] <= Len(snap[t].links)
  /\ IF snap[t].links[i[t]].node \in snap[t].finalize
     THEN marked' = [marked EXCEPT ![snap[t].links[i[t]].node] = TRUE]
     ELSE UNCHANGED marked
  /\ i' = [i EXCEPT ![t] = @ + 1]
  /\ UNCHANGED <<scxPtr, held, field, descriptor, pc, llxLocals, tagptr, snap, result, link, answer, applied>>

(* The update CAS. *)
Update(t) ==
  LET n == snap[t].links[1].node  f == snap[t].field
  IN  /\ i[t] > Len(snap[t].links)
      /\ GoTo(t, "mark", "commit")
      /\ IF field[n][f] = snap[t].oldVal
         THEN /\ field' = [field EXCEPT ![n][f] = tagptr[t]]
              /\ applied' = applied \cup {tagptr[t]}
         ELSE UNCHANGED <<field, applied>>
      /\ UNCHANGED <<marked, scxPtr, held, descriptor, llxLocals, tagptr, snap, i, result, link, answer>>

(* Mutant: only the owner writes the state. *)
CommitStateByOwner(t) ==
  /\ GoTo(t, "commit", "return")
  /\ IF Owner(t) THEN WriteState(tagptr[t], "COMMITTED") ELSE UNCHANGED mutables
  /\ result' = [result EXCEPT ![t] = "COMMITTED"]
  /\ UNCHANGED <<node, desc, llxLocals, tagptr, snap, i, link, answer, applied>>

CommitState(t) ==
  /\ GoTo(t, "commit", "return")
  /\ WriteState(tagptr[t], "COMMITTED")
  /\ result' = [result EXCEPT ![t] = "COMMITTED"]
  /\ UNCHANGED <<node, desc, llxLocals, tagptr, snap, i, link, answer, applied>>

Help(t) ==
  \/ Freeze(t) \/ FreezeReread(t) \/ ReadAllFrozen(t) \/ Abort(t) \/ WriteAllFrozen(t)
  \/ Mark(t) \/ Update(t) \/ CommitState(t)

(* A call goes on. *)
Step(t) ==
  \/ LlxReadScxPtr(t) \/ LlxReadState(t) \/ LlxReadMarked(t)
  \/ (\E f \in Field : LlxCopy(t, f)) \/ LlxValidate(t)
  \/ HelpOtherCopy(t) \/ HelpOtherCheck(t) \/ LlxReturn(t)
  \/ ScxInitialized(t) \/ ScxReturn(t)
  \/ Help(t)

(* A caller begins a call, or gives up. *)
Call(t) ==
  \/ GiveUp(t)
  \/ \E n \in Node : LlxStart(t, n)
  \/ \E finalize \in SUBSET Node, f \in Field : ScxPrepare(t, finalize, f)

Next == \E t \in Thread : Step(t) \/ Call(t)

Spec == Init /\ [][Next]_vars

-----------------------------------------------------------------------------
Value == Tag
Snapshot == [Field -> Value]
Link == [node : Node, scxPtr : Tag, fields : Snapshot]
Request == [nodes : SUBSET Node, finalize : SUBSET Node, node : Node, field : Field, new : Value]

ASSUME NoneAssumption == None \notin Snapshot /\ None \notin Request

TypeOK ==
  /\ marked \in [Node -> BOOLEAN]
  /\ scxPtr \in [Node -> Tag]
  /\ field \in [Node -> Snapshot]
  /\ \A t \in Thread : mutables[t] \in [seq : 2 .. MaxSeq(t), state : State, allFrozen : BOOLEAN]
  /\ srcNode \in [Thread -> Node]
  /\ seenMarked \in [Thread -> BOOLEAN]
  /\ tagptr \in [Thread -> Tag]
  /\ result \in [Thread -> {"COMMITTED", "ABORTED"}]
  /\ applied \subseteq Tag
  /\ \A t \in Thread :
       /\ \A f \in Field : dest[t][f] \in Value \cup {None}
       /\ i[t] \in 1 .. Len(snap[t].links) + 2
       /\ \A k \in DOMAIN link[t] : link[t][k] \in Link
       /\ \A d \in {desc[t], snap[t]} : d.finalize \subseteq {d.links[k].node : k \in 2 .. Len(d.links)}

(* A node that an scx has finalized never changes again. *)
KeepsFinal ==
  \A n \in Node : marked[n] => marked'[n] /\ field'[n] = field[n] /\ scxPtr'[n] = scxPtr[n]
MarkedIsFinal == [][KeepsFinal]_vars

InProgress(tag) == Current(tag) /\ mutables[tag[1]].state = "INPROGRESS"

(* Helping is not in vain: when llx fails because of an scx in progress,   *)
(* that scx is decided before llx returns, so a retry does not meet it.    *)
HelpDecides == \A t \in Thread : pc[t] = "return" => ~InProgress(tagptr[t])

(* The promise of LLX and SCX.  An scx takes effect with the first update  *)
(* CAS that succeeds for it.                                               *)
Executing(t) ==
  /\ Owner(t)
  /\ pc[t] \in {"freeze", "freeze.exp", "freeze.allFrozen", "abort", "mark", "commit", "return"}
Finalized == {n \in Node : marked[n] /\ scxPtr[n] \in applied}
FieldsIn(s, n) ==
  IF \E k \in DOMAIN s : s[k].node = n
  THEN s[CHOOSE k \in DOMAIN s : s[k].node = n].fields
  ELSE None
Linked == [t \in Thread |-> [n \in Node |-> FieldsIn(link[t], n)]]
RequestOf(t) ==
  [nodes |-> {desc[t].links[k].node : k \in DOMAIN desc[t].links}, finalize |-> desc[t].finalize,
   node |-> desc[t].links[1].node, field |-> desc[t].field, new |-> tagptr[t]]
Requested == [t \in Thread |-> IF Executing(t) THEN RequestOf(t) ELSE None]
Done == {t \in Thread : Executing(t) /\ tagptr[t] \in applied}
Promise ==
  INSTANCE AtomicScx WITH
    Init0 <- INIT_SCX_HANDLE, finalized <- Finalized, link <- Linked, request <- Requested, done <- Done
AtomicScxSpec == Promise!Spec

(* Scxs do not only make each other fail: when none is being executed and  *)
(* some have been, at least one has taken effect.  Nodes are frozen from   *)
(* the top down, and a helper aborts only what cannot succeed any more.    *)
NotAllFail ==
  (\E t \in Thread : mutables[t].seq > 2) /\ (\A t \in Thread : mutables[t].seq % 2 = 0) =>
    applied # {}
=============================================================================
