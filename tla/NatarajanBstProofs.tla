-------------------------- MODULE NatarajanBstProofs --------------------------
(***************************************************************************)
(* Proofs about the external binary search tree, for any number of threads,*)
(* nodes and keys: its types, that its nodes are reclaimed safely, that    *)
(* flagged and marked words are frozen, and that it implements Dictionary. *)
(*                                                                         *)
(* The steps of the argument:                                              *)
(*  - Reach, round by round, is the least closed set (ReachLeast);         *)
(*  - what the CAS of a deletion, the CAS of an insert and a bit that is   *)
(*    set make of a tree is a tree (CutTree, GrowTree, BitsTree);          *)
(*  - every action keeps SafeInv, and moves t as Moves says (SafeActions); *)
(*  - a seek stays on the way to its key (Heading), without which an       *)
(*    insert could put its leaf where no search finds it; SafeInv with     *)
(*    Heading is the inductive invariant TreeInv;                          *)
(*  - DictInv, which says what the calls in progress have seen and which   *)
(*    deletion owns which leaf, is inductive on top of TreeInv, and every  *)
(*    step is a step of Dictionary or stutters (DictActions).              *)
(***************************************************************************)
EXTENDS NatarajanBst, FiniteSetTheorems, SequenceTheorems, WellFoundedInduction, TLAPS

-----------------------------------------------------------------------------
(* The inductive invariant. *)

(* The nodes below n that are reached along marked words. *)
Marks(m) == [n \in Node |-> {m[n][s].addr : s \in {r \in Sides : m[n][r].mark}} \ {NULL}]
Chain(m, n) == Reach(Marks(m), {n})

(* Where a search for k goes from n. *)
Walk(m, k, n) == Reach(Turn(m, k), {n})

(* The children of the nodes of O, without q. *)
Below(m, q, O) == [n \in Node |-> IF n \in O THEN Kids(m)[n] \ {q} ELSE {}]

Memory == [Node -> [key : 1 .. MaxKey + 2, value : Value \cup {NoValue},
                    left : WordType, right : WordType]]

(* A node is a leaf, without children, or has two. *)
Shape(m) ==
  \A n \in Node, s \in Sides : IF IsLeaf(m[n]) THEN m[n][s] = NullWord ELSE m[n][s].addr # NULL

(* The sentinels stay where the constructor has put them. *)
Sentinels(m, L) ==
  /\ m[Root].key = MaxKey + 2 /\ ~IsLeaf(m[Root])
  /\ m[Root].right = Word(3, FALSE, FALSE) /\ IsLeaf(m[3])
  /\ 2 \in L /\ IsLeaf(m[2]) /\ m[2].key = MaxKey + 1

OneParent(m, L) ==
  \A n, p \in L : \A s, r \in Sides :
    /\ m[n][s].addr # Root
    /\ m[n][s].addr = m[p][r].addr /\ m[n][s].addr # NULL => n = p /\ s = r

(* A leaf is where a search for its key gets to. *)
LeavesFound(m, L) ==
  \A a \in L : IsLeaf(m[a]) /\ m[a].key \in Key => m[a].value \in Value /\ a \in Path(m, m[a].key)

Tree(m, L) ==
  /\ m \in Memory /\ Shape(m)
  /\ L = Reachable(m)
  /\ Sentinels(m, L) /\ OneParent(m, L) /\ LeavesFound(m, L)

(* Only the word of a leaf is flagged; beside a marked word is a flagged one. *)
Words(m, V) ==
  \A n \in V, s \in Sides :
    /\ m[n][s].flag => IsLeaf(m[m[n][s].addr]) /\ m[m[n][s].addr].key \in Key
    /\ m[n][s].mark => m[n][Sibling(s)].flag

(* What t may reach: it was in the tree at some moment since its guard     *)
(* opened.                                                                 *)
Near(t) == linked \cup pinned[t]

Pins(t) ==
  /\ pinned[t] \cap linked = {} /\ owed[t] \subseteq pinned[t]
  /\ pc[t] = "idle" => pinned[t] = {}
  /\ \A n \in pinned[t], s \in Sides :
       ~IsLeaf(mem[n]) => mem[n][s].addr \in Near(t) /\ ~IsFree(mem[n][s])

Memo(t) == mem[loc[t].parent][Side(t, loc[t].parent)]
Other(t) == mem[loc[t].parent][Sibling(Side(t, loc[t].parent))]

Calls(t) ==
  /\ pc[t] = "idle" <=> call[t] = NoCall
  /\ pc[t] = "idle" => loc[t] = NoLocals
  /\ pc[t] = "find" => call[t].op = "find"
  /\ pc[t] \in {"seek", "mark", "read", "swing", "retire"} => call[t].op # "find"
  /\ Injected(t) => call[t].op = "erase"
  /\ pc[t] = "mark" => Injected(t)

Seeking(t) ==
  LET l == loc[t]
  IN  pc[t] \in {"seek", "mark", "read", "swing"} =>
        /\ l.parent # NULL /\ ~IsLeaf(mem[l.parent]) /\ l.pL.addr # NULL
        /\ ~IsFree(l.pL) => /\ Memo(t).addr = l.pL.addr /\ Memo(t).flag = l.pL.flag
                            /\ l.pL.mark => Memo(t).mark
        /\ l.lum = NULL => l.parent = Root
        /\ l.lum # NULL => /\ ~IsLeaf(mem[l.lum])
                           /\ l.lumC.addr # NULL /\ IsFree(l.lumC)
                           /\ l.parent \in Chain(mem, l.lumC.addr)

Removing(t) ==
  /\ pc[t] = "find" => loc[t].cur # NULL
  /\ pc[t] \in {"mark", "read", "swing"} => Memo(t).flag
  /\ pc[t] \in {"read", "swing"} => Other(t).mark
  /\ pc[t] = "swing" => loc[t].pS.addr = Other(t).addr /\ loc[t].pS.flag = Other(t).flag

(* The nodes of todo are of those of O, each once, and all of O is below   *)
(* them; q is the node that stays.                                         *)
Debt(m, O, q, todo) ==
  /\ q # NULL /\ q \notin O
  /\ O \subseteq Reach(Below(m, q, O), {todo[i].node : i \in DOMAIN todo})
  /\ \A i \in DOMAIN todo : todo[i].node # q =>
       /\ todo[i].node \in O
       /\ IsLeaf(m[todo[i].node]) => todo[i].flagged
       /\ \A j \in DOMAIN todo : j # i => todo[j].node # todo[i].node
       /\ \A n \in O : todo[i].node \notin Kids(m)[n]
  /\ \A n \in O : ~IsLeaf(m[n]) =>
       /\ \E s \in Sides : m[n][s].flag
       /\ \A s \in Sides : m[n][s].addr # q =>
            /\ m[n][s].addr \in O
            /\ IsLeaf(m[m[n][s].addr]) => m[n][s].flag
            /\ \A p \in O, r \in Sides : m[p][r].addr = m[n][s].addr => p = n /\ r = s

Retiring(t) ==
  /\ pc[t] # "retire" => owed[t] = {}
  /\ pc[t] = "retire" =>
       loc[t].todo # <<>> /\ Debt(mem, owed[t], loc[t].pS.addr, loc[t].todo)

(* What is still in the tree of where t's seek goes is on the way to t's   *)
(* key.                                                                    *)
OnTheWay(t, n) ==
  \A x \in Walk(mem, call[t].key, n) :
    x \in linked /\ ~IsLeaf(mem[x]) => x \in Path(mem, call[t].key)

Heading(t) ==
  pc[t] = "seek" /\ ~Injected(t) =>
    /\ OnTheWay(t, loc[t].pL.addr)
    /\ loc[t].parent \in linked => loc[t].parent \in Path(mem, call[t].key)

SafeInv ==
  /\ TypeOK
  /\ Tree(mem, linked)
  /\ Words(mem, Node \ Available)
  /\ \A t \in Thread :
       Pins(t) /\ Held(t) \subseteq Near(t) /\ Calls(t) /\ Seeking(t) /\ Removing(t) /\ Retiring(t)

-----------------------------------------------------------------------------
(* The inductive invariant of the refinement. *)

(* What the key of t's call has now, and what any leaf of that key that t  *)
(* may get to has, it has had since the call began.                        *)
SeenInv(t) ==
  /\ call[t] = NoCall => seen[t] = {}
  /\ call[t] # NoCall =>
       /\ dict[call[t].key] \in seen[t]
       /\ \A a \in Near(t) :
            IsLeaf(mem[a]) /\ mem[a].key = call[t].key => mem[a].value \in seen[t] \ {NoValue}

(* If a leaf of t's key was there all the time, t gets to one. *)
Ahead(t, n) ==
  \/ NoValue \in seen[t]
  \/ \E a \in Walk(mem, call[t].key, n) : IsLeaf(mem[a]) /\ mem[a].key = call[t].key

SearchInv(t) ==
  /\ pc[t] = "find" => Ahead(t, loc[t].cur)
  /\ pc[t] = "seek" /\ ~Injected(t) => Ahead(t, loc[t].pL.addr)

(* Whatever word of S has the address a is flagged. *)
Flagged(m, S, a) == \A n \in S, s \in Sides : m[n][s].addr = a => m[n][s].flag

(* The leaf that t has flagged, the word of it, and where t's seek finds   *)
(* it as long as it is there.                                              *)
OwnLeaf(t) ==
  LET a == loc[t].leaf
      way == Walk(mem, call[t].key, loc[t].pL.addr)
  IN  Injected(t) =>
        /\ IsLeaf(mem[a]) /\ mem[a].key = call[t].key /\ mem[a].value = loc[t].retval
        /\ Flagged(mem, linked, a)
        /\ pc[t] = "seek" => /\ a \in linked => a \in way
                             /\ Flagged(mem, way, a)
                             /\ loc[t].pL.addr = a => loc[t].pL.flag
        /\ pc[t] \in {"mark", "read", "swing"} => Memo(t).addr = a
        /\ pc[t] \in {"retire", "return"} => a \notin linked

(* Every flagged leaf of the tree is the leaf of one deletion. *)
Owners ==
  /\ \A t, u \in Thread : Injected(t) /\ Injected(u) /\ t # u => loc[t].leaf # loc[u].leaf
  /\ \A n \in linked, s \in Sides : mem[n][s].flag => \E t \in Thread : loc[t].leaf = mem[n][s].addr

(* What t is about to answer. *)
Answers(t) ==
  pc[t] = "return" =>
    \/ call[t].op = "find" /\ loc[t].retval \in seen[t]
    \/ call[t].op = "insertIfAbsent" /\ (loc[t].retval = NoValue \/ loc[t].retval \in seen[t])
    \/ call[t].op = "erase" /\ (~Injected(t) => loc[t].retval = NoValue /\ NoValue \in seen[t])

DictInv ==
  /\ dict = Contents(mem)
  /\ \A t \in Thread : SeenInv(t) /\ SearchInv(t) /\ OwnLeaf(t) /\ Answers(t)
  /\ Owners

-----------------------------------------------------------------------------
(* A nonempty set of numbers has a least member. This takes the place of   *)
(* induction: the lemmas that would need it look at the least number that  *)
(* fails.                                                                  *)
LEMMA Least ==
  ASSUME NEW T \in SUBSET Nat, T # {}
  PROVE  \E n \in T : \A m \in T : ~ (m < n)
<1> DEFINE R == OpToRel(<, Nat)
<1>1. IsWellFoundedOn(R, Nat)
  BY NatLessThanWellFounded
<1>3. \A m, n \in Nat : m < n => <<m, n>> \in R
  BY DEF OpToRel
<1> HIDE DEF R
<1>2. PICK n \in T : \A m \in T : ~ (<<m, n>> \in R)
  BY <1>1, WFMin
<1> QED BY <1>2, <1>3

(* Induction over a set instead of an operator. *)
LEMMA BySet ==
  ASSUME NEW T, 0 \in T, \A n \in Nat : n \in T => n + 1 \in T
  PROVE  Nat \subseteq T
<1> DEFINE U == Nat \ T
<1>1. SUFFICES ASSUME U # {} PROVE FALSE
  OBVIOUS
<1>2. PICK n \in U : \A m \in U : ~ (m < n)
  BY <1>1, Least
<1>3. n # 0 /\ n - 1 \in Nat /\ n - 1 \notin U
  BY <1>2
<1> QED BY <1>3

(* A function that is defined by recursion on an interval exists. *)
Recurses(g, N, z, f) == g = [d \in 0 .. N |-> IF d = 0 THEN z ELSE f[g[d - 1]]]

(* The recursions of this module are of this form; that they have a        *)
(* solution is what unfolds them.                                          *)
LEMMA RecursiveExists ==
  ASSUME NEW N \in Nat, NEW z, NEW f
  PROVE  \E g : Recurses(g, N, z, f)
<1> DEFINE Good(g, n) == g = [d \in 0 .. n |-> IF d = 0 THEN z ELSE f[g[d - 1]]]
           T == {n \in Nat : \E g : Good(g, n)}
<1>1. 0 \in T
  <2> DEFINE g == [d \in 0 .. 0 |-> z]
  <2>1. Good(g, 0)
    OBVIOUS
  <2> QED BY <2>1
<1>2. ASSUME NEW n \in Nat, n \in T PROVE n + 1 \in T
  <2>1. PICK g : Good(g, n)
    BY <1>2
  <2> DEFINE h == [d \in 0 .. n + 1 |-> IF d = n + 1 THEN f[g[n]] ELSE g[d]]
             w == [d \in 0 .. n + 1 |-> IF d = 0 THEN z ELSE f[h[d - 1]]]
  <2>2. \A d \in 0 .. n : h[d] = g[d]
    OBVIOUS
  <2>3. \A d \in 0 .. n : g[d] = IF d = 0 THEN z ELSE f[g[d - 1]]
    BY <2>1
  <2>4. \A d \in 0 .. n + 1 : h[d] = w[d]
    <3> TAKE d \in 0 .. n + 1
    <3>1. CASE d = n + 1
      <4>1. d # 0 /\ d - 1 = n /\ n \in 0 .. n
        BY <3>1
      <4>2. h[d] = f[g[n]] /\ w[d] = f[h[n]]
        BY <3>1, <4>1
      <4> QED BY <4>2, <2>2, <4>1
    <3>2. CASE d = 0
      BY <3>2, <2>2, <2>3
    <3>3. CASE d # n + 1 /\ d # 0
      <4>1. d \in 0 .. n /\ d - 1 \in 0 .. n
        BY <3>3
      <4>2. h[d] = f[g[d - 1]] /\ w[d] = f[h[d - 1]]
        BY <3>3, <4>1, <2>3
      <4> QED BY <4>2, <4>1, <2>2
    <3> QED BY <3>1, <3>2, <3>3
  <2>5. h = w
    BY <2>4
  <2> HIDE DEF h
  <2> QED BY <2>5
<1> HIDE DEF T
<1>3. N \in T
  BY <1>1, <1>2, BySet
<1> QED BY <1>3 DEF T, Recurses

Wider(next, r) ==
  [found |-> r.found \cup UNION {next[n] : n \in r.new},
   new |-> (UNION {next[n] : n \in r.new}) \ r.found]

Further(next) == [r \in [found : SUBSET Node, new : SUBSET Node] |-> Wider(next, r)]

(* Rounds unfolded. *)
LEMMA RoundsDef ==
  ASSUME NEW next, NEW start
  PROVE  Rounds(next, start) =
           [d \in 0 .. NumNodes |-> IF d = 0 THEN [found |-> start, new |-> start]
                                    ELSE Further(next)[Rounds(next, start)[d - 1]]]
<1> DEFINE z == [found |-> start, new |-> start]
           f == Further(next)
<1>1. NumNodes \in Nat
  BY BstAssumption
<1>2. PICK g : Recurses(g, NumNodes, z, f)
  BY <1>1, RecursiveExists
<1>3. Rounds(next, start) = CHOOSE h : Recurses(h, NumNodes, z, f)
  BY DEF Rounds, Further, Wider, Recurses
<1>4. Recurses(Rounds(next, start), NumNodes, z, f)
  BY <1>2, <1>3
<1> QED BY <1>4 DEF Recurses

ClosedUnder(next, S) == \A n \in S : next[n] \subseteq S

(* The root, the two sentinels of the constructor, and how many nodes      *)
(* there are.                                                              *)
LEMMA NodeFacts ==
  /\ NumNodes \in Nat /\ NumNodes >= 3
  /\ {1, 2, 3} \subseteq Node
  /\ Root \in Node /\ NULL \notin Node
  /\ IsFiniteSet(Node) /\ Cardinality(Node) = NumNodes
<1>1. NumNodes \in Nat /\ NumNodes >= 3
  <2>1. Len(Prefill) \in Nat
    BY BstAssumption
  <2> QED BY <2>1, BstAssumption
<1>2. IsFiniteSet(Node) /\ Cardinality(Node) = NumNodes
  BY <1>1, FS_Interval DEF Node
<1> QED BY <1>1, <1>2 DEF Node, Root, NULL

(* Reach is the least set that contains start and is closed under next. *)
LEMMA ReachLeast ==
  ASSUME NEW next \in [Node -> SUBSET Node], NEW start \in SUBSET Node
  PROVE  /\ start \subseteq Reach(next, start)
         /\ Reach(next, start) \subseteq Node
         /\ ClosedUnder(next, Reach(next, start))
         /\ \A S \in SUBSET Node :
              start \subseteq S /\ ClosedUnder(next, S) => Reach(next, start) \subseteq S
<1> DEFINE R == Rounds(next, start)
           Round == [found : SUBSET Node, new : SUBSET Node]
           Inside(d) == \A S \in SUBSET Node :
                         start \subseteq S /\ ClosedUnder(next, S) => R[d].found \subseteq S
           Fine(d) == /\ R[d] \in Round
                      /\ start \subseteq R[d].found
                      /\ R[d].new \subseteq R[d].found
                      /\ \A n \in R[d].found \ R[d].new : next[n] \subseteq R[d].found
                      /\ R[d].new = {} \/ Cardinality(R[d].found) >= d + 1
                      /\ Inside(d)
           T == {d \in Nat : d <= NumNodes => Fine(d)}
<1>1. NumNodes \in Nat /\ IsFiniteSet(Node) /\ Cardinality(Node) = NumNodes
  BY NodeFacts
<1>2. \A S \in SUBSET Node : IsFiniteSet(S) /\ Cardinality(S) \in Nat /\ Cardinality(S) <= NumNodes
  BY <1>1, FS_Subset, FS_CardinalityType
<1>3. /\ R[0] = [found |-> start, new |-> start]
      /\ \A d \in Nat : d + 1 <= NumNodes => R[d + 1] = Further(next)[R[d]]
  <2>1. R = [d \in 0 .. NumNodes |-> IF d = 0 THEN [found |-> start, new |-> start]
                                     ELSE Further(next)[R[d - 1]]]
    BY RoundsDef
  <2> HIDE DEF R
  <2>2. ASSUME NEW d \in Nat, d + 1 <= NumNodes PROVE R[d + 1] = Further(next)[R[d]]
    <3>1. d + 1 \in 0 .. NumNodes /\ d + 1 # 0 /\ (d + 1) - 1 = d
      BY <2>2, <1>1
    <3> QED BY <2>1, <3>1
  <2>3. 0 \in 0 .. NumNodes
    BY <1>1
  <2> QED BY <2>1, <2>2, <2>3
<1> HIDE DEF R
<1>4. Fine(0)
  <2>1. start # {} => Cardinality(start) >= 1
    BY <1>2, FS_EmptySet
  <2> QED BY <1>3, <2>1
<1>5. ASSUME NEW d \in Nat, d + 1 <= NumNodes, Fine(d) PROVE Fine(d + 1)
  <2> DEFINE f == R[d].found
             w == R[d].new
             fresh == UNION {next[n] : n \in w}
  <2>1. /\ R[d] \in Round /\ start \subseteq f /\ w \subseteq f /\ f \in SUBSET Node
        /\ \A n \in f \ w : next[n] \subseteq f
        /\ w = {} \/ Cardinality(f) >= d + 1
        /\ \A S \in SUBSET Node : start \subseteq S /\ ClosedUnder(next, S) => f \subseteq S
    BY <1>5
  <2>2. R[d + 1] = [found |-> f \cup fresh, new |-> fresh \ f]
    <3>1. R[d + 1] = Further(next)[R[d]]
      BY <1>3, <1>5
    <3>2. Further(next)[R[d]] = Wider(next, R[d])
      BY <2>1 DEF Further
    <3>3. Wider(next, R[d]) = [found |-> f \cup fresh, new |-> fresh \ f]
      BY DEF Wider
    <3> QED BY <3>1, <3>2, <3>3
  <2>3. /\ R[d + 1].found = f \cup fresh
        /\ R[d + 1].new = fresh \ f
    BY <2>2
  <2>4. fresh \in SUBSET Node
    BY <2>1
  <2>5. R[d + 1] \in Round
    BY <2>2, <2>4, <2>1
  <2>6. \A n \in w : next[n] \subseteq fresh
    OBVIOUS
  <2>7. w = {} => fresh = {}
    OBVIOUS
  <2>8. \A S : w \subseteq S /\ ClosedUnder(next, S) => fresh \subseteq S
    BY DEF ClosedUnder
  <2> HIDE DEF f, w, fresh
  <2>9. Inside(d + 1)
    BY <2>1, <2>3, <2>8
  <2>10. fresh \ f = {} \/ Cardinality(f \cup fresh) >= d + 2
    <3>1. SUFFICES ASSUME NEW x \in fresh \ f PROVE Cardinality(f \cup fresh) >= d + 2
      OBVIOUS
    <3>2. Cardinality(f) >= d + 1
      BY <3>1, <2>1, <2>7
    <3>3. Cardinality(f \cup {x}) = Cardinality(f) + 1
      BY <3>1, <2>1, <1>2, FS_AddElement
    <3>4. f \cup {x} \in SUBSET (f \cup fresh) /\ f \cup fresh \in SUBSET Node
      BY <2>1, <2>4
    <3>5. Cardinality(f \cup {x}) <= Cardinality(f \cup fresh)
      BY <3>4, <1>2, FS_Subset
    <3>6. Cardinality(f) \in Nat /\ Cardinality(f \cup fresh) \in Nat
      BY <2>1, <3>4, <1>2
    <3> QED BY <3>2, <3>3, <3>5, <3>6
  <2>11. (d + 1) + 1 = d + 2
    OBVIOUS
  <2> HIDE DEF Inside, Round
  <2> QED BY <2>1, <2>3, <2>4, <2>5, <2>6, <2>9, <2>10, <2>11
<1>6. Fine(NumNodes)
  <2> HIDE DEF Fine
  <2>1. 0 \in T
    BY <1>4
  <2>2. \A d \in Nat : d \in T => d + 1 \in T
    BY <1>5, <1>1
  <2> HIDE DEF T
  <2>3. NumNodes \in T
    BY <2>1, <2>2, <1>1, BySet
  <2> QED BY <2>3, <1>1 DEF T
<1> DEFINE all == R[NumNodes].found
<1>7. all \in SUBSET Node
  BY <1>6
<1>8. R[NumNodes].new = {}
  BY <1>6, <1>7, <1>2, <1>1
<1>9. Reach(next, start) = all
  BY DEF Reach, R
<1> QED BY <1>6, <1>7, <1>8, <1>9 DEF ClosedUnder

-----------------------------------------------------------------------------
(* The types of the words of a node. *)
LEMMA WordOf ==
  ASSUME NEW m \in Memory, NEW n \in Node, NEW s \in Sides
  PROVE  /\ m[n][s] \in WordType
         /\ m[n][s].addr \in Node \cup {NULL}
         /\ m[n][s].mark \in BOOLEAN /\ m[n][s].flag \in BOOLEAN
         /\ m[n].key \in 1 .. MaxKey + 2 /\ m[n].value \in Value \cup {NoValue}
<1>1. m[n] \in [key : 1 .. MaxKey + 2, value : Value \cup {NoValue}, left : WordType, right : WordType]
  BY DEF Memory
<1>2. m[n].left \in WordType /\ m[n].right \in WordType
      /\ m[n].key \in 1 .. MaxKey + 2 /\ m[n].value \in Value \cup {NoValue}
  BY <1>1
<1>3. m[n][s] \in WordType
  BY <1>2 DEF Sides
<1> QED BY <1>2, <1>3 DEF WordType

(* There are two sides. *)
LEMMA SideFacts ==
  /\ "left" \in Sides /\ "right" \in Sides /\ "left" # "right"
  /\ \A s \in Sides : Sibling(s) \in Sides /\ Sibling(s) # s /\ Sibling(Sibling(s)) = s
  /\ \A s, r \in Sides : r = s \/ r = Sibling(s)
  /\ \A k, node : SideOf(k, node) \in Sides
BY DEF Sides, Sibling, SideOf

(* The functions that Reach follows, and what is one step away along each. *)
LEMMA Steps ==
  ASSUME NEW m \in Memory
  PROVE  /\ Kids(m) \in [Node -> SUBSET Node]
         /\ Marks(m) \in [Node -> SUBSET Node]
         /\ \A k : Turn(m, k) \in [Node -> SUBSET Node]
         /\ \A q, O : Below(m, q, O) \in [Node -> SUBSET Node]
         /\ \A n \in Node : \A x : x \in Kids(m)[n] <=> x # NULL /\ \E s \in Sides : x = m[n][s].addr
         /\ \A n \in Node : \A x :
              x \in Marks(m)[n] <=> x # NULL /\ \E s \in Sides : m[n][s].mark /\ x = m[n][s].addr
         /\ \A k : \A n \in Node : \A x : x \in Turn(m, k)[n] <=> x # NULL /\ x = m[n][SideOf(k, m[n])].addr
<1>1. \A n \in Node, s \in Sides : m[n][s].addr \in Node \cup {NULL}
  BY WordOf
<1>2. /\ Kids(m) \in [Node -> SUBSET Node]
      /\ \A n \in Node : \A x : x \in Kids(m)[n] <=> x # NULL /\ \E s \in Sides : x = m[n][s].addr
  BY <1>1 DEF Kids
<1>3. /\ Marks(m) \in [Node -> SUBSET Node]
      /\ \A n \in Node : \A x :
           x \in Marks(m)[n] <=> x # NULL /\ \E s \in Sides : m[n][s].mark /\ x = m[n][s].addr
  BY <1>1 DEF Marks
<1>4. ASSUME NEW k
      PROVE  /\ Turn(m, k) \in [Node -> SUBSET Node]
             /\ \A n \in Node : \A x : x \in Turn(m, k)[n] <=> x # NULL /\ x = m[n][SideOf(k, m[n])].addr
  BY <1>1, SideFacts DEF Turn
<1>5. ASSUME NEW q, NEW O PROVE Below(m, q, O) \in [Node -> SUBSET Node]
  BY <1>2 DEF Below
<1> QED BY <1>2, <1>3, <1>4, <1>5

(* Reachable, Chain and Walk are the least sets of their kinds. *)
LEMMA ReachableLeast ==
  ASSUME NEW m \in Memory
  PROVE  /\ Reachable(m) \in SUBSET Node /\ Root \in Reachable(m)
         /\ \A n \in Reachable(m), s \in Sides : m[n][s].addr # NULL => m[n][s].addr \in Reachable(m)
         /\ \A S \in SUBSET Node :
              Root \in S /\ (\A n \in S, s \in Sides : m[n][s].addr # NULL => m[n][s].addr \in S)
                => Reachable(m) \subseteq S
<1>1. /\ Kids(m) \in [Node -> SUBSET Node]
      /\ \A n \in Node : \A x : x \in Kids(m)[n] <=> x # NULL /\ \E s \in Sides : x = m[n][s].addr
  BY Steps
<1>2. {Root} \in SUBSET Node
  BY NodeFacts
<1>3. /\ {Root} \subseteq Reachable(m) /\ Reachable(m) \subseteq Node
      /\ ClosedUnder(Kids(m), Reachable(m))
      /\ \A S \in SUBSET Node :
              {Root} \subseteq S /\ ClosedUnder(Kids(m), S) => Reachable(m) \subseteq S
  BY <1>1, <1>2, ReachLeast DEF Reachable
<1>4. \A S \in SUBSET Node :
        ClosedUnder(Kids(m), S) <=> \A n \in S, s \in Sides : m[n][s].addr # NULL => m[n][s].addr \in S
  BY <1>1 DEF ClosedUnder
<1> QED BY <1>3, <1>4

(* Chain(m, a) is the least set with a that is closed under marked words. *)
LEMMA ChainLeast ==
  ASSUME NEW m \in Memory, NEW a \in Node
  PROVE  /\ Chain(m, a) \in SUBSET Node /\ a \in Chain(m, a)
         /\ \A n \in Chain(m, a), s \in Sides :
              m[n][s].mark /\ m[n][s].addr # NULL => m[n][s].addr \in Chain(m, a)
         /\ \A S \in SUBSET Node :
              a \in S /\ (\A n \in S, s \in Sides : m[n][s].mark /\ m[n][s].addr # NULL => m[n][s].addr \in S)
                => Chain(m, a) \subseteq S
<1>1. /\ Marks(m) \in [Node -> SUBSET Node]
      /\ \A n \in Node : \A x :
           x \in Marks(m)[n] <=> x # NULL /\ \E s \in Sides : m[n][s].mark /\ x = m[n][s].addr
  BY Steps
<1>3. /\ {a} \subseteq Chain(m, a) /\ Chain(m, a) \subseteq Node
      /\ ClosedUnder(Marks(m), Chain(m, a))
      /\ \A S \in SUBSET Node :
              {a} \subseteq S /\ ClosedUnder(Marks(m), S) => Chain(m, a) \subseteq S
  BY <1>1, ReachLeast DEF Chain
<1>4. \A S \in SUBSET Node :
        ClosedUnder(Marks(m), S) <=>
        \A n \in S, s \in Sides : m[n][s].mark /\ m[n][s].addr # NULL => m[n][s].addr \in S
  BY <1>1 DEF ClosedUnder
<1> QED BY <1>3, <1>4

Ahd(m, k, n) == m[n][SideOf(k, m[n])].addr

(* Walk(m, k, a) is the least set with a that is closed under the turns of *)
(* a search for k.                                                         *)
LEMMA WalkLeast ==
  ASSUME NEW m \in Memory, NEW k, NEW a \in Node
  PROVE  /\ Walk(m, k, a) \in SUBSET Node /\ a \in Walk(m, k, a)
         /\ \A n \in Walk(m, k, a) : Ahd(m, k, n) # NULL => Ahd(m, k, n) \in Walk(m, k, a)
         /\ \A S \in SUBSET Node :
              a \in S /\ (\A n \in S : Ahd(m, k, n) # NULL => Ahd(m, k, n) \in S)
                => Walk(m, k, a) \subseteq S
<1>1. /\ Turn(m, k) \in [Node -> SUBSET Node]
      /\ \A n \in Node : \A x : x \in Turn(m, k)[n] <=> x # NULL /\ x = Ahd(m, k, n)
  BY Steps DEF Ahd
<1>3. /\ {a} \subseteq Walk(m, k, a) /\ Walk(m, k, a) \subseteq Node
      /\ ClosedUnder(Turn(m, k), Walk(m, k, a))
      /\ \A S \in SUBSET Node :
              {a} \subseteq S /\ ClosedUnder(Turn(m, k), S) => Walk(m, k, a) \subseteq S
  BY <1>1, ReachLeast DEF Walk
<1>4. \A S \in SUBSET Node :
        ClosedUnder(Turn(m, k), S) <=> \A n \in S : Ahd(m, k, n) # NULL => Ahd(m, k, n) \in S
  BY <1>1 DEF ClosedUnder
<1> QED BY <1>3, <1>4

-----------------------------------------------------------------------------
(* What is used of Tree: nothing leads out of it or back to the root, a    *)
(* node has one parent, and a set with the root that is closed under words *)
(* has all of it.                                                          *)
LEMMA TreeFacts ==
  ASSUME NEW m, NEW L, Tree(m, L)
  PROVE  /\ m \in Memory /\ L \in SUBSET Node /\ Root \in L /\ 2 \in L /\ 3 \in L
         /\ \A n \in L, s \in Sides : m[n][s].addr # NULL => m[n][s].addr \in L /\ m[n][s].addr # Root
         /\ \A n \in Node, s \in Sides :
              IF IsLeaf(m[n]) THEN m[n][s] = NullWord ELSE m[n][s].addr # NULL /\ m[n][s].addr \in Node
         /\ \A n, p \in L : \A s, r \in Sides :
              m[n][s].addr = m[p][r].addr /\ m[n][s].addr # NULL => n = p /\ s = r
         /\ \A S \in SUBSET Node :
              Root \in S /\ (\A n \in S, s \in Sides : m[n][s].addr # NULL => m[n][s].addr \in S)
                => L \subseteq S
<1>1. m \in Memory /\ L = Reachable(m) /\ Shape(m) /\ Sentinels(m, L) /\ OneParent(m, L)
  BY DEF Tree
<1>2. /\ L \in SUBSET Node /\ Root \in L
      /\ \A n \in L, s \in Sides : m[n][s].addr # NULL => m[n][s].addr \in L
      /\ \A S \in SUBSET Node :
              Root \in S /\ (\A n \in S, s \in Sides : m[n][s].addr # NULL => m[n][s].addr \in S)
                => L \subseteq S
  BY <1>1, ReachableLeast
<1>3. \A n \in Node, s \in Sides :
        IF IsLeaf(m[n]) THEN m[n][s] = NullWord ELSE m[n][s].addr # NULL /\ m[n][s].addr \in Node
  BY <1>1, WordOf DEF Shape
<1>4. \A n, p \in L : \A s, r \in Sides :
           /\ m[n][s].addr # Root
           /\ m[n][s].addr = m[p][r].addr /\ m[n][s].addr # NULL => n = p /\ s = r
  BY <1>1 DEF OneParent
<1>5. 2 \in L /\ 3 \in L
  <2>1. 2 \in L /\ m[Root].right = Word(3, FALSE, FALSE)
    BY <1>1 DEF Sentinels
  <2>2. m[Root]["right"].addr = 3
    BY <2>1 DEF Word
  <2> QED BY <1>2, <2>1, <2>2, SideFacts DEF NULL
<1> QED BY <1>1, <1>2, <1>3, <1>4, <1>5

(* The words of the root are free: its children are never removed. *)
LEMMA RootWords ==
  ASSUME NEW m, NEW L, Tree(m, L), Words(m, L)
  PROVE  \A s \in Sides : IsFree(m[Root][s])
<1>1. m \in Memory /\ Sentinels(m, L) /\ Root \in L /\ Root \in Node
  BY TreeFacts, NodeFacts DEF Tree
<1>2. m[Root].right = Word(3, FALSE, FALSE) /\ m[3].key = m[3].key
  BY <1>1 DEF Sentinels
<1>3. ~m[Root]["right"].flag /\ ~m[Root]["right"].mark /\ m[Root]["right"].addr = 3
  BY <1>2 DEF Word
<1>4. ~m[Root]["left"].mark
  BY <1>1, <1>3, SideFacts DEF Words, Sibling
<1>5. ASSUME m[Root]["left"].flag PROVE FALSE
  <2> DEFINE x == m[Root]["left"].addr
             S == {Root, x, 3}
  <2>1. IsLeaf(m[x]) /\ m[x].key \in Key
    BY <1>1, <1>5, SideFacts DEF Words
  <2>2. x \in Node /\ 3 \in Node /\ 2 \in L
    BY <1>1, TreeFacts, NodeFacts, SideFacts DEF Sentinels
  <2>3. \A s \in Sides : m[x][s].addr = NULL /\ m[3][s].addr = NULL
    BY <1>1, <2>1, <2>2, TreeFacts DEF Sentinels, NullWord, Word
  <2>4. \A n \in S, s \in Sides : m[n][s].addr # NULL => m[n][s].addr \in S
    BY <1>3, <2>3 DEF Sides
  <2>5. L \subseteq S
    <3>1. S \in SUBSET Node /\ Root \in S
      BY <2>2, NodeFacts
    <3> HIDE DEF S
    <3> QED BY <3>1, <2>4, TreeFacts
  <2>6. x = 2
    BY <2>2, <2>5 DEF Root
  <2> QED BY <1>1, <2>1, <2>6, BstAssumption DEF Sentinels, Key
<1> QED BY <1>3, <1>4, <1>5 DEF Sides, IsFree

(* A chain of marked words goes by a marked word first. *)
LEMMA ChainStep ==
  ASSUME NEW m \in Memory, NEW n \in Node, NEW b \in Chain(m, n), b # n
  PROVE  \E r \in Sides : m[n][r].mark /\ m[n][r].addr \in Node /\ b \in Chain(m, m[n][r].addr)
<1> DEFINE S == {n} \cup {y \in Node : \E r \in Sides :
                            m[n][r].mark /\ m[n][r].addr \in Node /\ y \in Chain(m, m[n][r].addr)}
<1>1. \A y \in S, s \in Sides : m[y][s].mark /\ m[y][s].addr # NULL => m[y][s].addr \in S
  <2> SUFFICES ASSUME NEW y \in S, NEW s \in Sides, m[y][s].mark, m[y][s].addr # NULL
               PROVE  m[y][s].addr \in S
    OBVIOUS
  <2>1. m[y][s].addr \in Node
    BY WordOf
  <2>2. CASE y = n
    BY <2>1, <2>2, ChainLeast
  <2>3. CASE y # n
    BY <2>1, <2>3, ChainLeast
  <2> QED BY <2>2, <2>3
<1>2. Chain(m, n) \subseteq S
  <2>1. S \in SUBSET Node /\ n \in S
    OBVIOUS
  <2> HIDE DEF S
  <2> QED BY <1>1, <2>1, ChainLeast
<1> QED BY <1>2

OneWord(m, m2, p, d, w) ==
  /\ m2 \in Memory
  /\ \A n \in Node : m2[n].key = m[n].key /\ m2[n].value = m[n].value
  /\ \A n \in Node, s \in Sides : m2[n][s] = IF n = p /\ s = d THEN w ELSE m[n][s]

(* What a CAS does that takes a chain of nodes out of the tree. *)
CutAt(m, L, lum, d, parent, s, m2) ==
  /\ Tree(m, L) /\ Words(m, L)
  /\ lum \in L /\ d \in Sides /\ s \in Sides
  /\ ~IsLeaf(m[lum]) /\ IsFree(m[lum][d])
  /\ m[parent][s].mark /\ parent \in Chain(m, m[lum][d].addr)
  /\ OneWord(m, m2, lum, d, Promoted(m[parent][s]))

(* After the CAS: the sibling is in the tree and only the word of lum has  *)
(* changed.                                                                *)
LEMMA CutBasics ==
  ASSUME NEW m, NEW L, NEW lum, NEW d, NEW parent, NEW s, NEW m2,
         CutAt(m, L, lum, d, parent, s, m2)
  PROVE  LET L2 == Reachable(m2)
             x == m[lum][d].addr
             q == m[parent][s].addr
         IN  /\ L2 \subseteq L /\ lum \in L2 /\ q \in L2 /\ Root \in L2
             /\ x \in L /\ parent \in L /\ ~IsLeaf(m[parent]) /\ q \in L /\ x # NULL /\ q # NULL
             /\ Chain(m, x) \subseteq L
             /\ m[parent][Sibling(s)].flag
             /\ m2[lum][d] = Promoted(m[parent][s]) /\ m2[lum][d].addr = q
             /\ \A n \in Node, r \in Sides : n # lum \/ r # d => m2[n][r] = m[n][r]
<1> DEFINE L2 == Reachable(m2)
           x == m[lum][d].addr
           q == m[parent][s].addr
<1>1. /\ Tree(m, L) /\ Words(m, L) /\ lum \in L /\ d \in Sides /\ s \in Sides
      /\ ~IsLeaf(m[lum]) /\ m[parent][s].mark /\ parent \in Chain(m, x)
      /\ m2 \in Memory /\ m \in Memory
      /\ \A n \in Node, r \in Sides :
           m2[n][r] = IF n = lum /\ r = d THEN Promoted(m[parent][s]) ELSE m[n][r]
  BY DEF CutAt, OneWord, Tree
<1>2. L \in SUBSET Node /\ x \in L /\ x # NULL
  BY <1>1, TreeFacts
<1>3. Chain(m, x) \subseteq L
  <2>1. \A n \in L, r \in Sides : m[n][r].addr # NULL => m[n][r].addr \in L
    BY <1>1, TreeFacts
  <2> HIDE DEF x
  <2> QED BY <1>1, <1>2, <2>1, ChainLeast
<1>4. parent \in L /\ m[parent][Sibling(s)].flag
  BY <1>1, <1>3 DEF Words
<1>5. ~IsLeaf(m[parent])
  BY <1>1, <1>2, <1>4, TreeFacts DEF NullWord, Word
<1>6. q \in L /\ q # NULL
  BY <1>1, <1>2, <1>4, <1>5, TreeFacts
<1>7. m2[lum][d].addr = q /\ m2[lum][d] = Promoted(m[parent][s]) /\ lum \in Node
  <2>1. lum \in Node
    BY <1>1, <1>2
  <2>2. m2[lum][d] = Promoted(m[parent][s])
    BY <2>1, <1>1
  <2> QED BY <2>1, <2>2 DEF Promoted, Word
<1>8. /\ L2 \in SUBSET Node /\ Root \in L2
      /\ \A n \in L2, r \in Sides : m2[n][r].addr # NULL => m2[n][r].addr \in L2
      /\ \A S \in SUBSET Node :
           Root \in S /\ (\A n \in S, r \in Sides : m2[n][r].addr # NULL => m2[n][r].addr \in S)
                => L2 \subseteq S
  BY <1>1, ReachableLeast
<1>9. L2 \subseteq L
  <2>1. \A n \in L, r \in Sides : m2[n][r].addr # NULL => m2[n][r].addr \in L
    <3> TAKE n \in L, r \in Sides
    <3>1. CASE n = lum /\ r = d
      BY <3>1, <1>6, <1>7
    <3>2. CASE n # lum \/ r # d
      BY <3>2, <1>1, <1>2, TreeFacts
    <3> QED BY <3>1, <3>2
  <2> QED BY <2>1, <1>8, <1>1, <1>2, TreeFacts
<1>10. lum \in L2
  <2>1. SUFFICES ASSUME lum \notin L2 PROVE FALSE
    OBVIOUS
  <2>2. \A n \in L2, r \in Sides : m[n][r].addr # NULL => m[n][r].addr \in L2
    BY <2>1, <1>8, <1>1
  <2>3. L \subseteq L2
    BY <2>2, <1>8, <1>1, TreeFacts
  <2> QED BY <2>1, <2>3, <1>1
<1>11. q \in L2
  BY <1>10, <1>8, <1>7, <1>6, <1>1
<1> HIDE DEF x, q, L2
<1>12. \A n \in Node, r \in Sides : n # lum \/ r # d => m2[n][r] = m[n][r]
  BY <1>1
<1> QED BY <1>2, <1>3, <1>4, <1>5, <1>6, <1>7, <1>8, <1>9, <1>10, <1>11, <1>12 DEF x, q, L2

(* What is cut off: the nodes from which marked words lead to the parent,  *)
(* and leaves whose words are flagged.                                     *)
LEMMA CutGone ==
  ASSUME NEW m, NEW L, NEW lum, NEW d, NEW parent, NEW s, NEW m2,
         CutAt(m, L, lum, d, parent, s, m2)
  PROVE  \A n \in L \ Reachable(m2) :
           /\ ~IsLeaf(m[n]) => /\ parent \in Chain(m, n)
                               /\ \A r \in Sides : ~IsFree(m[n][r])
                               /\ \E r \in Sides : m[n][r].flag
           /\ IsLeaf(m[n]) => \E p \in L, r \in Sides :
                                /\ parent \in Chain(m, p)
                                /\ m[p][r].flag /\ m[p][r].addr = n
<1> DEFINE L2 == Reachable(m2)
           x == m[lum][d].addr
           q == m[parent][s].addr
           Z == {n \in L : parent \in Chain(m, n)}
           F == {y \in Node : \E p \in Z, r \in Sides : m[p][r].flag /\ m[p][r].addr = y}
           S == L2 \cup Z \cup F
<1>1. /\ Tree(m, L) /\ Words(m, L) /\ lum \in L /\ d \in Sides /\ s \in Sides
      /\ m[parent][s].mark /\ parent \in Chain(m, x) /\ m2 \in Memory
  BY DEF CutAt, OneWord
<1>2. /\ m \in Memory /\ L \in SUBSET Node
      /\ \A n \in L, r \in Sides : m[n][r].addr # NULL => m[n][r].addr \in L
      /\ \A n \in Node, r \in Sides :
              IF IsLeaf(m[n]) THEN m[n][r] = NullWord ELSE m[n][r].addr # NULL /\ m[n][r].addr \in Node
      /\ \A T \in SUBSET Node :
              Root \in T /\ (\A n \in T, r \in Sides : m[n][r].addr # NULL => m[n][r].addr \in T)
                => L \subseteq T
  BY <1>1, TreeFacts
<1>3. /\ L2 \subseteq L /\ q \in L2 /\ Root \in L2
      /\ x \in L /\ parent \in L /\ ~IsLeaf(m[parent])
      /\ m[parent][Sibling(s)].flag
      /\ \A n \in Node, r \in Sides : n # lum \/ r # d => m2[n][r] = m[n][r]
  BY CutBasics
<1>4. \A n \in L, r \in Sides : m[n][r].flag => IsLeaf(m[m[n][r].addr]) /\ m[n][r].addr \in Node
  <2>1. \A n \in L, r \in Sides : m[n][r].flag => IsLeaf(m[m[n][r].addr]) /\ ~IsLeaf(m[n])
    BY <1>1, <1>2 DEF Words, NullWord, Word
  <2> QED BY <2>1, <1>2
<1>5. ASSUME NEW n \in Z
      PROVE  \E r \in Sides : /\ m[n][r].mark /\ m[n][Sibling(r)].flag
                              /\ m[n][r].addr \in Z \cup {q}
  <2>1. CASE n = parent
    BY <2>1, <1>1, <1>3
  <2>2. CASE n # parent
    <3>1. PICK r \in Sides : m[n][r].mark /\ m[n][r].addr \in Node /\ parent \in Chain(m, m[n][r].addr)
      BY <2>2, <1>2, ChainStep
    <3>2. m[n][r].addr \in L
      BY <3>1, <1>2, NodeFacts
    <3>3. m[n][Sibling(r)].flag
      BY <3>1, <1>1 DEF Words
    <3> QED BY <3>1, <3>2, <3>3
  <2> QED BY <2>1, <2>2
<1>6. ASSUME NEW n \in Z
      PROVE  /\ ~IsLeaf(m[n])
             /\ \A r \in Sides : ~IsFree(m[n][r])
             /\ \E r \in Sides : m[n][r].flag
             /\ \A r \in Sides : m[n][r].addr \in Z \cup F \cup {q}
  <2>1. PICK r \in Sides : m[n][r].mark /\ m[n][Sibling(r)].flag /\ m[n][r].addr \in Z \cup {q}
    BY <1>5
  <2>2. Sibling(r) \in Sides /\ \A u \in Sides : u = r \/ u = Sibling(r)
    BY SideFacts
  <2>3. m[n][Sibling(r)].addr \in F
    BY <2>1, <2>2, <1>4
  <2>4. ~IsLeaf(m[n])
    BY <2>1, <1>2 DEF NullWord, Word
  <2> QED BY <2>1, <2>2, <2>3, <2>4 DEF IsFree
<1>7. \A n \in S, r \in Sides : m[n][r].addr # NULL => m[n][r].addr \in S
  <2> TAKE n \in S, r \in Sides
  <2>1. CASE n \in Z
    BY <2>1, <1>6, <1>3
  <2>2. CASE n \in F
    <3>1. IsLeaf(m[n]) /\ n \in Node
      BY <2>2, <1>4
    <3> QED BY <3>1, <1>2 DEF NullWord, Word
  <2>3. CASE n \in L2 /\ n = lum /\ r = d
    <3>1. x \in Z
      BY <1>3, <1>1
    <3> QED BY <3>1, <2>3
  <2>4. CASE n \in L2 /\ (n # lum \/ r # d)
    <3>1. m2[n][r] = m[n][r]
      BY <2>4, <1>2, <1>3
    <3>2. m2[n][r].addr # NULL => m2[n][r].addr \in L2
      BY <2>4, <1>1, ReachableLeast
    <3> QED BY <3>1, <3>2
  <2> QED BY <2>1, <2>2, <2>3, <2>4
<1>8. L \subseteq S
  <2>1. S \in SUBSET Node /\ Root \in S
    BY <1>2, <1>3
  <2> HIDE DEF S
  <2> QED BY <2>1, <1>2, <1>7
<1>9. ASSUME NEW n \in L \ L2, ~IsLeaf(m[n]) PROVE n \in Z
  BY <1>8, <1>9, <1>4
<1>10. ASSUME NEW n \in L \ L2, IsLeaf(m[n]) PROVE n \in F
  BY <1>8, <1>10, <1>6
<1>11. \A n \in F : \E p \in L, r \in Sides : parent \in Chain(m, p) /\ m[p][r].flag /\ m[p][r].addr = n
  OBVIOUS
<1>12. \A n \in Z : parent \in Chain(m, n)
  OBVIOUS
<1> HIDE DEF Z, F
<1> QED BY <1>6, <1>9, <1>10, <1>11, <1>12

(* A node of the tree other than the root has a parent in the tree. *)
LEMMA ParentExists ==
  ASSUME NEW m \in Memory, NEW c \in Reachable(m), c # Root
  PROVE  \E p \in Reachable(m), r \in Sides : m[p][r].addr = c
<1>1. SUFFICES ASSUME \A p \in Reachable(m), r \in Sides : m[p][r].addr # c PROVE FALSE
  OBVIOUS
<1> DEFINE S == Reachable(m) \ {c}
<1>2. S \in SUBSET Node /\ Root \in S
  BY ReachableLeast
<1>3. \A n \in S, r \in Sides : m[n][r].addr # NULL => m[n][r].addr \in S
  BY <1>1, ReachableLeast
<1>4. c \notin S
  OBVIOUS
<1> HIDE DEF S
<1> QED BY <1>2, <1>3, <1>4, ReachableLeast

(* The nodes that are cut off hang together: the words of them lead to     *)
(* each other, and one, the sibling's, to a node that stays.               *)
LEMMA CutParts ==
  ASSUME NEW m, NEW L, NEW lum, NEW d, NEW parent, NEW s, NEW m2,
         CutAt(m, L, lum, d, parent, s, m2)
  PROVE  LET gone == L \ Reachable(m2)
             x == m[lum][d].addr
             q == m[parent][s].addr
         IN  /\ x \in gone /\ parent \in gone
             /\ \A n \in gone, r \in Sides : m[n][r].addr # NULL => m[n][r].addr \in gone \cup {q}
             /\ \A n \in gone, r \in Sides :
                  ~IsLeaf(m[n]) /\ m[n][r].addr # q /\ IsLeaf(m[m[n][r].addr]) => m[n][r].flag
<1> DEFINE L2 == Reachable(m2)
           x == m[lum][d].addr
           q == m[parent][s].addr
           gone == L \ L2
<1>1. /\ Tree(m, L) /\ Words(m, L) /\ lum \in L /\ d \in Sides /\ s \in Sides
      /\ IsFree(m[lum][d]) /\ m[parent][s].mark /\ parent \in Chain(m, x) /\ m2 \in Memory
  BY DEF CutAt, OneWord
<1>2. /\ m \in Memory /\ L \in SUBSET Node
      /\ \A n \in L, r \in Sides : m[n][r].addr # NULL => m[n][r].addr \in L /\ m[n][r].addr # Root
      /\ \A n \in Node, r \in Sides :
              IF IsLeaf(m[n]) THEN m[n][r] = NullWord ELSE m[n][r].addr # NULL /\ m[n][r].addr \in Node
      /\ \A n, p \in L : \A u, r \in Sides :
              m[n][u].addr = m[p][r].addr /\ m[n][u].addr # NULL => n = p /\ u = r
  BY <1>1, TreeFacts
<1>3. /\ L2 \subseteq L /\ q \in L2 /\ q # NULL
      /\ x \in L /\ parent \in L /\ x # NULL
      /\ m[parent][Sibling(s)].flag
      /\ m2[lum][d].addr = q
      /\ \A n \in Node, r \in Sides : n # lum \/ r # d => m2[n][r] = m[n][r]
  BY CutBasics
<1>4. ASSUME NEW c \in L2, c # Root, c # q
      PROVE  \E p \in L2, u \in Sides : m[p][u].addr = c /\ (p # lum \/ u # d)
  <2>1. PICK p \in L2, u \in Sides : m2[p][u].addr = c
    BY <1>1, <1>4, ParentExists
  <2>2. p # lum \/ u # d
    BY <2>1, <1>3, <1>4
  <2> QED BY <2>1, <2>2, <1>2, <1>3
<1>5. ASSUME NEW n \in gone, NEW r \in Sides, m[n][r].addr # NULL
      PROVE  m[n][r].addr \in gone \cup {q}
  <2>1. m[n][r].addr \in L /\ m[n][r].addr # Root
    BY <1>5, <1>2
  <2>2. ASSUME m[n][r].addr \in L2, m[n][r].addr # q PROVE FALSE
    <3>1. PICK p \in L2, u \in Sides : m[p][u].addr = m[n][r].addr
      BY <2>1, <2>2, <1>4
    <3>2. p = n
      BY <3>1, <1>2, <1>3, <1>5
    <3> QED BY <3>2
  <2> QED BY <2>1, <2>2
<1>6. x # q
  BY <1>1, <1>2, <1>3 DEF IsFree
<1>7. x \in gone
  <2>1. ASSUME x \in L2 PROVE FALSE
    <3>1. x # Root
      BY <1>1, <1>2, <1>3
    <3>2. PICK p \in L2, u \in Sides : m[p][u].addr = x /\ (p # lum \/ u # d)
      BY <3>1, <2>1, <1>4, <1>6
    <3> QED BY <3>2, <1>1, <1>2, <1>3
  <2> QED BY <2>1, <1>3
<1>8. parent \in gone
  <2>1. SUFFICES ASSUME parent \notin gone PROVE FALSE
    OBVIOUS
  <2>2. \A n \in gone, r \in Sides : m[n][r].mark /\ m[n][r].addr # NULL => m[n][r].addr \in gone
    <3> SUFFICES ASSUME NEW n \in gone, NEW r \in Sides, m[n][r].addr # NULL, m[n][r].addr = q
                 PROVE  FALSE
      BY <1>5
    <3> QED BY <2>1, <1>1, <1>2, <1>3
  <2>3. gone \in SUBSET Node /\ x \in Node
    BY <1>2, <1>3
  <2> HIDE DEF gone, x
  <2>4. Chain(m, x) \subseteq gone
    BY <2>2, <2>3, <1>2, <1>7, ChainLeast
  <2> QED BY <2>1, <2>4, <1>1
<1>9. ASSUME NEW n \in gone, NEW r \in Sides, ~IsLeaf(m[n]),
             m[n][r].addr # q, IsLeaf(m[m[n][r].addr])
      PROVE  m[n][r].flag
  <2>1. parent \in Chain(m, n)
    BY <1>9, CutGone
  <2>2. CASE n = parent
    BY <2>2, <1>9, <1>1, <1>3, SideFacts
  <2>3. CASE n # parent
    <3>1. PICK u \in Sides : m[n][u].mark /\ m[n][u].addr \in Node /\ parent \in Chain(m, m[n][u].addr)
      BY <2>1, <2>3, <1>2, ChainStep
    <3>2. m[n][Sibling(u)].flag
      BY <3>1, <1>1 DEF Words
    <3>3. ~IsLeaf(m[m[n][u].addr])
      <4>1. CASE m[n][u].addr = parent
        BY <4>1, <1>1, <1>2, <1>3 DEF NullWord, Word
      <4>2. CASE m[n][u].addr # parent
        <5>1. \E v \in Sides : m[m[n][u].addr][v].mark
          BY <3>1, <4>2, <1>2, ChainStep
        <5> QED BY <5>1, <3>1, <1>2 DEF NullWord, Word
      <4> QED BY <4>1, <4>2
    <3>4. r # u
      BY <3>3, <1>9
    <3> QED BY <3>2, <3>4, SideFacts
  <2> QED BY <2>2, <2>3
<1> HIDE DEF x, q, gone
<1> QED BY <1>5, <1>7, <1>8, <1>9 DEF x, q, gone

(* A word that is written keeps its node internal. *)
LEMMA SameLeaves ==
  ASSUME NEW m \in Memory, Shape(m), NEW m2, NEW p \in Node, NEW d \in Sides, NEW w,
         OneWord(m, m2, p, d, w), ~IsLeaf(m[p]), w.addr # NULL
  PROVE  /\ \A n \in Node : IsLeaf(m2[n]) <=> IsLeaf(m[n])
         /\ Shape(m2)
         /\ \A k : \A n \in Node : SideOf(k, m2[n]) = SideOf(k, m[n])
<1>1. /\ \A n \in Node : m2[n].key = m[n].key
      /\ \A n \in Node, s \in Sides : m2[n][s] = IF n = p /\ s = d THEN w ELSE m[n][s]
  BY DEF OneWord
<1>2. \A n \in Node : IsLeaf(m2[n]) <=> m2[n]["left"].addr = NULL
  BY DEF IsLeaf
<1>3. \A n \in Node : IsLeaf(m[n]) <=> m[n]["left"].addr = NULL
  BY DEF IsLeaf
<1>4. \A n \in Node : IsLeaf(m2[n]) <=> IsLeaf(m[n])
  BY <1>1, <1>2, <1>3, SideFacts
<1>5. Shape(m2)
  BY <1>1, <1>4 DEF Shape
<1> QED BY <1>1, <1>4, <1>5 DEF SideOf

(* A search that is not cut off still gets where it would have got. *)
LEMMA CutWalk ==
  ASSUME NEW m, NEW L, NEW lum, NEW d, NEW parent, NEW s, NEW m2,
         CutAt(m, L, lum, d, parent, s, m2),
         NEW k, NEW n \in Node, NEW a \in Walk(m, k, n), a \notin L \ Reachable(m2)
  PROVE  a \in Walk(m2, k, n)
<1> DEFINE L2 == Reachable(m2)
           x == m[lum][d].addr
           q == m[parent][s].addr
           gone == L \ L2
           S == Walk(m2, k, n)
           T == IF lum \in S /\ SideOf(k, m[lum]) = d THEN S \cup gone ELSE S
<1>1. /\ Tree(m, L) /\ m \in Memory /\ m2 \in Memory /\ Shape(m) /\ L \in SUBSET Node
      /\ lum \in L /\ d \in Sides /\ ~IsLeaf(m[lum])
      /\ OneWord(m, m2, lum, d, Promoted(m[parent][s]))
  BY TreeFacts DEF CutAt, OneWord, Tree
<1>2. /\ x \in gone /\ q # NULL /\ m2[lum][d].addr = q
      /\ \A y \in gone, r \in Sides : m[y][r].addr # NULL => m[y][r].addr \in gone \cup {q}
      /\ \A y \in Node, r \in Sides : y # lum \/ r # d => m2[y][r] = m[y][r]
  BY CutBasics, CutParts
<1>3. \A y \in Node : SideOf(k, m2[y]) = SideOf(k, m[y])
  BY <1>1 DEF OneWord, SideOf
<1>4. /\ S \in SUBSET Node /\ n \in S
      /\ \A y \in S : Ahd(m2, k, y) # NULL => Ahd(m2, k, y) \in S
  BY <1>1, WalkLeast
<1>5. \A y \in Node : y # lum \/ SideOf(k, m[lum]) # d => Ahd(m2, k, y) = Ahd(m, k, y)
  BY <1>2, <1>3, SideFacts DEF Ahd
<1>6. SideOf(k, m[lum]) = d => Ahd(m2, k, lum) = q /\ Ahd(m, k, lum) = x
  BY <1>1, <1>2, <1>3 DEF Ahd
<1>7. T \in SUBSET Node /\ n \in T /\ (a \in T => a \in S)
  BY <1>1, <1>4
<1>8. ASSUME NEW y \in T, Ahd(m, k, y) # NULL PROVE Ahd(m, k, y) \in T
  <2>1. CASE y \in S /\ (y # lum \/ SideOf(k, m[lum]) # d)
    BY <2>1, <1>8, <1>4, <1>5
  <2>2. CASE y \in S /\ y = lum /\ SideOf(k, m[lum]) = d
    BY <2>2, <1>6, <1>2
  <2>3. CASE y \notin S
    <3>1. y \in gone /\ lum \in S /\ SideOf(k, m[lum]) = d
      BY <2>3
    <3>2. q \in S
      BY <3>1, <1>4, <1>6, <1>2
    <3>3. Ahd(m, k, y) \in gone \cup {q}
      BY <3>1, <1>2, <1>8, SideFacts DEF Ahd
    <3> QED BY <3>1, <3>2, <3>3
  <2> QED BY <2>1, <2>2, <2>3
<1> HIDE DEF T
<1>9. Walk(m, k, n) \subseteq T
  BY <1>1, <1>7, <1>8, WalkLeast
<1> QED BY <1>7, <1>9

(* Path is Walk from the root. *)
LEMMA PathIsWalk == \A m, k : Path(m, k) = Walk(m, k, Root)
BY DEF Path, Walk

(* What the CAS of a deletion leaves is a tree. *)
LEMMA CutTree ==
  ASSUME NEW m, NEW L, NEW lum, NEW d, NEW parent, NEW s, NEW m2,
         CutAt(m, L, lum, d, parent, s, m2)
  PROVE  /\ Tree(m2, Reachable(m2))
         /\ \A n \in Node : IsLeaf(m2[n]) <=> IsLeaf(m[n])
<1> DEFINE L2 == Reachable(m2)
           x == m[lum][d].addr
           q == m[parent][s].addr
           gone == L \ L2
<1>1. /\ Tree(m, L) /\ Words(m, L) /\ m \in Memory /\ m2 \in Memory /\ Shape(m) /\ L \in SUBSET Node
      /\ Sentinels(m, L) /\ LeavesFound(m, L)
      /\ lum \in L /\ lum \in Node /\ d \in Sides /\ s \in Sides /\ ~IsLeaf(m[lum]) /\ IsFree(m[lum][d])
      /\ m[parent][s].mark
      /\ OneWord(m, m2, lum, d, Promoted(m[parent][s]))
  BY TreeFacts DEF CutAt, OneWord, Tree
<1>2. /\ L2 \subseteq L /\ Root \in L2 /\ q \in L2 /\ q # NULL /\ x # NULL
      /\ x \in gone /\ parent \in gone
      /\ m2[lum][d].addr = q
      /\ \A n \in Node, r \in Sides : n # lum \/ r # d => m2[n][r] = m[n][r]
  BY CutBasics, CutParts
<1>3. /\ \A n \in L, r \in Sides : m[n][r].addr # NULL => m[n][r].addr \in L /\ m[n][r].addr # Root
      /\ \A n, p \in L : \A u, r \in Sides :
              m[n][u].addr = m[p][r].addr /\ m[n][u].addr # NULL => n = p /\ u = r
  BY <1>1, TreeFacts
<1>4. Promoted(m[parent][s]).addr = q
  BY DEF Promoted, Word
<1>5. (\A n \in Node : IsLeaf(m2[n]) <=> IsLeaf(m[n])) /\ Shape(m2)
  BY <1>1, <1>2, <1>4, SameLeaves
<1>6. \A n \in Node : m2[n].key = m[n].key /\ m2[n].value = m[n].value
  BY <1>1 DEF OneWord
<1>7. Sentinels(m2, L2)
  <2>1. 2 \in L2
    <3>1. SUFFICES ASSUME 2 \in gone PROVE FALSE
      BY <1>1 DEF Sentinels
    <3>2. IsLeaf(m[2]) /\ m[2].key = MaxKey + 1 /\ MaxKey \in Nat
      BY <1>1, BstAssumption DEF Sentinels
    <3>3. PICK p \in L, r \in Sides : m[p][r].flag /\ m[p][r].addr = 2
      BY <3>1, <3>2, CutGone
    <3>4. m[2].key \in Key
      BY <3>3, <1>1 DEF Words
    <3> QED BY <3>2, <3>4 DEF Key
  <2>2. m[Root]["right"].addr = 3 /\ m[Root].right = Word(3, FALSE, FALSE) /\ IsLeaf(m[3])
    BY <1>1 DEF Sentinels, Word
  <2>3. lum # Root \/ d # "right"
    <3>1. SUFFICES ASSUME lum = Root, d = "right" PROVE FALSE
      OBVIOUS
    <3>2. 3 \in gone
      BY <3>1, <2>2, <1>2
    <3>3. PICK p \in L, r \in Sides : m[p][r].flag /\ m[p][r].addr = 3
      BY <3>2, <2>2, CutGone
    <3>4. p = Root
      BY <3>3, <2>2, <1>1, <1>2, <1>3, SideFacts DEF NULL
    <3> QED BY <3>3, <3>4, <1>1, RootWords DEF IsFree
  <2>4. m2[Root]["right"] = m[Root]["right"]
    BY <2>3, <1>2, NodeFacts, SideFacts
  <2> QED BY <2>1, <2>2, <2>4, <1>1, <1>5, <1>6, NodeFacts DEF Sentinels
<1>8. OneParent(m2, L2)
  <2>1. \A n \in L2, r \in Sides : m2[n][r].addr # Root
    <3>1. q # Root
      BY <1>1, <1>2, <1>3
    <3> QED BY <3>1, <1>1, <1>2, <1>3, TreeFacts, NodeFacts
  <2>2. ASSUME NEW p \in L2, NEW u \in Sides, m2[p][u].addr = q PROVE p = lum /\ u = d
    BY <2>2, <1>1, <1>2, <1>3
  <2>3. ASSUME NEW n \in L2, NEW p \in L2, NEW u \in Sides, NEW r \in Sides,
               m2[n][u].addr = m2[p][r].addr, m2[n][u].addr # NULL
        PROVE  n = p /\ u = r
    <3>1. CASE m2[n][u].addr = q
      BY <2>2, <2>3, <3>1
    <3>2. CASE m2[n][u].addr # q
      <4>1. m2[n][u] = m[n][u] /\ m2[p][r] = m[p][r]
        BY <2>3, <3>2, <1>1, <1>2
      <4> QED BY <4>1, <2>3, <1>2, <1>3
    <3> QED BY <3>1, <3>2
  <2> QED BY <2>1, <2>3 DEF OneParent
<1>9. LeavesFound(m2, L2)
  <2> SUFFICES ASSUME NEW a \in L2, IsLeaf(m2[a]), m2[a].key \in Key
               PROVE  m2[a].value \in Value /\ a \in Path(m2, m2[a].key)
    BY DEF LeavesFound
  <2>1. a \in L /\ a \in Node /\ IsLeaf(m[a]) /\ m[a].key = m2[a].key /\ m[a].value = m2[a].value
    BY <1>1, <1>2, <1>5, <1>6
  <2>2. m[a].value \in Value /\ a \in Walk(m, m[a].key, Root)
    BY <2>1, <1>1, PathIsWalk DEF LeavesFound
  <2>3. a \in Walk(m2, m[a].key, Root)
    BY <2>2, CutWalk, NodeFacts
  <2> QED BY <2>1, <2>2, <2>3, PathIsWalk
<1> QED BY <1>1, <1>5, <1>7, <1>8, <1>9 DEF Tree

(* The calls of retireDeletedNodes begin at the top of what is cut off and *)
(* get to all of it.                                                       *)
LEMMA CutCover ==
  ASSUME NEW m, NEW L, NEW lum, NEW d, NEW parent, NEW s, NEW m2,
         CutAt(m, L, lum, d, parent, s, m2)
  PROVE  LET gone == L \ Reachable(m2)
         IN  gone \subseteq Reach(Below(m2, m[parent][s].addr, gone), {m[lum][d].addr})
<1> DEFINE L2 == Reachable(m2)
           x == m[lum][d].addr
           q == m[parent][s].addr
           gone == L \ L2
           B == Below(m2, q, gone)
           R == Reach(B, {x})
           S == L2 \cup (R \cap gone)
<1>1. /\ Tree(m, L) /\ m2 \in Memory /\ L \in SUBSET Node /\ x \in Node
  BY TreeFacts, CutBasics DEF CutAt, OneWord, Tree
<1>2. /\ L2 \subseteq L /\ lum \in L2 /\ Root \in L2 /\ q \in L2 /\ x \in gone
      /\ \A n \in gone, r \in Sides : m[n][r].addr # NULL => m[n][r].addr \in gone \cup {q}
      /\ \A n \in Node, r \in Sides : n # lum \/ r # d => m2[n][r] = m[n][r]
  BY CutBasics, CutParts
<1>3. B \in [Node -> SUBSET Node]
  BY <1>1, Steps
<1>4. x \in R /\ \A n \in R : B[n] \subseteq R
  <2>1. {x} \in SUBSET Node
    BY <1>1
  <2> HIDE DEF B, x
  <2>2. {x} \subseteq R /\ ClosedUnder(B, R)
    BY <2>1, <1>3, ReachLeast
  <2> QED BY <2>2 DEF ClosedUnder
<1>5. \A n \in S, r \in Sides : m[n][r].addr # NULL => m[n][r].addr \in S
  <2> SUFFICES ASSUME NEW n \in S, NEW r \in Sides, m[n][r].addr # NULL
               PROVE  m[n][r].addr \in S
    OBVIOUS
  <2>1. CASE n \in L2
    <3>1. CASE n = lum /\ r = d
      BY <3>1, <1>2, <1>4
    <3>2. CASE n # lum \/ r # d
      <4>1. m2[n][r] = m[n][r]
        BY <3>2, <2>1, <1>1, <1>2
      <4> QED BY <4>1, <2>1, <1>1, ReachableLeast
    <3> QED BY <3>1, <3>2
  <2>2. CASE n \in R /\ n \in gone /\ m[n][r].addr # q
    <3>1. n \in Node /\ n # lum
      BY <2>2, <1>1, <1>2
    <3>2. m[n][r].addr \in Kids(m2)[n]
      BY <3>1, <1>1, <1>2, Steps
    <3>3. B[n] = Kids(m2)[n] \ {q}
      BY <3>1, <2>2 DEF Below
    <3>4. m[n][r].addr \in R
      BY <2>2, <3>2, <3>3, <1>4
    <3> QED BY <3>4, <2>2, <1>2
  <2> QED BY <2>1, <2>2, <1>2
<1>6. S \in SUBSET Node /\ Root \in S
  BY <1>1, <1>2
<1>7. L \subseteq S
  <2> HIDE DEF S
  <2> QED BY <1>1, <1>5, <1>6, TreeFacts
<1> QED BY <1>7

(* The CAS keeps flags on words of leaves and marks beside flags, also in  *)
(* what it has cut off.                                                    *)
LEMMA CutWords ==
  ASSUME NEW m, NEW L, NEW lum, NEW d, NEW parent, NEW s, NEW m2,
         CutAt(m, L, lum, d, parent, s, m2),
         NEW V \in SUBSET Node, L \subseteq V, Words(m, V)
  PROVE  Words(m2, V)
<1> DEFINE q == m[parent][s].addr
<1>1. /\ lum \in L /\ d \in Sides /\ s \in Sides /\ IsFree(m[lum][d]) /\ parent \in L
      /\ OneWord(m, m2, lum, d, Promoted(m[parent][s]))
      /\ m \in Memory /\ q \in Node /\ parent \in V /\ lum \in V
  <2>1. /\ Tree(m, L) /\ lum \in L /\ d \in Sides /\ s \in Sides /\ IsFree(m[lum][d])
        /\ OneWord(m, m2, lum, d, Promoted(m[parent][s]))
    BY DEF CutAt
  <2>2. parent \in L /\ q \in L
    BY CutBasics
  <2>3. m \in Memory /\ L \subseteq Node
    BY <2>1, TreeFacts
  <2> QED BY <2>1, <2>2, <2>3
<1>2. m2[lum][d] = Promoted(m[parent][s])
      /\ \A n \in Node, r \in Sides : n # lum \/ r # d => m2[n][r] = m[n][r]
  BY CutBasics
<1>3. \A n \in Node : (IsLeaf(m2[n]) <=> IsLeaf(m[n])) /\ m2[n].key = m[n].key
  BY <1>1, CutTree DEF OneWord
<1>4. SUFFICES ASSUME NEW n \in V, NEW r \in Sides
               PROVE  /\ m2[n][r].flag => IsLeaf(m2[m2[n][r].addr]) /\ m2[m2[n][r].addr].key \in Key
                      /\ m2[n][r].mark => m2[n][Sibling(r)].flag
  BY DEF Words
<1>5. /\ m[n][r].flag => IsLeaf(m[m[n][r].addr]) /\ m[m[n][r].addr].key \in Key
      /\ m[n][r].mark => m[n][Sibling(r)].flag
  BY DEF Words
<1>6. CASE n = lum /\ r = d
  <2>1. m2[n][r].addr = q /\ ~m2[n][r].mark /\ (m2[n][r].flag <=> m[parent][s].flag)
    BY <1>6, <1>2 DEF Promoted, Word
  <2>2. m[parent][s].flag => IsLeaf(m[q]) /\ m[q].key \in Key
    BY <1>1 DEF Words
  <2> QED BY <2>1, <2>2, <1>1, <1>3
<1>7. CASE n # lum \/ r # d
  <2>1. m2[n][r] = m[n][r]
    BY <1>7, <1>2
  <2>2. m[n][r].flag => m[n][r].addr \in Node
    <3>1. Tree(m, L)
      BY DEF CutAt
    <3> QED BY <3>1, TreeFacts DEF NullWord, Word
  <2>3. m2[n][Sibling(r)] = m[n][Sibling(r)] \/ (n = lum /\ Sibling(r) = d)
    BY <1>2, SideFacts
  <2>4. n = lum /\ Sibling(r) = d => ~m[n][r].mark
    BY <1>1, <1>5 DEF IsFree
  <2> QED BY <2>1, <2>2, <2>3, <2>4, <1>3, <1>5
<1> QED BY <1>6, <1>7

-----------------------------------------------------------------------------
(* What an insert does to the tree. *)
GrowAt(m, L, p, k, v, a, i, m2) ==
  /\ Tree(m, L)
  /\ p \in L /\ ~IsLeaf(m[p]) /\ k \in Key /\ v \in Value
  /\ IsLeaf(m[Ahd(m, k, p)]) /\ m[Ahd(m, k, p)].key # k
  /\ p \in Path(m, k)
  /\ a \in Node \ L /\ i \in Node \ L /\ a # i
  /\ m2 = Grown(m, p, k, v, a, i)

Grew(m, L, p, k, v, a, i, m2) ==
  LET d == SideOf(k, m[p])
      e == Ahd(m, k, p)
  IN  /\ p \in Node /\ d \in Sides /\ e \in L /\ e # NULL /\ e # p /\ e # Root
      /\ m2 \in Memory
      /\ m2[a] = Leaf(k, v)
      /\ \A s \in Sides : m2[a][s] = NullWord
      /\ m2[p].key = m[p].key /\ m2[p].value = m[p].value
      /\ m2[p][d] = Word(i, FALSE, FALSE) /\ m2[p][Sibling(d)] = m[p][Sibling(d)]
      /\ \A n \in Node \ {a, i, p} : m2[n] = m[n]
      /\ \E s \in Sides : /\ m2[i][s] = Word(a, FALSE, FALSE)
                          /\ m2[i][Sibling(s)] = Word(e, FALSE, FALSE)
                          /\ SideOf(k, m2[i]) = s
                          /\ SideOf(m[e].key, m2[i]) = Sibling(s)

(* The words that an insert writes, and the sides of the two leaves below  *)
(* the new node.                                                           *)
LEMMA GrownFacts ==
  ASSUME NEW m, NEW L, NEW p, NEW k, NEW v, NEW a, NEW i, NEW m2, GrowAt(m, L, p, k, v, a, i, m2)
  PROVE  Grew(m, L, p, k, v, a, i, m2)
<1> DEFINE d == SideOf(k, m[p])
           e == Ahd(m, k, p)
<1>1. /\ Tree(m, L) /\ p \in L /\ ~IsLeaf(m[p]) /\ k \in Key /\ v \in Value
      /\ IsLeaf(m[e]) /\ m[e].key # k /\ a \in Node \ L /\ i \in Node \ L /\ a # i
      /\ m2 = Grown(m, p, k, v, a, i) /\ m \in Memory /\ L \in SUBSET Node
  BY TreeFacts DEF GrowAt
<1>2. d \in Sides /\ e = m[p][d].addr
  BY SideFacts DEF Ahd
<1>3. e \in L /\ e # NULL /\ e # p /\ e # Root
  BY <1>1, <1>2, TreeFacts
<1>4. /\ m[e].key \in Int /\ m[e].key \in 1 .. MaxKey + 2 /\ k \in 1 .. MaxKey + 2 /\ k \in Int
      /\ MaxKey \in Nat
  BY <1>1, <1>3, WordOf, BstAssumption, SideFacts DEF Key
<1> DEFINE new == NewInternal(k, a, m[e].key, e)
           old == [m[p] EXCEPT ![d] = Word(i, FALSE, FALSE)]
           Rec == [key : 1 .. MaxKey + 2, value : Value \cup {NoValue}, left : WordType, right : WordType]
<1>5. m2 = [m EXCEPT ![a] = Leaf(k, v), ![i] = new, ![p][d] = Word(i, FALSE, FALSE)]
  BY <1>1 DEF Grown, Ahd
<1>6. a # p /\ i # p
  BY <1>1
<1>7. \A x, y \in Node : Word(x, FALSE, FALSE) \in WordType /\ NullWord \in WordType
  BY DEF WordType, Word, NullWord
<1>8. Leaf(k, v) \in Rec /\ \A s \in Sides : Leaf(k, v)[s] = NullWord
  <2>1. Leaf(k, v) \in Rec
    <3>1. NullWord \in WordType
      BY <1>7, NodeFacts
    <3> QED BY <3>1, <1>1, <1>4 DEF Leaf
  <2>2. Leaf(k, v)["left"] = NullWord /\ Leaf(k, v)["right"] = NullWord
    BY DEF Leaf
  <2> QED BY <2>1, <2>2 DEF Sides
<1>9. new \in Rec
  BY <1>1, <1>3, <1>4, <1>7 DEF NewInternal, Internal
<1>10. \E s \in Sides : /\ new[s] = Word(a, FALSE, FALSE)
                        /\ new[Sibling(s)] = Word(e, FALSE, FALSE)
                        /\ SideOf(k, new) = s
                        /\ SideOf(m[e].key, new) = Sibling(s)
  <2>1. CASE k < m[e].key
    <3>1. new = [key |-> m[e].key, value |-> NoValue,
                 left |-> Word(a, FALSE, FALSE), right |-> Word(e, FALSE, FALSE)]
      BY <2>1 DEF NewInternal, Internal
    <3>2. new["left"] = Word(a, FALSE, FALSE) /\ new["right"] = Word(e, FALSE, FALSE) /\ new.key = m[e].key
      BY <3>1
    <3> HIDE DEF new
    <3>3. SideOf(k, new) = "left" /\ SideOf(m[e].key, new) = "right"
      BY <2>1, <3>2, <1>4 DEF SideOf
    <3> QED BY <3>2, <3>3 DEF Sides, Sibling
  <2>2. CASE ~(k < m[e].key)
    <3>1. new = [key |-> k, value |-> NoValue, left |-> Word(e, FALSE, FALSE), right |-> Word(a, FALSE, FALSE)]
      BY <2>2 DEF NewInternal, Internal
    <3>2. new["right"] = Word(a, FALSE, FALSE) /\ new["left"] = Word(e, FALSE, FALSE) /\ new.key = k
      BY <3>1
    <3> HIDE DEF new
    <3>3. SideOf(k, new) = "right" /\ SideOf(m[e].key, new) = "left"
      BY <2>2, <3>2, <1>1, <1>4 DEF SideOf
    <3> QED BY <3>2, <3>3 DEF Sides, Sibling
  <2> QED BY <2>1, <2>2
<1>11. m \in [Node -> Rec] /\ p \in Node
  BY <1>1 DEF Memory
<1>12. /\ old \in Rec /\ old.key = m[p].key /\ old.value = m[p].value
       /\ old[d] = Word(i, FALSE, FALSE) /\ old[Sibling(d)] = m[p][Sibling(d)]
  <2>1. m[p] \in Rec /\ Word(i, FALSE, FALSE) \in WordType
    BY <1>11, <1>7, <1>1
  <2>2. CASE d = "left"
    BY <2>1, <2>2 DEF Sibling
  <2>3. CASE d = "right"
    BY <2>1, <2>3 DEF Sibling
  <2> QED BY <2>2, <2>3, <1>2 DEF Sides
<1> HIDE DEF new, old, Rec, e, d
<1>13. /\ m2 \in [Node -> Rec]
       /\ m2[a] = Leaf(k, v) /\ m2[i] = new /\ m2[p] = old
       /\ \A n \in Node \ {a, i, p} : m2[n] = m[n]
  <2>1. m2 = [[[m EXCEPT ![a] = Leaf(k, v)] EXCEPT ![i] = new] EXCEPT ![p] = old]
    BY <1>5, <1>6, <1>11, <1>1 DEF old
  <2> QED BY <2>1, <1>1, <1>6, <1>8, <1>9, <1>11, <1>12
<1> QED BY <1>1, <1>2, <1>3, <1>8, <1>10, <1>11, <1>12, <1>13 DEF Memory, e, d, Rec, Grew

(* An insert adds one leaf and one internal node. *)
LEMMA GrowLeaves ==
  ASSUME NEW m, NEW L, NEW p, NEW k, NEW v, NEW a, NEW i, NEW m2, GrowAt(m, L, p, k, v, a, i, m2)
  PROVE  /\ IsLeaf(m2[a]) /\ ~IsLeaf(m2[i])
         /\ \A n \in Node \ {a, i} : IsLeaf(m2[n]) <=> IsLeaf(m[n])
         /\ \A n \in Node \ {a, i} : m2[n].key = m[n].key /\ m2[n].value = m[n].value
         /\ m2[a].key = k /\ m2[a].value = v
         /\ Shape(m2)
<1> DEFINE d == SideOf(k, m[p])
           e == Ahd(m, k, p)
<1>0. Grew(m, L, p, k, v, a, i, m2)
  BY GrownFacts
<1>1. /\ m \in Memory /\ Shape(m) /\ L \in SUBSET Node /\ p \in L /\ ~IsLeaf(m[p])
      /\ a \in Node /\ i \in Node /\ a # i /\ a \notin L /\ i \notin L
  BY TreeFacts DEF GrowAt, Tree
<1>2. /\ p \in Node /\ d \in Sides /\ e \in L /\ e # NULL
      /\ m2[a] = Leaf(k, v) /\ \A s \in Sides : m2[a][s] = NullWord
      /\ m2[p].key = m[p].key /\ m2[p].value = m[p].value
      /\ m2[p][d] = Word(i, FALSE, FALSE) /\ m2[p][Sibling(d)] = m[p][Sibling(d)]
      /\ \A n \in Node \ {a, i, p} : m2[n] = m[n]
  BY <1>0 DEF Grew
<1>3. PICK s \in Sides : /\ m2[i][s] = Word(a, FALSE, FALSE)
                         /\ m2[i][Sibling(s)] = Word(e, FALSE, FALSE)
  BY <1>0 DEF Grew
<1>4. \A n : IsLeaf(m2[n]) <=> m2[n]["left"].addr = NULL
  BY DEF IsLeaf
<1>5. \A n : IsLeaf(m[n]) <=> m[n]["left"].addr = NULL
  BY DEF IsLeaf
<1>6. i # NULL /\ a # NULL
  BY <1>1, NodeFacts
<1>7. IsLeaf(m2[a])
  BY <1>2, <1>4, SideFacts DEF NullWord, Word
<1>8. \A u \in Sides : m2[i][u].addr # NULL
  BY <1>2, <1>3, <1>6, SideFacts DEF Word
<1>9. \A u \in Sides : m2[p][u].addr # NULL
  BY <1>1, <1>2, <1>6, SideFacts DEF Word, Shape
<1>10. ~IsLeaf(m2[i]) /\ ~IsLeaf(m2[p])
  BY <1>4, <1>8, <1>9, SideFacts
<1>11. \A n \in Node \ {a, i} : IsLeaf(m2[n]) <=> IsLeaf(m[n])
  BY <1>1, <1>2, <1>10
<1>12. Shape(m2)
  BY <1>1, <1>2, <1>7, <1>8, <1>9, <1>10 DEF Shape
<1>13. m2[a].key = k /\ m2[a].value = v
  BY <1>2 DEF Leaf
<1> QED BY <1>1, <1>2, <1>7, <1>10, <1>11, <1>12, <1>13

(* The new nodes are all that an insert adds, and it cuts nothing off. *)
LEMMA GrowReach ==
  ASSUME NEW m, NEW L, NEW p, NEW k, NEW v, NEW a, NEW i, NEW m2, GrowAt(m, L, p, k, v, a, i, m2)
  PROVE  Reachable(m2) = L \cup {a, i}
<1> DEFINE d == SideOf(k, m[p])
           e == Ahd(m, k, p)
           L2 == Reachable(m2)
           X == L2 \cap L
           U == L \cup {a, i}
<1>0. Grew(m, L, p, k, v, a, i, m2)
  BY GrownFacts
<1>1. /\ Tree(m, L) /\ m \in Memory /\ L \in SUBSET Node /\ Root \in L /\ p \in L
      /\ a \in Node /\ i \in Node /\ a # i /\ a \notin L /\ i \notin L
  BY TreeFacts DEF GrowAt, Tree
<1>2. /\ p \in Node /\ d \in Sides /\ e \in L /\ e # NULL /\ m2 \in Memory
      /\ \A s \in Sides : m2[a][s] = NullWord
      /\ m2[p][d] = Word(i, FALSE, FALSE) /\ m2[p][Sibling(d)] = m[p][Sibling(d)]
      /\ \A n \in Node \ {a, i, p} : m2[n] = m[n]
  BY <1>0 DEF Grew
<1>3. PICK s \in Sides : /\ m2[i][s] = Word(a, FALSE, FALSE)
                         /\ m2[i][Sibling(s)] = Word(e, FALSE, FALSE)
  BY <1>0 DEF Grew
<1>4. e = m[p][d].addr
  BY DEF Ahd
<1>5. /\ \A n \in L, r \in Sides : m[n][r].addr # NULL => m[n][r].addr \in L
      /\ \A T \in SUBSET Node :
           Root \in T /\ (\A n \in T, r \in Sides : m[n][r].addr # NULL => m[n][r].addr \in T)
             => L \subseteq T
  BY <1>1, TreeFacts
<1>6. \A r \in Sides : /\ m2[i][r].addr \in {a, e}
                       /\ m2[a][r].addr = NULL
                       /\ m2[p][r].addr = i \/ m2[p][r] = m[p][r]
  BY <1>2, <1>3, SideFacts DEF Word, NullWord
<1>7. L2 \subseteq U
  <2>1. \A n \in U, r \in Sides : m2[n][r].addr # NULL => m2[n][r].addr \in U
    BY <1>1, <1>2, <1>5, <1>6
  <2>2. U \in SUBSET Node /\ Root \in U
    BY <1>1
  <2> HIDE DEF U
  <2> QED BY <2>1, <2>2, <1>2, ReachableLeast
<1>8. /\ L2 \in SUBSET Node /\ Root \in L2
      /\ \A n \in L2, r \in Sides : m2[n][r].addr # NULL => m2[n][r].addr \in L2
  BY <1>2, ReachableLeast
<1>9. p \in L2
  <2> SUFFICES ASSUME p \notin L2 PROVE FALSE
    OBVIOUS
  <2>1. \A n \in X, r \in Sides : m[n][r].addr # NULL => m[n][r].addr \in X
    BY <1>1, <1>2, <1>5, <1>8
  <2>2. X \in SUBSET Node /\ Root \in X
    BY <1>1, <1>8
  <2>3. L \subseteq X
    <3> HIDE DEF X
    <3> QED BY <2>1, <2>2, <1>5
  <2> QED BY <2>3, <1>1
<1>10. i \in L2
  BY <1>9, <1>8, <1>2, <1>1, NodeFacts DEF Word
<1>11. a \in L2 /\ e \in L2
  <2>1. m2[i][s].addr = a /\ m2[i][Sibling(s)].addr = e /\ a # NULL
    BY <1>3, <1>1, NodeFacts DEF Word
  <2> QED BY <2>1, <1>10, <1>8, <1>2, SideFacts
<1>12. L \subseteq L2
  <2>1. \A n \in X, r \in Sides : m[n][r].addr # NULL => m[n][r].addr \in X
    <3> SUFFICES ASSUME NEW n \in X, NEW r \in Sides, m[n][r].addr # NULL
                 PROVE  m[n][r].addr \in L2
      BY <1>5
    <3>1. CASE n = p /\ r = d
      BY <3>1, <1>4, <1>11
    <3>2. CASE n = p /\ r # d
      BY <3>2, <1>2, <1>8, SideFacts
    <3>3. CASE n # p
      BY <3>3, <1>1, <1>2, <1>8
    <3> QED BY <3>1, <3>2, <3>3
  <2>2. X \in SUBSET Node /\ Root \in X
    BY <1>1, <1>8
  <2>3. L \subseteq X
    <3> HIDE DEF X
    <3> QED BY <2>1, <2>2, <1>5
  <2> QED BY <2>3
<1> QED BY <1>7, <1>10, <1>11, <1>12

(* A search that does not pass the new nodes gets where it would have got, *)
(* but for a search for another key that has ended at the old leaf.        *)
LEMMA GrowWalk ==
  ASSUME NEW m, NEW L, NEW p, NEW k, NEW v, NEW a, NEW i, NEW m2, GrowAt(m, L, p, k, v, a, i, m2),
         NEW k2, NEW n \in Node, a \notin Walk(m, k2, n), i \notin Walk(m, k2, n),
         NEW b \in Walk(m, k2, n)
  PROVE  /\ b # Ahd(m, k, p) \/ k2 = m[Ahd(m, k, p)].key => b \in Walk(m2, k2, n)
         /\ p \in Walk(m2, k2, n) /\ SideOf(k2, m[p]) = SideOf(k, m[p]) => i \in Walk(m2, k2, n)
         /\ b = Ahd(m, k, p) => \/ b = n
                                \/ b \in Walk(m2, k2, n)
                                \/ i \in Walk(m2, k2, n)
<1> DEFINE d == SideOf(k, m[p])
           e == Ahd(m, k, p)
           S == Walk(m2, k2, n)
           T == (IF p \in S /\ SideOf(k2, m[p]) = d THEN S \cup {e} ELSE S) \cap Walk(m, k2, n)
<1>0. Grew(m, L, p, k, v, a, i, m2)
  BY GrownFacts
<1>1. /\ Tree(m, L) /\ m \in Memory /\ L \in SUBSET Node /\ p \in L /\ IsLeaf(m[e])
      /\ a \in Node /\ i \in Node
  BY TreeFacts DEF GrowAt
<1>2. /\ p \in Node /\ d \in Sides /\ e \in L /\ e # NULL /\ e # p /\ m2 \in Memory
      /\ m2[p].key = m[p].key
      /\ m2[p][d] = Word(i, FALSE, FALSE) /\ m2[p][Sibling(d)] = m[p][Sibling(d)]
      /\ \A y \in Node \ {a, i, p} : m2[y] = m[y]
  BY <1>0 DEF Grew
<1>3. PICK s \in Sides : /\ m2[i][Sibling(s)] = Word(e, FALSE, FALSE)
                         /\ SideOf(m[e].key, m2[i]) = Sibling(s)
  BY <1>0 DEF Grew
<1>4. e = m[p][d].addr /\ i # NULL
  BY <1>1, NodeFacts DEF Ahd
<1>5. /\ S \in SUBSET Node /\ n \in S
      /\ \A y \in S : Ahd(m2, k2, y) # NULL => Ahd(m2, k2, y) \in S
  BY <1>2, WalkLeast
<1>6. /\ Walk(m, k2, n) \in SUBSET Node /\ n \in Walk(m, k2, n)
      /\ \A y \in Walk(m, k2, n) : Ahd(m, k2, y) # NULL => Ahd(m, k2, y) \in Walk(m, k2, n)
  BY <1>1, WalkLeast
<1>7. SideOf(k2, m2[p]) = SideOf(k2, m[p])
  BY <1>2 DEF SideOf
<1>8. /\ \A y \in Node \ {a, i, p} : Ahd(m2, k2, y) = Ahd(m, k2, y)
      /\ SideOf(k2, m[p]) = d => Ahd(m2, k2, p) = i /\ Ahd(m, k2, p) = e
      /\ SideOf(k2, m[p]) # d => Ahd(m2, k2, p) = Ahd(m, k2, p)
  <2>1. \A y \in Node \ {a, i, p} : Ahd(m2, k2, y) = Ahd(m, k2, y)
    BY <1>2 DEF Ahd
  <2>2. SideOf(k2, m[p]) = d => Ahd(m2, k2, p) = i /\ Ahd(m, k2, p) = e
    BY <1>2, <1>4, <1>7 DEF Ahd, Word
  <2>3. SideOf(k2, m[p]) # d => Ahd(m2, k2, p) = Ahd(m, k2, p)
    BY <1>2, <1>7, SideFacts DEF Ahd
  <2> QED BY <2>1, <2>2, <2>3
<1>9. Ahd(m, k2, e) = NULL
  <2>1. \A r \in Sides : m[e][r] = NullWord
    BY <1>1, <1>2, TreeFacts
  <2> QED BY <2>1, SideFacts DEF Ahd, NullWord, Word
<1>10. \A y \in T : Ahd(m, k2, y) # NULL => Ahd(m, k2, y) \in T
  <2> SUFFICES ASSUME NEW y \in T, Ahd(m, k2, y) # NULL PROVE Ahd(m, k2, y) \in T
    OBVIOUS
  <2>1. y \in Walk(m, k2, n) /\ y # e /\ y \in S /\ y \in Node \ {a, i} /\ Ahd(m, k2, y) \in Walk(m, k2, n)
    BY <1>6, <1>9
  <2>2. CASE y = p /\ SideOf(k2, m[p]) = d
    BY <2>1, <2>2, <1>8
  <2>3. CASE y # p \/ SideOf(k2, m[p]) # d
    <3>1. Ahd(m, k2, y) = Ahd(m2, k2, y)
      BY <2>1, <2>3, <1>8
    <3>2. Ahd(m, k2, y) \in S
      BY <3>1, <2>1, <1>5
    <3> QED BY <3>2, <2>1
  <2> QED BY <2>2, <2>3
<1>11. Walk(m, k2, n) \subseteq T
  <2>1. T \in SUBSET Node /\ n \in T
    BY <1>5, <1>6
  <2> HIDE DEF T
  <2> QED BY <2>1, <1>1, <1>10, WalkLeast
<1>12. b \in S \/ (b = e /\ p \in S /\ SideOf(k2, m[p]) = d)
  BY <1>11
<1>13. p \in S /\ SideOf(k2, m[p]) = d => i \in S
  BY <1>5, <1>8, <1>4
<1>14. i \in S /\ k2 = m[e].key => e \in S
  <2>1. k2 = m[e].key => Ahd(m2, k2, i) = e
    BY <1>3 DEF Ahd, Word
  <2> QED BY <2>1, <1>5, <1>2
<1> HIDE DEF S, T, e, d
<1> QED BY <1>12, <1>13, <1>14 DEF S, e, d

(* A search from a node of the tree stays in the tree. *)
LEMMA WalkInTree ==
  ASSUME NEW m, NEW L, Tree(m, L), NEW k, NEW n \in L
  PROVE  Walk(m, k, n) \subseteq L
<1>1. /\ m \in Memory /\ L \in SUBSET Node
      /\ \A y \in L, s \in Sides : m[y][s].addr # NULL => m[y][s].addr \in L
  BY TreeFacts
<1>2. \A y \in L : Ahd(m, k, y) # NULL => Ahd(m, k, y) \in L
  BY <1>1, SideFacts DEF Ahd
<1> QED BY <1>1, <1>2, WalkLeast

(* A new leaf is where a search for its key gets to. *)
LEMMA NewLeafFound ==
  ASSUME NEW m, NEW L, NEW p, NEW k, NEW v, NEW a, NEW i, NEW m2, GrowAt(m, L, p, k, v, a, i, m2)
  PROVE  p \in Path(m2, k) /\ i \in Path(m2, k) /\ a \in Path(m2, k)
<1>0. Grew(m, L, p, k, v, a, i, m2)
  BY GrownFacts
<1>1. Tree(m, L) /\ p \in Walk(m, k, Root) /\ a \in Node /\ i \in Node /\ a \notin L /\ i \notin L
  BY PathIsWalk DEF GrowAt
<1>2. Walk(m, k, Root) \subseteq L /\ Root \in Node
  BY <1>1, WalkInTree, TreeFacts, NodeFacts
<1>3. p # Ahd(m, k, p) /\ m2 \in Memory
  BY <1>0 DEF Grew
<1>4. p \in Walk(m2, k, Root)
  BY <1>1, <1>2, <1>3, GrowWalk
<1>5. i \in Walk(m2, k, Root)
  BY <1>1, <1>2, <1>4, GrowWalk
<1>6. Ahd(m2, k, i) = a
  BY <1>0 DEF Grew, Ahd, Word
<1>7. a \in Walk(m2, k, Root)
  BY <1>1, <1>2, <1>3, <1>5, <1>6, WalkLeast, NodeFacts
<1> QED BY <1>4, <1>5, <1>7, PathIsWalk

(* What an insert makes of a tree is a tree. *)
LEMMA GrowTree ==
  ASSUME NEW m, NEW L, NEW p, NEW k, NEW v, NEW a, NEW i, NEW m2, GrowAt(m, L, p, k, v, a, i, m2)
  PROVE  Tree(m2, L \cup {a, i})
<1> DEFINE d == SideOf(k, m[p])
           e == Ahd(m, k, p)
           L2 == L \cup {a, i}
<1>0. Grew(m, L, p, k, v, a, i, m2)
  BY GrownFacts
<1>1. /\ Tree(m, L) /\ m \in Memory /\ L \in SUBSET Node /\ p \in L /\ ~IsLeaf(m[p]) /\ IsLeaf(m[e])
      /\ a \in Node /\ i \in Node /\ a # i /\ a \notin L /\ i \notin L
      /\ Root \in L /\ 2 \in L /\ 3 \in L
      /\ Sentinels(m, L) /\ LeavesFound(m, L) /\ k \in Key /\ v \in Value
  BY TreeFacts DEF GrowAt, Tree
<1>2. /\ p \in Node /\ d \in Sides /\ e \in L /\ e # NULL /\ e # Root /\ m2 \in Memory
      /\ \A u \in Sides : m2[a][u] = NullWord
      /\ m2[p].key = m[p].key
      /\ m2[p][d] = Word(i, FALSE, FALSE) /\ m2[p][Sibling(d)] = m[p][Sibling(d)]
      /\ \A n \in Node \ {a, i, p} : m2[n] = m[n]
  BY <1>0 DEF Grew
<1>3. PICK s \in Sides : /\ m2[i][s] = Word(a, FALSE, FALSE)
                         /\ m2[i][Sibling(s)] = Word(e, FALSE, FALSE)
  BY <1>0 DEF Grew
<1>4. e = m[p][d].addr
  BY DEF Ahd
<1>5. /\ \A n \in L, r \in Sides : m[n][r].addr # NULL => m[n][r].addr \in L /\ m[n][r].addr # Root
      /\ \A n, q \in L : \A u, r \in Sides :
              m[n][u].addr = m[q][r].addr /\ m[n][u].addr # NULL => n = q /\ u = r
  BY <1>1, TreeFacts
<1>6. /\ \A n \in Node \ {a, i} : IsLeaf(m2[n]) <=> IsLeaf(m[n])
      /\ \A n \in Node \ {a, i} : m2[n].key = m[n].key /\ m2[n].value = m[n].value
      /\ IsLeaf(m2[a]) /\ ~IsLeaf(m2[i]) /\ m2[a].key = k /\ m2[a].value = v /\ Shape(m2)
  BY GrowLeaves
<1>7. L2 = Reachable(m2)
  BY GrowReach
<1>8. Sentinels(m2, L2)
  <2>1. {Root, 2, 3} \subseteq Node \ {a, i}
    BY <1>1
  <2>2. p = Root => d = "left"
    BY <1>1, BstAssumption DEF Sentinels, SideOf, Key
  <2>3. m2[Root]["right"] = m[Root]["right"]
    <3>1. CASE p = Root
      BY <3>1, <2>2, <1>2 DEF Sibling
    <3>2. CASE p # Root
      BY <3>2, <2>1, <1>2
    <3> QED BY <3>1, <3>2
  <2> QED BY <2>1, <2>3, <1>1, <1>6 DEF Sentinels
<1> DEFINE from(n, u) == m2[n][u].addr
<1>9. ASSUME NEW n \in L2, NEW u \in Sides, from(n, u) # NULL
      PROVE  \/ n = p /\ u = d /\ from(n, u) = i
             \/ n = i /\ u = s /\ from(n, u) = a
             \/ n = i /\ u = Sibling(s) /\ from(n, u) = e
             \/ n \in L /\ from(n, u) = m[n][u].addr /\ from(n, u) \in L /\ from(n, u) # e
  <2>1. CASE n = a
    BY <2>1, <1>9, <1>2 DEF NullWord, Word
  <2>2. CASE n = i
    BY <2>2, <1>3, SideFacts DEF Word
  <2>3. CASE n = p /\ u = d
    BY <2>3, <1>2 DEF Word
  <2>4. CASE n \in L /\ (n # p \/ u # d)
    <3>1. m2[n][u] = m[n][u]
      <4>1. CASE n = p
        BY <4>1, <2>4, <1>2, SideFacts
      <4>2. CASE n # p
        BY <4>2, <2>4, <1>1, <1>2
      <4> QED BY <4>1, <4>2
    <3>2. m[n][u].addr # e
      BY <2>4, <1>1, <1>2, <1>4, <1>5
    <3> QED BY <2>4, <3>1, <3>2, <1>5, <1>9
  <2> QED BY <2>1, <2>2, <2>3, <2>4
<1>10. OneParent(m2, L2)
  <2>1. \A n \in L2, u \in Sides : from(n, u) # Root
    BY <1>9, <1>1, <1>2, <1>5, NodeFacts
  <2>2. ASSUME NEW n \in L2, NEW q \in L2, NEW u \in Sides, NEW r \in Sides,
               from(n, u) = from(q, r), from(n, u) # NULL
        PROVE  n = q /\ u = r
    <3> HIDE DEF from, L2, e, d
    <3>1. \/ n = p /\ u = d /\ from(n, u) = i
          \/ n = i /\ u = s /\ from(n, u) = a
          \/ n = i /\ u = Sibling(s) /\ from(n, u) = e
          \/ n \in L /\ from(n, u) = m[n][u].addr /\ from(n, u) \in L /\ from(n, u) # e
      BY <2>2, <1>9
    <3>2. \/ q = p /\ r = d /\ from(q, r) = i
          \/ q = i /\ r = s /\ from(q, r) = a
          \/ q = i /\ r = Sibling(s) /\ from(q, r) = e
          \/ q \in L /\ from(q, r) = m[q][r].addr /\ from(q, r) \in L /\ from(q, r) # e
      BY <2>2, <1>9
    <3> QED BY <3>1, <3>2, <2>2, <1>1, <1>2, <1>5
  <2> QED BY <2>1, <2>2 DEF OneParent
<1>11. LeavesFound(m2, L2)
  <2> SUFFICES ASSUME NEW b \in L2, IsLeaf(m2[b]), m2[b].key \in Key
               PROVE  m2[b].value \in Value /\ b \in Path(m2, m2[b].key)
    BY DEF LeavesFound
  <2>1. CASE b = a
    BY <2>1, <1>1, <1>6, NewLeafFound
  <2>2. CASE b \in L
    <3>1. b \in Node \ {a, i} /\ IsLeaf(m[b]) /\ m[b].key = m2[b].key /\ m[b].value = m2[b].value
      BY <2>2, <1>1, <1>6
    <3>2. m[b].value \in Value /\ b \in Walk(m, m[b].key, Root)
      BY <2>2, <3>1, <1>1, PathIsWalk DEF LeavesFound
    <3>3. Walk(m, m[b].key, Root) \subseteq L /\ Root \in Node
      BY <1>1, WalkInTree
    <3>4. b \in Walk(m2, m[b].key, Root)
      BY <3>2, <3>3, <1>1, GrowWalk
    <3> QED BY <3>1, <3>2, <3>4, PathIsWalk
  <2> QED BY <2>1, <2>2, <1>6
<1> QED BY <1>2, <1>6, <1>7, <1>8, <1>10, <1>11 DEF Tree

(* The words that an insert writes are free: flags and marks stay where    *)
(* they were.                                                              *)
LEMMA GrowWords ==
  ASSUME NEW m, NEW L, NEW p, NEW k, NEW v, NEW a, NEW i, NEW m2, GrowAt(m, L, p, k, v, a, i, m2),
         IsFree(m[p][SideOf(k, m[p])]),
         NEW V \in SUBSET Node, L \subseteq V, a \notin V, i \notin V, Words(m, V),
         \A n \in V, s \in Sides : m[n][s].addr # NULL => m[n][s].addr \in V
  PROVE  Words(m2, V \cup {a, i})
<1> DEFINE d == SideOf(k, m[p])
<1>0. Grew(m, L, p, k, v, a, i, m2)
  BY GrownFacts
<1>1. Tree(m, L) /\ p \in L /\ m \in Memory /\ Shape(m)
  BY DEF GrowAt, Tree
<1>2. /\ d \in Sides
      /\ \A u \in Sides : m2[a][u] = NullWord
      /\ m2[p][d] = Word(i, FALSE, FALSE) /\ m2[p][Sibling(d)] = m[p][Sibling(d)]
      /\ \A n \in Node \ {a, i, p} : m2[n] = m[n]
  BY <1>0 DEF Grew
<1>3. \A u \in Sides : IsFree(m2[i][u]) /\ IsFree(m2[a][u])
  <2>1. PICK s \in Sides : /\ m2[i][s] = Word(a, FALSE, FALSE)
                           /\ m2[i][Sibling(s)] = Word(Ahd(m, k, p), FALSE, FALSE)
    BY <1>0 DEF Grew
  <2> QED BY <2>1, <1>2, SideFacts DEF IsFree, NullWord, Word
<1>4. /\ \A n \in Node \ {a, i} : IsLeaf(m2[n]) <=> IsLeaf(m[n])
      /\ \A n \in Node \ {a, i} : m2[n].key = m[n].key
  BY GrowLeaves
<1>5. SUFFICES ASSUME NEW n \in V \cup {a, i}, NEW r \in Sides
               PROVE  /\ m2[n][r].flag => IsLeaf(m2[m2[n][r].addr]) /\ m2[m2[n][r].addr].key \in Key
                      /\ m2[n][r].mark => m2[n][Sibling(r)].flag
  BY DEF Words
<1>6. CASE n \in {a, i}
  BY <1>6, <1>3 DEF IsFree
<1>7. CASE n \in V
  <2>1. /\ m[n][r].flag => IsLeaf(m[m[n][r].addr]) /\ m[m[n][r].addr].key \in Key
        /\ m[n][r].mark => m[n][Sibling(r)].flag
    BY <1>7 DEF Words
  <2>2. CASE n = p /\ r = d
    BY <2>2, <1>2 DEF Word
  <2>3. CASE n # p \/ r # d
    <3>1. m2[n][r] = m[n][r]
      <4>1. CASE n = p
        BY <4>1, <2>3, <1>2, SideFacts
      <4>2. CASE n # p
        BY <4>2, <1>7, <1>2
      <4> QED BY <4>1, <4>2
    <3>2. m[n][r].mark => m2[n][Sibling(r)] = m[n][Sibling(r)]
      <4>1. CASE n = p
        <5>1. Sibling(r) = d
          BY <4>1, <2>3, <1>2, SideFacts
        <5> QED BY <4>1, <5>1, <2>1 DEF IsFree
      <4>2. CASE n # p
        BY <4>2, <1>7, <1>2
      <4> QED BY <4>1, <4>2
    <3>3. m[n][r].flag => m[n][r].addr \in V
      <4>1. m[n][r].flag => m[n][r].addr # NULL
        BY <1>1, <1>7, TreeFacts DEF NullWord, Word
      <4> QED BY <4>1, <1>7
    <3>4. V \subseteq Node \ {a, i}
      OBVIOUS
    <3> QED BY <3>1, <3>2, <3>3, <3>4, <2>1, <1>4
  <2> QED BY <2>2, <2>3
<1> QED BY <1>5, <1>6, <1>7

-----------------------------------------------------------------------------
(* A step that only sets bits of a word leaves the tree as it is. *)
LEMMA SameAddrs ==
  ASSUME NEW m \in Memory, NEW m2 \in Memory,
         \A n \in Node, s \in Sides : m2[n][s].addr = m[n][s].addr,
         \A n \in Node : m2[n].key = m[n].key
  PROVE  /\ Reachable(m2) = Reachable(m)
         /\ \A k, n : Walk(m2, k, n) = Walk(m, k, n)
         /\ \A k : Path(m2, k) = Path(m, k)
<1>1. Kids(m2) = Kids(m)
  <2>1. \A n \in Node : {m2[n][s].addr : s \in Sides} = {m[n][s].addr : s \in Sides}
    OBVIOUS
  <2> QED BY <2>1 DEF Kids
<1>2. ASSUME NEW k PROVE Turn(m2, k) = Turn(m, k)
  <2>1. \A n \in Node : m2[n][SideOf(k, m2[n])].addr = m[n][SideOf(k, m[n])].addr
    BY SideFacts DEF SideOf
  <2> QED BY <2>1 DEF Turn
<1> QED BY <1>1, <1>2 DEF Reachable, Walk, Path

(* A tree one word of which gets a flag or a mark is a tree with the same  *)
(* searches.                                                               *)
LEMMA BitsTree ==
  ASSUME NEW m, NEW L, NEW p \in Node, NEW d \in Sides, NEW w, NEW m2, Tree(m, L),
         OneWord(m, m2, p, d, w), ~IsLeaf(m[p]), w.addr = m[p][d].addr,
         p # Root \/ d # "right"
  PROVE  /\ Tree(m2, L)
         /\ \A n \in Node : IsLeaf(m2[n]) <=> IsLeaf(m[n])
         /\ \A k, n : Walk(m2, k, n) = Walk(m, k, n)
<1>1. /\ m \in Memory /\ m2 \in Memory /\ Shape(m) /\ p \in Node /\ L \in SUBSET Node
      /\ L = Reachable(m) /\ Sentinels(m, L) /\ OneParent(m, L) /\ LeavesFound(m, L)
      /\ Root \in Node /\ 2 \in Node /\ 3 \in Node
  BY TreeFacts, NodeFacts DEF Tree, OneWord
<1>2. /\ \A n \in Node : m2[n].key = m[n].key /\ m2[n].value = m[n].value
      /\ \A n \in Node, s \in Sides : m2[n][s] = IF n = p /\ s = d THEN w ELSE m[n][s]
  BY DEF OneWord
<1>3. \A n \in Node, s \in Sides : m2[n][s].addr = m[n][s].addr
  BY <1>2
<1>4. w.addr # NULL
  BY <1>1, TreeFacts
<1>5. (\A n \in Node : IsLeaf(m2[n]) <=> IsLeaf(m[n])) /\ Shape(m2)
  BY <1>1, <1>4, SameLeaves
<1>6. /\ Reachable(m2) = L
      /\ \A k, n : Walk(m2, k, n) = Walk(m, k, n)
      /\ \A k : Path(m2, k) = Path(m, k)
  BY <1>1, <1>2, <1>3, SameAddrs
<1>7. Sentinels(m2, L)
  <2>1. m2[Root]["right"] = m[Root]["right"]
    BY <1>1, <1>2, SideFacts
  <2> QED BY <2>1, <1>1, <1>2, <1>5 DEF Sentinels
<1>8. OneParent(m2, L)
  BY <1>1, <1>3 DEF OneParent
<1>9. LeavesFound(m2, L)
  BY <1>1, <1>2, <1>5, <1>6 DEF LeavesFound
<1> QED BY <1>1, <1>5, <1>6, <1>7, <1>8, <1>9 DEF Tree

(* A flag on the word of a leaf, or a mark beside a flag, keeps Words. *)
LEMMA BitsWords ==
  ASSUME NEW m, NEW L, NEW p \in Node, NEW d \in Sides, NEW w, NEW m2, Tree(m, L),
         OneWord(m, m2, p, d, w), ~IsLeaf(m[p]), w.addr = m[p][d].addr,
         p # Root \/ d # "right",
         NEW V \in SUBSET Node, p \in V, Words(m, V),
         w.flag => IsLeaf(m[w.addr]) /\ m[w.addr].key \in Key,
         w.mark => m[p][Sibling(d)].flag,
         m[p][d].flag => w.flag
  PROVE  Words(m2, V)
<1>1. /\ m \in Memory /\ p \in Node
      /\ \A n \in Node, s \in Sides :
              IF IsLeaf(m[n]) THEN m[n][s] = NullWord ELSE m[n][s].addr # NULL /\ m[n][s].addr \in Node
  BY TreeFacts
<1>2. /\ \A n \in Node : m2[n].key = m[n].key
      /\ \A n \in Node, s \in Sides : m2[n][s] = IF n = p /\ s = d THEN w ELSE m[n][s]
  BY DEF OneWord
<1>3. \A n \in Node : IsLeaf(m2[n]) <=> IsLeaf(m[n])
  BY BitsTree
<1>4. SUFFICES ASSUME NEW n \in V, NEW r \in Sides
               PROVE  /\ m2[n][r].flag => IsLeaf(m2[m2[n][r].addr]) /\ m2[m2[n][r].addr].key \in Key
                      /\ m2[n][r].mark => m2[n][Sibling(r)].flag
  BY DEF Words
<1>5. /\ m[n][r].flag => IsLeaf(m[m[n][r].addr]) /\ m[m[n][r].addr].key \in Key
      /\ m[n][r].mark => m[n][Sibling(r)].flag
  BY DEF Words
<1>6. CASE n = p /\ r = d
  BY <1>6, <1>1, <1>2, <1>3, SideFacts
<1>7. CASE n # p \/ r # d
  <2>1. m2[n][r] = m[n][r]
    BY <1>7, <1>2
  <2>2. m[n][Sibling(r)].flag => m2[n][Sibling(r)].flag
    BY <1>2, SideFacts
  <2>3. m[n][r].flag => m[n][r].addr \in Node
    BY <1>1 DEF NullWord, Word
  <2> QED BY <2>1, <2>2, <2>3, <1>3, <1>2, <1>5
<1> QED BY <1>6, <1>7

-----------------------------------------------------------------------------
(* What no step does to a node that somebody may get to. *)
Kept == Node \ Available

Calm ==
  /\ \A n \in Kept : /\ mem'[n].key = mem[n].key /\ mem'[n].value = mem[n].value
                     /\ IsLeaf(mem'[n]) <=> IsLeaf(mem[n])
  /\ \A n \in Kept, s \in Sides :
       ~IsFree(mem[n][s]) => /\ mem'[n][s].addr = mem[n][s].addr
                             /\ mem'[n][s].flag = mem[n][s].flag
                             /\ mem[n][s].mark => mem'[n][s].mark

Local(t) ==
  Pins(t) /\ Held(t) \subseteq Near(t) /\ Calls(t) /\ Seeking(t) /\ Removing(t) /\ Retiring(t)

(* What is in the tree or pinned is not free to be allocated. *)
LEMMA Keeps ==
  ASSUME TypeOK, \A t \in Thread : Pins(t)
  PROVE  /\ linked \subseteq Kept /\ Kept \in SUBSET Node
         /\ \A t \in Thread : Near(t) \subseteq Kept /\ Near(t) \subseteq Node
         /\ \A n \in Kept : n \in linked \/ \E t \in Thread : n \in pinned[t]
<1>1. linked \subseteq Node /\ owed \in [Thread -> SUBSET Node] /\ pinned \in [Thread -> SUBSET Node]
  BY DEF TypeOK
<1>2. \A t \in Thread : owed[t] \subseteq pinned[t]
  BY DEF Pins
<1>3. \A n : n \in Kept <=> n \in Node /\ (n \in linked \/ \E t \in Thread : n \in owed[t] \/ n \in pinned[t])
  <2> DEFINE O == UNION {owed[t] : t \in Thread}
             P == UNION {pinned[t] : t \in Thread}
  <2>1. \A n : n \in O <=> \E t \in Thread : n \in owed[t]
    OBVIOUS
  <2>2. \A n : n \in P <=> \E t \in Thread : n \in pinned[t]
    OBVIOUS
  <2>3. Kept = Node \ (Node \ (linked \cup O \cup P))
    BY DEF Kept, Available
  <2> HIDE DEF O, P
  <2> QED BY <2>1, <2>2, <2>3
<1>4. \A t \in Thread : pinned[t] \in SUBSET Node
  BY <1>1
<1>5. ASSUME NEW t \in Thread PROVE Near(t) \subseteq Kept /\ Near(t) \subseteq Node
  BY <1>1, <1>3, <1>4 DEF Near
<1>6. linked \subseteq Kept /\ Kept \in SUBSET Node
  BY <1>1, <1>3
<1>7. \A n \in Kept : n \in linked \/ \E t \in Thread : n \in pinned[t]
  BY <1>2, <1>3
<1> QED BY <1>5, <1>6, <1>7

(* Near is closed under words of the nodes. *)
LEMMA NearClosed ==
  ASSUME TypeOK, Tree(mem, linked), NEW t \in Thread, Pins(t)
  PROVE  \A n \in Near(t), s \in Sides : mem[n][s].addr # NULL => mem[n][s].addr \in Near(t)
<1>1. /\ \A n \in linked, s \in Sides : mem[n][s].addr # NULL => mem[n][s].addr \in linked
      /\ \A n \in Node, s \in Sides : IF IsLeaf(mem[n]) THEN mem[n][s] = NullWord ELSE TRUE
  BY TreeFacts
<1>2. \A n \in pinned[t], s \in Sides : ~IsLeaf(mem[n]) => mem[n][s].addr \in Near(t)
  BY DEF Pins
<1>3. pinned[t] \subseteq Node
  BY DEF TypeOK
<1> QED BY <1>1, <1>2, <1>3 DEF Near, NullWord, Word

(* The marked words that may be followed stay. *)
LEMMA ChainKept ==
  ASSUME SafeInv, Calm, mem' \in Memory, NEW u \in Thread, NEW a \in Near(u), NEW y \in Chain(mem, a)
  PROVE  y \in Chain(mem, a)' /\ y \in Near(u)
<1>1. TypeOK /\ Tree(mem, linked) /\ Pins(u) /\ mem \in Memory
  BY TreeFacts DEF SafeInv
<1>2. \A n \in Near(u), s \in Sides : mem[n][s].addr # NULL => mem[n][s].addr \in Near(u)
  BY <1>1, NearClosed
<1>3. Near(u) \subseteq Kept /\ Near(u) \in SUBSET Node
  BY <1>1, Keeps DEF SafeInv
<1>4. a \in Node
  BY <1>3
<1>5. /\ Chain(mem, a)' \in SUBSET Node /\ a \in Chain(mem, a)'
      /\ \A n \in Chain(mem, a)', s \in Sides :
           mem'[n][s].mark /\ mem'[n][s].addr # NULL => mem'[n][s].addr \in Chain(mem, a)'
  BY <1>4, ChainLeast
<1> DEFINE S == Chain(mem, a)' \cap Near(u)
<1>6. S \in SUBSET Node /\ a \in S
  BY <1>3, <1>5
<1>7. \A n \in S, s \in Sides : mem[n][s].mark /\ mem[n][s].addr # NULL => mem[n][s].addr \in S
  BY <1>2, <1>3, <1>5 DEF Calm, IsFree
<1> HIDE DEF S
<1>8. Chain(mem, a) \subseteq S
  BY <1>1, <1>4, <1>6, <1>7, ChainLeast
<1> QED BY <1>8 DEF S

(* What a step does to the tree, for those who do not take it. *)
Gentle ==
  /\ Calm
  /\ \A n \in linked' : n \in linked \/ n \notin Kept
  /\ \A n \in linked \ linked', s \in Sides : ~IsLeaf(mem[n]) => ~IsFree(mem[n][s])

(* u does not move; if it is inside its guard, what the step cuts off is   *)
(* pinned for it.                                                          *)
Stands(u) ==
  /\ pc'[u] = pc[u] /\ call'[u] = call[u] /\ loc'[u] = loc[u] /\ owed'[u] = owed[u]
  /\ pc[u] = "idle" => pinned'[u] = {}
  /\ pc[u] # "idle" => pinned'[u] = pinned[u] \cup (linked \ linked')

(* What a thread may reach it may still reach, as long as its guard is not *)
(* closed.                                                                 *)
LEMMA StillPinned ==
  ASSUME SafeInv, Gentle, mem' \in Memory, NEW u \in Thread, pc'[u] # "idle",
         pinned'[u] = pinned[u] \cup (linked \ linked'), owed'[u] \subseteq pinned'[u]
  PROVE  Pins(u)' /\ Near(u) \subseteq Near(u)'
<1>1. TypeOK /\ Tree(mem, linked) /\ Pins(u) /\ mem \in Memory
  BY TreeFacts DEF SafeInv
<1>2. Near(u) \subseteq Kept /\ linked \subseteq Kept
  BY <1>1, Keeps DEF SafeInv
<1>3. /\ \A n \in Near(u), s \in Sides : mem[n][s].addr # NULL => mem[n][s].addr \in Near(u)
      /\ \A n \in linked, s \in Sides : mem[n][s].addr # NULL => mem[n][s].addr \in linked
      /\ \A n \in linked, s \in Sides : ~IsLeaf(mem[n]) => mem[n][s].addr # NULL
  BY <1>1, NearClosed, TreeFacts
<1> DEFINE gone == linked \ linked'
<1>4. pinned'[u] \cap linked' = {}
  BY <1>1, <1>2 DEF Pins, Gentle, Near
<1>5. Near(u) \subseteq Near(u)'
  BY DEF Near
<1>6. ASSUME NEW n \in pinned'[u], NEW s \in Sides, ~IsLeaf(mem'[n])
      PROVE  mem'[n][s].addr \in Near(u)' /\ ~IsFree(mem'[n][s])
  <2>1. n \in Near(u) /\ n \in Kept
    BY <1>2 DEF Near
  <2>2. ~IsLeaf(mem[n])
    BY <1>6, <2>1 DEF Gentle, Calm
  <2>3. ~IsFree(mem[n][s])
    BY <2>2, <1>1 DEF Pins, Gentle
  <2>4. mem[n][s].addr \in Near(u)
    BY <2>1, <2>2, <1>1, <1>3 DEF Pins, Near
  <2>5. /\ mem'[n][s].addr = mem[n][s].addr /\ mem'[n][s].flag = mem[n][s].flag
        /\ mem[n][s].mark => mem'[n][s].mark
    BY <2>1, <2>3 DEF Gentle, Calm
  <2> QED BY <2>3, <2>4, <2>5, <1>5 DEF IsFree
<1> QED BY <1>4, <1>5, <1>6 DEF Pins

(* The seek record of a thread that does not change it stays true, and the *)
(* words of the parent that are not free stay as they are.                 *)
LEMMA StillSeeking ==
  ASSUME SafeInv, Gentle, mem' \in Memory, NEW u \in Thread,
         pc[u] \in {"seek", "mark", "read", "swing"}, call'[u] = call[u],
         loc'[u].parent = loc[u].parent, loc'[u].pL = loc[u].pL,
         loc'[u].lum = loc[u].lum, loc'[u].lumC = loc[u].lumC
  PROVE  /\ Seeking(u)'
         /\ Side(u, loc[u].parent) \in Sides
         /\ Side(u, loc[u].parent)' = Side(u, loc[u].parent)
         /\ loc[u].parent \in Near(u) /\ loc[u].parent \in Node
         /\ ~IsFree(Memo(u)) => /\ Memo(u)'.addr = Memo(u).addr /\ Memo(u)'.flag = Memo(u).flag
                                /\ Memo(u).mark => Memo(u)'.mark
         /\ ~IsFree(Other(u)) => /\ Other(u)'.addr = Other(u).addr /\ Other(u)'.flag = Other(u).flag
                                 /\ Other(u).mark => Other(u)'.mark
<1> DEFINE l == loc[u]
           p == l.parent
           s == Side(u, p)
<1>1. TypeOK /\ Tree(mem, linked) /\ Pins(u) /\ mem \in Memory /\ Seeking(u)
      /\ Held(u) \subseteq Near(u) /\ Calm
  BY TreeFacts DEF SafeInv, Gentle
<1>2. Near(u) \subseteq Kept /\ Kept \in SUBSET Node
  BY <1>1, Keeps DEF SafeInv
<1>3. /\ call'[u] = call[u] /\ loc'[u].parent = p /\ loc'[u].pL = l.pL
      /\ loc'[u].lum = l.lum /\ loc'[u].lumC = l.lumC
  OBVIOUS
<1>4. p # NULL /\ ~IsLeaf(mem[p]) /\ l.pL.addr # NULL
  BY <1>1 DEF Seeking
<1>5. p \in Near(u) /\ p \in Kept
  BY <1>1, <1>2, <1>4 DEF Held
<1>6. /\ mem'[p].key = mem[p].key /\ ~IsLeaf(mem'[p])
      /\ \A r \in Sides : ~IsFree(mem[p][r]) => /\ mem'[p][r].addr = mem[p][r].addr
                                                /\ mem'[p][r].flag = mem[p][r].flag
                                                /\ mem[p][r].mark => mem'[p][r].mark
  BY <1>1, <1>4, <1>5 DEF Calm
<1>7. s \in Sides /\ Sibling(s) \in Sides /\ Side(u, p)' = s
  BY <1>3, <1>6, SideFacts DEF Side, SideOf
<1>8. Memo(u) = mem[p][s] /\ Other(u) = mem[p][Sibling(s)]
  BY DEF Memo, Other
<1>9. Memo(u)' = mem'[p][s] /\ Other(u)' = mem'[p][Sibling(s)]
  BY <1>3, <1>7 DEF Memo, Other
<1>10. l.lum # NULL => ~IsLeaf(mem'[l.lum]) /\ p \in Chain(mem, l.lumC.addr)'
  <2>1. SUFFICES ASSUME l.lum # NULL
                 PROVE  ~IsLeaf(mem'[l.lum]) /\ p \in Chain(mem, l.lumC.addr)'
    OBVIOUS
  <2>2. ~IsLeaf(mem[l.lum]) /\ l.lumC.addr # NULL /\ p \in Chain(mem, l.lumC.addr)
    BY <2>1, <1>1 DEF Seeking
  <2>3. l.lum \in Kept /\ l.lumC.addr \in Near(u)
    BY <2>1, <2>2, <1>1, <1>2 DEF Held
  <2>4. ~IsLeaf(mem'[l.lum])
    BY <2>2, <2>3, <1>1 DEF Calm
  <2>5. \A y \in Chain(mem, l.lumC.addr) : y \in Chain(mem, l.lumC.addr)'
    <3> DEFINE a == l.lumC.addr
    <3>1. a \in Near(u)
      BY <2>3
    <3> HIDE DEF a
    <3>2. \A y \in Chain(mem, a) : y \in Chain(mem', a)
      BY <3>1, <1>1, ChainKept DEF Chain
    <3> QED BY <3>2, <1>3 DEF a, Chain
  <2> QED BY <2>2, <2>4, <2>5
<1>11. /\ ~IsFree(l.pL) => /\ Memo(u).addr = l.pL.addr /\ Memo(u).flag = l.pL.flag
                           /\ l.pL.mark => Memo(u).mark
       /\ l.lum = NULL => p = Root
       /\ l.lum # NULL => l.lumC.addr # NULL /\ IsFree(l.lumC)
  BY <1>1 DEF Seeking
<1>12. ~IsFree(l.pL) => /\ Memo(u)'.addr = l.pL.addr /\ Memo(u)'.flag = l.pL.flag
                        /\ l.pL.mark => Memo(u)'.mark
  BY <1>6, <1>7, <1>8, <1>9, <1>11 DEF IsFree
<1>13. Chain(mem, l.lumC.addr)' = Chain(mem', loc'[u].lumC.addr)
  BY <1>3
<1>14. Seeking(u)'
  BY <1>3, <1>4, <1>6, <1>10, <1>11, <1>12 DEF Seeking
<1> QED BY <1>2, <1>5, <1>6, <1>7, <1>8, <1>9, <1>14

(* Stands keeps Pins: what is cut off now is pinned, and what was is as it *)
(* was.                                                                    *)
LEMMA StandsPins ==
  ASSUME SafeInv, Gentle, mem' \in Memory, NEW u \in Thread, Stands(u)
  PROVE  Pins(u)' /\ (pc[u] # "idle" => Near(u) \subseteq Near(u)')
<1>1. Pins(u)
  BY DEF SafeInv
<1>2. CASE pc[u] = "idle"
  BY <1>2, <1>1 DEF Pins, Stands
<1>3. CASE pc[u] # "idle"
  <2>1. /\ pc'[u] # "idle" /\ owed'[u] = owed[u]
        /\ pinned'[u] = pinned[u] \cup (linked \ linked')
    BY <1>3 DEF Stands
  <2>2. owed[u] \subseteq pinned[u]
    BY <1>1 DEF Pins
  <2> QED BY <2>1, <2>2, StillPinned
<1> QED BY <1>2, <1>3

(* Stands keeps the seek record and what is known of the parent's words. *)
LEMMA StandsSeeking ==
  ASSUME SafeInv, Gentle, mem' \in Memory, NEW u \in Thread, Stands(u)
  PROVE  Seeking(u)' /\ Removing(u)'
<1>1. pc'[u] = pc[u] /\ loc'[u] = loc[u] /\ call'[u] = call[u]
  BY DEF Stands
<1>2. Removing(u)
  BY DEF SafeInv
<1>3. CASE pc[u] \notin {"seek", "mark", "read", "swing"}
  BY <1>1, <1>2, <1>3 DEF Seeking, Removing
<1>4. CASE pc[u] \in {"seek", "mark", "read", "swing"}
  <2>1. /\ Seeking(u)'
        /\ ~IsFree(Memo(u)) => /\ Memo(u)'.addr = Memo(u).addr /\ Memo(u)'.flag = Memo(u).flag
                               /\ Memo(u).mark => Memo(u)'.mark
        /\ ~IsFree(Other(u)) => /\ Other(u)'.addr = Other(u).addr /\ Other(u)'.flag = Other(u).flag
                                /\ Other(u).mark => Other(u)'.mark
    BY <1>1, <1>4, StillSeeking
  <2> QED BY <1>1, <1>2, <1>4, <2>1 DEF Removing, IsFree
<1> QED BY <1>3, <1>4

(* A debt stays one if the nodes that are owed keep addresses and flags. *)
LEMMA DebtSame ==
  ASSUME NEW m \in Memory, NEW m2 \in Memory, NEW O \in SUBSET Node, NEW q, NEW todo, Debt(m, O, q, todo),
         \A n \in O : IsLeaf(m2[n]) <=> IsLeaf(m[n]),
         \A n \in O, s \in Sides : m2[n][s].addr = m[n][s].addr /\ m2[n][s].flag = m[n][s].flag
  PROVE  Debt(m2, O, q, todo)
<1>1. \A n \in O : Kids(m2)[n] = Kids(m)[n]
  <2>1. \A n \in O : {m2[n][s].addr : s \in Sides} = {m[n][s].addr : s \in Sides}
    OBVIOUS
  <2> QED BY <2>1 DEF Kids
<1>2. Below(m2, q, O) = Below(m, q, O)
  BY <1>1 DEF Below
<1>3. /\ q # NULL /\ q \notin O
      /\ O \subseteq Reach(Below(m2, q, O), {todo[i].node : i \in DOMAIN todo})
  BY <1>2 DEF Debt
<1>4. ASSUME NEW i \in DOMAIN todo, todo[i].node # q
      PROVE  /\ todo[i].node \in O
             /\ IsLeaf(m2[todo[i].node]) => todo[i].flagged
             /\ \A j \in DOMAIN todo : j # i => todo[j].node # todo[i].node
             /\ \A n \in O : todo[i].node \notin Kids(m2)[n]
  BY <1>1, <1>4 DEF Debt
<1>5. ASSUME NEW n \in O, ~IsLeaf(m2[n])
      PROVE  /\ \E s \in Sides : m2[n][s].flag
             /\ \A s \in Sides : m2[n][s].addr # q =>
                  /\ m2[n][s].addr \in O
                  /\ IsLeaf(m2[m2[n][s].addr]) => m2[n][s].flag
                  /\ \A p \in O, r \in Sides : m2[p][r].addr = m2[n][s].addr => p = n /\ r = s
  <2>1. /\ \E s \in Sides : m[n][s].flag
        /\ \A s \in Sides : m[n][s].addr # q =>
             /\ m[n][s].addr \in O
             /\ IsLeaf(m[m[n][s].addr]) => m[n][s].flag
             /\ \A p \in O, r \in Sides : m[p][r].addr = m[n][s].addr => p = n /\ r = s
    BY <1>5 DEF Debt
  <2> QED BY <2>1
<1> QED BY <1>3, <1>4, <1>5 DEF Debt

(* Stands keeps the debt of a thread: nobody else writes to what it has    *)
(* cut off.                                                                *)
LEMMA StandsRetiring ==
  ASSUME SafeInv, Gentle, mem' \in Memory, Shape(mem'), NEW u \in Thread, Stands(u)
  PROVE  Retiring(u)'
<1> DEFINE O == owed[u]
<1>1. TypeOK /\ Tree(mem, linked) /\ Pins(u) /\ mem \in Memory /\ Shape(mem) /\ Retiring(u)
  BY DEF SafeInv, Tree
<1>2. O \subseteq Kept /\ Kept \in SUBSET Node /\ O \in SUBSET Node
  BY <1>1, Keeps DEF SafeInv, Pins, Near
<1>3. pc'[u] = pc[u] /\ loc'[u] = loc[u] /\ owed'[u] = O
  BY DEF Stands
<1>4. \A n \in O : IsLeaf(mem'[n]) <=> IsLeaf(mem[n])
  BY <1>2 DEF Gentle, Calm
<1>5. ASSUME NEW n \in O, NEW s \in Sides
      PROVE  mem'[n][s].addr = mem[n][s].addr /\ mem'[n][s].flag = mem[n][s].flag
  <2>1. CASE IsLeaf(mem[n])
    <3>1. n \in Node /\ IsLeaf(mem'[n])
      BY <2>1, <1>2, <1>4
    <3>2. mem[n][s] = NullWord /\ mem'[n][s] = NullWord
      BY <2>1, <3>1, <1>1 DEF Shape
    <3> QED BY <3>2
  <2>2. CASE ~IsLeaf(mem[n])
    <3>1. ~IsFree(mem[n][s])
      BY <2>2, <1>1 DEF Pins
    <3> QED BY <3>1, <1>2 DEF Gentle, Calm
  <2> QED BY <2>1, <2>2
<1>6. pc[u] = "retire" => Debt(mem', O, loc[u].pS.addr, loc[u].todo)
  BY <1>1, <1>2, <1>4, <1>5, DebtSame DEF Retiring
<1> QED BY <1>1, <1>3, <1>6 DEF Retiring

(* A thread that does not move keeps its part of the invariant. *)
LEMMA Others ==
  ASSUME SafeInv, Gentle, mem' \in Memory, Shape(mem'), NEW u \in Thread, Stands(u)
  PROVE  Local(u)'
<1>1. /\ Pins(u)' /\ Seeking(u)' /\ Removing(u)' /\ Retiring(u)'
      /\ pc[u] # "idle" => Near(u) \subseteq Near(u)'
  BY StandsPins, StandsSeeking, StandsRetiring
<1>2. Calls(u) /\ Held(u) \subseteq Near(u)
  BY DEF SafeInv
<1>3. pc'[u] = pc[u] /\ loc'[u] = loc[u] /\ call'[u] = call[u]
  BY DEF Stands
<1>4. Calls(u)' /\ Held(u)' = Held(u)
  BY <1>2, <1>3 DEF Calls, Held, Injected
<1>5. Held(u)' \subseteq Near(u)'
  <2>1. CASE pc[u] = "idle"
    <3>1. loc[u] = NoLocals
      BY <2>1, <1>2 DEF Calls
    <3>2. Held(u) = {}
      BY <3>1 DEF Held, NoLocals, NullWord, Word
    <3> QED BY <3>2, <1>4
  <2>2. CASE pc[u] # "idle"
    BY <2>2, <1>1, <1>2, <1>4
  <2> QED BY <2>1, <2>2
<1> QED BY <1>1, <1>4, <1>5 DEF Local

-----------------------------------------------------------------------------
(* One step of t. *)
LEMMA SafeStep ==
  ASSUME SafeInv, Gentle, TypeOK', Tree(mem, linked)', Words(mem, Kept)', NEW t \in Thread, Local(t)',
         \A u \in Thread \ {t} : Stands(u)
  PROVE  SafeInv'
<1>1. mem' \in Memory /\ Shape(mem')
  BY DEF Tree
<1>2. \A u \in Thread : Local(u)'
  BY <1>1, Others
<1> QED BY <1>2 DEF SafeInv, Local, Kept

(* What a step may do to the nodes: nothing, set bits of a word, insert a  *)
(* leaf, or cut nodes off.                                                 *)
SetsBits ==
  /\ linked' = linked
  /\ \E p \in Kept, d \in Sides, w \in WordType :
       OneWord(mem, mem', p, d, w) /\ w.addr = mem[p][d].addr /\ ~IsLeaf(mem[p])

Grows(t) ==
  /\ linked' = Reachable(mem')
  /\ \E a, i \in Node \ Kept :
       GrowAt(mem, linked, loc[t].parent, call[t].key, call[t].value, a, i, mem')

Cuts(t) ==
  /\ linked' = Reachable(mem')
  /\ \E s \in Sides :
       CutAt(mem, linked, loc[t].lum, Side(t, loc[t].lum), loc[t].parent, s, mem')

Moves(t) ==
  /\ Gentle
  /\ \A u \in Thread \ {t} : Stands(u)
  /\ (mem' = mem /\ linked' = linked) \/ SetsBits \/ Grows(t) \/ Cuts(t)

(* A step that writes to no node. *)
ReadOnly(t) ==
  /\ mem' = mem /\ linked' = linked
  /\ owed'[t] \subseteq owed[t] /\ pinned'[t] \subseteq pinned[t]
  /\ \A u \in Thread \ {t} : /\ pc'[u] = pc[u] /\ call'[u] = call[u] /\ loc'[u] = loc[u]
                             /\ owed'[u] = owed[u] /\ pinned'[u] = pinned[u]

(* A step that writes to no node is gentle and cuts nothing off. *)
LEMMA ReadOnlyGentle ==
  ASSUME SafeInv, NEW t \in Thread, ReadOnly(t)
  PROVE  Gentle /\ linked \ linked' = {}
<1>1. mem' = mem /\ linked' = linked
  BY DEF ReadOnly
<1> QED BY <1>1 DEF Gentle, Calm, Kept, IsLeaf, IsFree

(* A step that writes to no node keeps the invariant if t's part holds     *)
(* after it.                                                               *)
LEMMA ReadOnlyStep ==
  ASSUME SafeInv, TypeOK', NEW t \in Thread, ReadOnly(t), Local(t)'
  PROVE  SafeInv' /\ Moves(t)
<1>1. Gentle /\ linked \ linked' = {} /\ mem' = mem /\ linked' = linked
  BY ReadOnlyGentle DEF ReadOnly
<1>2. Tree(mem, linked)' /\ Words(mem, Kept)
  BY <1>1 DEF SafeInv, Tree, Kept
<1>3. \A u \in Thread : owed'[u] \subseteq owed[u] /\ pinned'[u] \subseteq pinned[u]
  BY DEF ReadOnly
<1>4. Kept' \subseteq Kept
  <2> DEFINE O == UNION {owed[u] : u \in Thread}
             P == UNION {pinned[u] : u \in Thread}
             O2 == UNION {owed'[u] : u \in Thread}
             P2 == UNION {pinned'[u] : u \in Thread}
  <2>1. O2 \subseteq O /\ P2 \subseteq P
    BY <1>3
  <2>2. Kept = Node \ (Node \ (linked \cup O \cup P))
    BY DEF Kept, Available
  <2>3. Kept' = Node \ (Node \ (linked' \cup O2 \cup P2))
    BY DEF Kept, Available
  <2> HIDE DEF O, P, O2, P2
  <2> QED BY <2>1, <2>2, <2>3, <1>1
<1>5. Words(mem, Kept)'
  <2>1. \A n \in Kept', s \in Sides :
          /\ mem[n][s].flag => IsLeaf(mem[mem[n][s].addr]) /\ mem[mem[n][s].addr].key \in Key
          /\ mem[n][s].mark => mem[n][Sibling(s)].flag
    BY <1>2, <1>4 DEF Words
  <2> QED BY <2>1, <1>1 DEF Words
<1>6. \A u \in Thread \ {t} : Stands(u)
  BY <1>1 DEF ReadOnly, Stands, SafeInv, Pins
<1>7. SafeInv'
  BY <1>1, <1>2, <1>5, <1>6, SafeStep
<1> QED BY <1>1, <1>6, <1>7 DEF Moves

(* The part of the invariant of a thread that leaves its guard. *)
LEMMA LocalOut ==
  ASSUME NEW t \in Thread, loc'[t] = NoLocals, pinned'[t] = {}, owed'[t] = {},
         \/ pc'[t] = "idle" /\ call'[t] = NoCall
         \/ pc'[t] = "root" /\ call'[t] # NoCall
  PROVE  Local(t)'
<1>1. Held(t)' = {}
  BY DEF Held, NoLocals, NullWord, Word
<1>2. Pins(t)'
  BY DEF Pins
<1>3. Calls(t)'
  BY DEF Calls, Injected, NoLocals
<1> QED BY <1>1, <1>2, <1>3 DEF Local, Seeking, Removing, Retiring

(* What is known of a thread that has not moved yet. *)
LEMMA Mine ==
  ASSUME SafeInv, NEW t \in Thread
  PROVE  /\ TypeOK /\ Tree(mem, linked) /\ mem \in Memory /\ Words(mem, Kept) /\ Words(mem, linked)
         /\ Pins(t) /\ Calls(t) /\ Seeking(t) /\ Removing(t) /\ Retiring(t)
         /\ Held(t) \subseteq Near(t) /\ Near(t) \subseteq Kept /\ linked \subseteq Kept
         /\ linked \subseteq Near(t) /\ Kept \in SUBSET Node
         /\ \A n \in Near(t), s \in Sides : mem[n][s].addr # NULL => mem[n][s].addr \in Near(t)
<1>1. /\ TypeOK /\ Tree(mem, linked) /\ mem \in Memory /\ Words(mem, Kept)
      /\ Pins(t) /\ Calls(t) /\ Seeking(t) /\ Removing(t) /\ Retiring(t) /\ Held(t) \subseteq Near(t)
  BY DEF SafeInv, Tree, Kept
<1>2. Near(t) \subseteq Kept /\ linked \subseteq Kept /\ Kept \in SUBSET Node
  BY <1>1, Keeps DEF SafeInv
<1>3. \A n \in Near(t), s \in Sides : mem[n][s].addr # NULL => mem[n][s].addr \in Near(t)
  BY <1>1, NearClosed
<1>4. linked \subseteq Near(t)
  BY DEF Near
<1>5. Words(mem, linked)
  BY <1>1, <1>2 DEF Words
<1> QED BY <1>1, <1>2, <1>3, <1>4, <1>5

-----------------------------------------------------------------------------
(* The actions that write to no node, one by one. *)
Pcs == {"idle", "root", "find", "seek", "mark", "read", "swing", "retire", "return"}

(* The types that the steps of a thread need. *)
LEMMA Types ==
  ASSUME TypeOK
  PROVE  /\ NoLocals \in Locals /\ NullWord \in WordType
         /\ \A t \in Thread : loc[t] \in Locals
         /\ mem \in Memory
<1>1. NullWord \in WordType
  BY DEF NullWord, Word, WordType
<1>2. <<>> \in Seq([node : Node, flagged : BOOLEAN])
  OBVIOUS
<1>3. NoLocals \in Locals
  BY <1>1, <1>2 DEF NoLocals, Locals
<1> QED BY <1>1, <1>3 DEF TypeOK, Memory

(* A step that only moves t on and changes its local variables keeps the   *)
(* types.                                                                  *)
LEMMA TypeLocal ==
  ASSUME TypeOK, NEW t \in Thread, NEW v \in Locals, NEW p \in Pcs,
         loc' = [loc EXCEPT ![t] = v], pc' = [pc EXCEPT ![t] = p],
         UNCHANGED <<mem, linked, dict, owed, call, pinned, seen, answer, script>>
  PROVE  TypeOK' /\ loc'[t] = v /\ pc'[t] = p /\ ReadOnly(t)
<1>1. loc' \in [Thread -> Locals] /\ loc'[t] = v /\ \A u \in Thread \ {t} : loc'[u] = loc[u]
  BY DEF TypeOK
<1>2. pc' \in [Thread -> Pcs] /\ pc'[t] = p /\ \A u \in Thread \ {t} : pc'[u] = pc[u]
  BY DEF TypeOK, Pcs
<1>3. TypeOK'
  BY <1>1, <1>2 DEF TypeOK, Pcs, WordType, Call, NoCall, Locals
<1> QED BY <1>1, <1>2, <1>3 DEF ReadOnly

(* The guard opens: nothing is pinned yet. *)
LEMMA InvokeSafe ==
  ASSUME SafeInv, NEW t \in Thread, NEW c \in Call, Invoke(t, c)
  PROVE  SafeInv' /\ Moves(t)
<1>1. TypeOK /\ Pins(t) /\ Calls(t) /\ Retiring(t)
  BY Mine
<1>2. /\ pc[t] = "idle" /\ pc' = [pc EXCEPT ![t] = "root"]
      /\ call' = [call EXCEPT ![t] = c] /\ loc' = loc /\ mem' = mem /\ linked' = linked
      /\ owed' = owed /\ pinned' = pinned /\ dict' = dict /\ answer' = answer
      /\ seen' = [seen EXCEPT ![t] = {dict[c.key]}]
      /\ script[t] # <<>> /\ script' = [script EXCEPT ![t] = Tail(@)]
  BY DEF Invoke, GoTo, shared
<1>3. c.key \in Key /\ c # NoCall
  BY DEF Call, NoCall
<1>4. seen' \in [Thread -> SUBSET (Value \cup {NoValue})]
  <2>1. {dict[c.key]} \in SUBSET (Value \cup {NoValue})
    BY <1>1, <1>3 DEF TypeOK
  <2> QED BY <2>1, <1>1, <1>2 DEF TypeOK
<1>5. script' \in [Thread -> Seq(SUBSET Call)]
  <2>1. script[t] \in Seq(SUBSET Call) /\ script[t] # <<>>
    BY <1>1, <1>2 DEF TypeOK
  <2>2. Tail(script[t]) \in Seq(SUBSET Call)
    BY <2>1
  <2> QED BY <2>2, <1>1, <1>2 DEF TypeOK
<1>6. TypeOK'
  BY <1>1, <1>2, <1>4, <1>5 DEF TypeOK, Call, NoCall
<1>7. /\ pc'[t] = "root" /\ call'[t] = c /\ owed'[t] = owed[t] /\ pinned'[t] = pinned[t]
      /\ ReadOnly(t)
  BY <1>1, <1>2 DEF TypeOK, ReadOnly
<1>8. loc'[t] = NoLocals /\ pinned'[t] = {} /\ owed'[t] = {}
  BY <1>1, <1>2, <1>7 DEF Calls, Pins, Retiring
<1>9. Local(t)'
  BY <1>3, <1>7, <1>8, LocalOut
<1> QED BY <1>6, <1>7, <1>9, ReadOnlyStep

(* The guard closes and t drops what it holds. *)
LEMMA ReturnSafe ==
  ASSUME SafeInv, NEW t \in Thread, Return(t)
  PROVE  SafeInv' /\ Moves(t)
<1>1. TypeOK /\ Retiring(t) /\ loc[t] \in Locals /\ NoLocals \in Locals
  BY Mine, Types
<1>2. /\ pc[t] = "return" /\ pc' = [pc EXCEPT ![t] = "idle"]
      /\ call' = [call EXCEPT ![t] = NoCall] /\ loc' = [loc EXCEPT ![t] = NoLocals]
      /\ mem' = mem /\ linked' = linked /\ owed' = owed /\ pinned' = [pinned EXCEPT ![t] = {}]
      /\ dict' = dict /\ seen' = [seen EXCEPT ![t] = {}] /\ script' = script
      /\ answer' = [answer EXCEPT ![t] = loc[t].retval]
  BY DEF Return, GoTo, shared
<1>3. loc[t].retval \in Value \cup {NoValue}
  BY <1>1 DEF Locals
<1>4. loc' \in [Thread -> Locals]
  BY <1>1, <1>2 DEF TypeOK
<1>5. TypeOK'
  BY <1>1, <1>2, <1>3, <1>4 DEF TypeOK, WordType, Call, NoCall
<1>6. /\ pc'[t] = "idle" /\ call'[t] = NoCall /\ loc'[t] = NoLocals
      /\ owed'[t] = owed[t] /\ pinned'[t] = {} /\ ReadOnly(t)
  BY <1>1, <1>2 DEF TypeOK, ReadOnly
<1>7. owed'[t] = {}
  BY <1>1, <1>2, <1>6 DEF Retiring
<1>8. Local(t)'
  BY <1>6, <1>7, LocalOut
<1> QED BY <1>5, <1>6, <1>8, ReadOnlyStep

(* A thread stays inside its guard and owes nothing. *)
LEMMA LocalIn ==
  ASSUME SafeInv, NEW t \in Thread, NEW v \in Locals, NEW p \in Pcs,
         pc[t] # "idle", pc[t] # "retire", p # "idle", p # "retire",
         loc' = [loc EXCEPT ![t] = v], pc' = [pc EXCEPT ![t] = p],
         UNCHANGED <<mem, linked, dict, owed, call, pinned, seen, answer, script>>,
         Held(t)' \subseteq Near(t),
         v.leaf = loc[t].leaf,
         p = "find" => call[t].op = "find",
         p \in {"seek", "mark", "read", "swing"} => call[t].op # "find",
         p # "mark", Seeking(t)', Removing(t)'
  PROVE  SafeInv' /\ Moves(t)
<1>1. TypeOK /\ Pins(t) /\ Calls(t) /\ Retiring(t)
  BY Mine
<1>2. TypeOK' /\ loc'[t] = v /\ pc'[t] = p /\ ReadOnly(t)
  BY <1>1, TypeLocal
<1>3. Pins(t)' /\ Near(t)' = Near(t)
  BY <1>1, <1>2 DEF Pins, Near
<1>4. Calls(t)'
  BY <1>1, <1>2 DEF Calls, Injected
<1>5. Retiring(t)'
  BY <1>1, <1>2 DEF Retiring
<1>6. Local(t)'
  BY <1>3, <1>4, <1>5 DEF Local
<1> QED BY <1>2, <1>6, ReadOnlyStep

(* An operation ends inside its guard. *)
LEMMA AnswerSafe ==
  ASSUME SafeInv, NEW t \in Thread, NEW from, NEW v \in Value \cup {NoValue}, Answer(t, from, v),
         pc[t] # "idle", pc[t] # "retire"
  PROVE  SafeInv' /\ Moves(t)
<1> DEFINE w == [NoLocals EXCEPT !.leaf = loc[t].leaf, !.retval = v]
<1>1. TypeOK /\ Held(t) \subseteq Near(t) /\ loc[t] \in Locals /\ NoLocals \in Locals
  BY Mine, Types
<1>2. w \in Locals /\ w.leaf = loc[t].leaf
  BY <1>1 DEF Locals, NoLocals
<1>3. /\ loc' = [loc EXCEPT ![t] = w] /\ pc' = [pc EXCEPT ![t] = "return"]
      /\ UNCHANGED <<mem, linked, dict, owed, call, pinned, seen, answer, script>>
  BY DEF Answer, GoTo, Quiet, shared
<1>4. loc'[t] = w /\ pc'[t] = "return"
  BY <1>1, <1>3 DEF TypeOK
<1>5. Held(t)' \subseteq Near(t)
  <2>1. Held(t)' \subseteq {loc[t].leaf} \ {NULL}
    BY <1>4 DEF Held, NoLocals, NullWord, Word
  <2> QED BY <2>1, <1>1 DEF Held
<1>6. Seeking(t)' /\ Removing(t)'
  BY <1>4 DEF Seeking, Removing
<1> HIDE DEF w
<1> QED BY <1>2, <1>3, <1>5, <1>6, LocalIn DEF Pcs

(* search starts below the root, in the tree. *)
LEMMA FindRootSafe ==
  ASSUME SafeInv, NEW t \in Thread, FindRoot(t)
  PROVE  SafeInv' /\ Moves(t)
<1> DEFINE w == [loc[t] EXCEPT !.cur = mem[Root].left.addr]
<1>1. TypeOK /\ Held(t) \subseteq Near(t) /\ loc[t] \in Locals /\ linked \subseteq Near(t)
  BY Mine, Types
<1>2. mem[Root].left.addr \in linked /\ mem[Root].left.addr # NULL /\ linked \subseteq Node
  <2>1. Tree(mem, linked)
    BY Mine
  <2>2. ~IsLeaf(mem[Root])
    BY <2>1 DEF Tree, Sentinels
  <2>3. mem[Root]["left"].addr # NULL
    BY <2>2 DEF IsLeaf
  <2> QED BY <2>1, <2>3, TreeFacts, SideFacts
<1>3. w \in Locals /\ w.leaf = loc[t].leaf
  BY <1>1, <1>2 DEF Locals
<1>4. /\ loc' = [loc EXCEPT ![t] = w] /\ pc' = [pc EXCEPT ![t] = "find"]
      /\ pc[t] = "root" /\ call[t].op = "find"
      /\ UNCHANGED <<mem, linked, dict, owed, call, pinned, seen, answer, script>>
  BY DEF FindRoot, GoTo, Quiet, shared
<1>5. loc'[t] = w /\ pc'[t] = "find"
  BY <1>1, <1>4 DEF TypeOK
<1>6. /\ w.lum = loc[t].lum /\ w.lumC = loc[t].lumC /\ w.parent = loc[t].parent /\ w.pL = loc[t].pL
      /\ w.pS = loc[t].pS /\ w.todo = loc[t].todo /\ w.cur = mem[Root].left.addr
  BY <1>1 DEF Locals
<1> HIDE DEF w
<1>7. Held(t)' \subseteq Held(t) \cup {mem[Root].left.addr}
  BY <1>3, <1>5, <1>6 DEF Held
<1>8. Seeking(t)' /\ Removing(t)'
  BY <1>2, <1>5, <1>6 DEF Seeking, Removing
<1> QED BY <1>1, <1>2, <1>3, <1>4, <1>7, <1>8, LocalIn DEF Pcs

(* search goes on to a child of a node that t may reach, cut off or not. *)
LEMMA FindDownSafe ==
  ASSUME SafeInv, NEW t \in Thread, FindDown(t)
  PROVE  SafeInv' /\ Moves(t)
<1> DEFINE n == loc[t].cur
           next == mem[n][Side(t, n)].addr
           w == [loc[t] EXCEPT !.cur = next]
<1>1. /\ TypeOK /\ mem \in Memory /\ Held(t) \subseteq Near(t) /\ loc[t] \in Locals
      /\ Removing(t) /\ Calls(t) /\ Near(t) \subseteq Kept /\ Kept \in SUBSET Node
      /\ \A x \in Near(t), s \in Sides : mem[x][s].addr # NULL => mem[x][s].addr \in Near(t)
  BY Mine, Types
<1>2. pc[t] = "find" /\ n # NULL /\ call[t].op = "find"
  BY <1>1 DEF FindDown, Removing, Calls
<1>3. n \in Near(t) /\ n \in Node
  BY <1>1, <1>2 DEF Held
<1>4. CASE next # NULL
  <2>1. Side(t, n) \in Sides
    BY SideFacts DEF Side
  <2>2. next \in Near(t) /\ next \in Node
    BY <1>1, <1>3, <1>4, <2>1
  <2>3. /\ loc' = [loc EXCEPT ![t] = w] /\ pc' = pc
        /\ UNCHANGED <<mem, linked, dict, owed, call, pinned, seen, answer, script>>
    BY <1>4 DEF FindDown, Quiet, shared
  <2> HIDE DEF next
  <2>4. w \in Locals /\ w.leaf = loc[t].leaf
    BY <1>1, <2>2 DEF Locals
  <2>5. loc'[t] = w /\ pc' = [pc EXCEPT ![t] = "find"] /\ pc'[t] = "find"
    BY <1>1, <1>2, <2>3 DEF TypeOK
  <2>6. /\ w.lum = loc[t].lum /\ w.lumC = loc[t].lumC /\ w.parent = loc[t].parent /\ w.pL = loc[t].pL
        /\ w.pS = loc[t].pS /\ w.todo = loc[t].todo /\ w.cur = next
    BY <1>1 DEF Locals
  <2> HIDE DEF w
  <2>7. Held(t)' \subseteq Held(t) \cup {next}
    BY <2>4, <2>5, <2>6 DEF Held
  <2>8. Seeking(t)' /\ Removing(t)'
    BY <1>4, <2>5, <2>6 DEF Seeking, Removing
  <2> QED BY <1>1, <1>2, <2>2, <2>3, <2>4, <2>5, <2>7, <2>8, LocalIn DEF Pcs
<1>5. CASE next = NULL
  <2> DEFINE v == IF mem[n].key = call[t].key THEN mem[n].value ELSE NoValue
  <2>1. Answer(t, "find", v)
    BY <1>5 DEF FindDown
  <2>2. v \in Value \cup {NoValue}
    BY <1>1, <1>3, WordOf, SideFacts
  <2> HIDE DEF v
  <2> QED BY <1>2, <2>1, <2>2, AnswerSafe
<1> QED BY <1>4, <1>5

(* A seek starts with the root as parent and no last unmarked node. *)
LEMMA SeekRootSafe ==
  ASSUME SafeInv, NEW t \in Thread, SeekRoot(t)
  PROVE  SafeInv' /\ Moves(t)
<1> DEFINE w == [NoLocals EXCEPT
       !.parent = Root, !.pL = mem[Root].left, !.leaf = loc[t].leaf, !.retval = loc[t].retval]
<1>1. /\ TypeOK /\ mem \in Memory /\ Held(t) \subseteq Near(t) /\ loc[t] \in Locals /\ NoLocals \in Locals
      /\ linked \subseteq Near(t) /\ Tree(mem, linked) /\ Words(mem, linked)
  BY Mine, Types
<1>2. /\ Root \in linked /\ Root # NULL /\ Root \in Node /\ ~IsLeaf(mem[Root])
      /\ mem[Root]["left"].addr \in linked /\ mem[Root]["left"].addr # NULL
      /\ IsFree(mem[Root]["left"])
  <2>1. ~IsLeaf(mem[Root])
    BY <1>1 DEF Tree, Sentinels
  <2>2. mem[Root]["left"].addr # NULL
    BY <2>1 DEF IsLeaf
  <2> QED BY <1>1, <2>1, <2>2, TreeFacts, RootWords, NodeFacts, SideFacts
<1>3. mem[Root].left \in WordType
  BY <1>1, <1>2, WordOf, SideFacts
<1>4. w \in Locals /\ w.leaf = loc[t].leaf
  BY <1>1, <1>2, <1>3 DEF Locals, NoLocals
<1>5. /\ loc' = [loc EXCEPT ![t] = w] /\ pc' = [pc EXCEPT ![t] = "seek"]
      /\ pc[t] = "root" /\ call[t].op # "find"
      /\ UNCHANGED <<mem, linked, dict, owed, call, pinned, seen, answer, script>>
  BY DEF SeekRoot, GoTo, Quiet, shared
<1>6. loc'[t] = w /\ pc'[t] = "seek"
  BY <1>1, <1>5 DEF TypeOK
<1>7. Held(t)' \subseteq ({loc[t].leaf} \ {NULL}) \cup {Root, mem[Root].left.addr}
  BY <1>6 DEF Held, NoLocals, NullWord, Word
<1>8. Held(t)' \subseteq Near(t)
  <2>1. {loc[t].leaf} \ {NULL} \subseteq Held(t)
    BY DEF Held
  <2>2. Root \in Near(t) /\ mem[Root].left.addr \in Near(t)
    BY <1>1, <1>2
  <2> QED BY <2>1, <2>2, <1>1, <1>7
<1>9. w.lum = NULL /\ w.parent = Root /\ w.pL = mem[Root].left
  BY DEF NoLocals
<1> HIDE DEF w
<1>10. Seeking(t)'
  BY <1>2, <1>5, <1>6, <1>9 DEF Seeking
<1>11. Removing(t)'
  BY <1>6 DEF Removing
<1> QED BY <1>4, <1>5, <1>8, <1>10, <1>11, LocalIn DEF Pcs

(* A seek goes down; the chain of marked words from the last unmarked one  *)
(* grows, or a new one begins.                                             *)
LEMMA SeekDownSafe ==
  ASSUME SafeInv, NEW t \in Thread, SeekDown(t)
  PROVE  SafeInv' /\ Moves(t)
<1> DEFINE l == loc[t]
           n == l.pL.addr
           s == Side(t, n)
           next == mem[n][s]
           w == [l EXCEPT !.parent = n, !.pL = next,
                          !.lum = IF l.pL.mark THEN l.lum ELSE l.parent,
                          !.lumC = IF l.pL.mark THEN l.lumC ELSE l.pL]
<1>1. /\ TypeOK /\ mem \in Memory /\ Held(t) \subseteq Near(t) /\ l \in Locals
      /\ linked \subseteq Near(t) /\ Tree(mem, linked) /\ Words(mem, linked) /\ Words(mem, Kept)
      /\ Seeking(t) /\ Calls(t) /\ Near(t) \subseteq Kept /\ Kept \in SUBSET Node
      /\ \A x \in Near(t), r \in Sides : mem[x][r].addr # NULL => mem[x][r].addr \in Near(t)
  BY Mine, Types
<1>2. pc[t] = "seek" /\ next.addr # NULL
  BY DEF SeekDown, GoTo
<1>3. /\ l.parent # NULL /\ ~IsLeaf(mem[l.parent]) /\ n # NULL
      /\ ~IsFree(l.pL) => /\ Memo(t).addr = n /\ Memo(t).flag = l.pL.flag
                          /\ l.pL.mark => Memo(t).mark
      /\ l.lum = NULL => l.parent = Root
      /\ l.lum # NULL => /\ ~IsLeaf(mem[l.lum])
                         /\ l.lumC.addr # NULL /\ IsFree(l.lumC)
                         /\ l.parent \in Chain(mem, l.lumC.addr)
  BY <1>1, <1>2 DEF Seeking
<1>4. n \in Near(t) /\ l.parent \in Near(t) /\ n \in Node /\ l.parent \in Node /\ s \in Sides
      /\ Side(t, l.parent) \in Sides
  BY <1>1, <1>3, SideFacts DEF Held, Side
<1>5. next.addr \in Near(t) /\ next.addr \in Node /\ next \in WordType
  BY <1>1, <1>2, <1>4, WordOf
<1>6. ~IsLeaf(mem[n])
  BY <1>1, <1>2, <1>4, TreeFacts DEF NullWord, Word
<1>7. /\ l.lum \in Node \cup {NULL} /\ l.lumC \in WordType /\ l.pL \in WordType
  BY <1>1 DEF Locals
<1>8. w \in Locals /\ w.leaf = l.leaf
  BY <1>1, <1>4, <1>5, <1>7 DEF Locals
<1>9. /\ loc' = [loc EXCEPT ![t] = w] /\ pc' = [pc EXCEPT ![t] = "seek"]
      /\ UNCHANGED <<mem, linked, dict, owed, call, pinned, seen, answer, script>>
  BY DEF SeekDown, GoTo, Quiet, shared
<1>10. loc'[t] = w /\ pc'[t] = "seek"
  BY <1>1, <1>9 DEF TypeOK
<1>11. /\ w.parent = n /\ w.pL = next /\ w.cur = l.cur /\ w.pS = l.pS /\ w.todo = l.todo
       /\ w.lum = (IF l.pL.mark THEN l.lum ELSE l.parent)
       /\ w.lumC = (IF l.pL.mark THEN l.lumC ELSE l.pL)
  BY <1>1 DEF Locals
<1> HIDE DEF w, next
<1>12. Held(t)' \subseteq Held(t) \cup {next.addr, n, l.parent}
  <2>1. w.lumC.addr \in {l.lumC.addr, n}
    BY <1>11
  <2> QED BY <2>1, <1>8, <1>10, <1>11 DEF Held
<1>13. Memo(t)' = next
  BY <1>9, <1>10, <1>11 DEF Memo, Side, next
<1>14. Memo(t) = mem[l.parent][Side(t, l.parent)]
  BY DEF Memo
<1>15. w.lum # NULL /\ ~IsLeaf(mem[w.lum]) /\ w.lumC.addr # NULL /\ IsFree(w.lumC)
       /\ n \in Chain(mem, w.lumC.addr)
  <2>1. CASE l.pL.mark
    <3>1. Memo(t).mark /\ Memo(t).addr = n
      BY <2>1, <1>3 DEF IsFree
    <3>2. l.lum # NULL
      <4>1. l.parent # Root
        BY <3>1, <1>1, <1>4, <1>14, RootWords DEF IsFree
      <4> QED BY <4>1, <1>3
    <3>3. l.lumC.addr \in Node
      BY <3>2, <1>3, <1>7 DEF WordType
    <3>4. n \in Chain(mem, l.lumC.addr)
      BY <3>1, <3>2, <3>3, <1>1, <1>3, <1>4, <1>14, ChainLeast
    <3> QED BY <2>1, <3>2, <3>4, <1>3, <1>11
  <2>2. CASE ~l.pL.mark
    <3>1. ~l.pL.flag
      <4>1. SUFFICES ASSUME l.pL.flag PROVE FALSE
        OBVIOUS
      <4>2. Memo(t).flag /\ Memo(t).addr = n
        BY <4>1, <1>3 DEF IsFree
      <4>3. IsLeaf(mem[n])
        BY <4>2, <1>1, <1>4, <1>14 DEF Words
      <4> QED BY <4>3, <1>6
    <3>2. n \in Chain(mem, n)
      BY <1>1, <1>4, ChainLeast
    <3> QED BY <2>2, <3>1, <3>2, <1>3, <1>11 DEF IsFree
  <2> QED BY <2>1, <2>2
<1>16. Seeking(t)'
  <2>1. \A y : Chain(mem, y)' = Chain(mem, y)'
    OBVIOUS
  <2>2. mem' = mem
    BY <1>9
  <2> QED BY <2>2, <1>3, <1>5, <1>2, <1>6, <1>10, <1>11, <1>13, <1>15 DEF Seeking, next
<1>17. Removing(t)'
  BY <1>10 DEF Removing
<1>18. call[t].op # "find"
  BY <1>1, <1>2 DEF Calls
<1>19. Held(t)' \subseteq Near(t)
  BY <1>1, <1>4, <1>5, <1>12
<1> QED BY <1>2, <1>8, <1>9, <1>16, <1>17, <1>18, <1>19, LocalIn DEF Pcs

(* insertIfAbsent finds the key. *)
LEMMA InsertFoundSafe ==
  ASSUME SafeInv, NEW t \in Thread, InsertFound(t)
  PROVE  SafeInv' /\ Moves(t)
<1> DEFINE n == loc[t].pL.addr
<1>1. pc[t] = "seek" /\ Answer(t, "seek", mem[n].value)
  BY DEF InsertFound, AtLeaf
<1>2. /\ mem \in Memory /\ Held(t) \subseteq Near(t) /\ Seeking(t) /\ Near(t) \subseteq Kept
      /\ Kept \in SUBSET Node
  BY Mine
<1>3. n \in Node
  BY <1>1, <1>2 DEF Held, Seeking
<1>4. mem[n].value \in Value \cup {NoValue}
  BY <1>2, <1>3, WordOf, SideFacts
<1> QED BY <1>1, <1>4, AnswerSafe

(* erase does not find the key. *)
LEMMA EraseAbsentSafe ==
  ASSUME SafeInv, NEW t \in Thread, EraseAbsent(t)
  PROVE  SafeInv' /\ Moves(t)
<1>1. pc[t] = "seek" /\ Answer(t, "seek", NoValue)
  BY DEF EraseAbsent, AtLeaf
<1> QED BY <1>1, AnswerSafe

(* Somebody else has removed the leaf of t. *)
LEMMA SecondaryGoneSafe ==
  ASSUME SafeInv, NEW t \in Thread, SecondaryGone(t)
  PROVE  SafeInv' /\ Moves(t)
<1>1. pc[t] = "seek" /\ Answer(t, "seek", loc[t].retval)
  BY DEF SecondaryGone, AtLeaf
<1>2. loc[t].retval \in Value \cup {NoValue}
  BY Mine, Types DEF Locals
<1> QED BY <1>1, <1>2, AnswerSafe

(* The loop goes round; a thread that owed the retirement of nodes has     *)
(* retired them.                                                           *)
LEMMA RetrySafe ==
  ASSUME SafeInv, NEW t \in Thread, NEW from, Retry(t, from), pc[t] # "idle",
         UNCHANGED <<mem, linked, dict>>,
         \A u \in Thread \ {t} : owed'[u] = owed[u],
         owed' \in [Thread -> SUBSET Node], owed'[t] = {}
  PROVE  SafeInv' /\ Moves(t)
<1>1. TypeOK /\ Calls(t) /\ NoLocals \in Locals
  BY Mine, Types
<1>2. /\ pc' = [pc EXCEPT ![t] = "root"] /\ loc' = [loc EXCEPT ![t] = NoLocals]
      /\ pinned' = [pinned EXCEPT ![t] = {}]
      /\ call' = call /\ seen' = seen /\ answer' = answer /\ script' = script
  BY DEF Retry, GoTo
<1>3. loc' \in [Thread -> Locals]
  BY <1>1, <1>2 DEF TypeOK
<1>4. TypeOK'
  BY <1>1, <1>2, <1>3 DEF TypeOK, WordType, Call, NoCall
<1>5. /\ pc'[t] = "root" /\ loc'[t] = NoLocals /\ pinned'[t] = {} /\ call'[t] # NoCall
      /\ ReadOnly(t)
  BY <1>1, <1>2 DEF TypeOK, ReadOnly, Calls
<1>6. Local(t)'
  BY <1>5, LocalOut
<1> QED BY <1>4, <1>5, <1>6, ReadOnlyStep

(* The loop goes round and no debt is left. *)
LEMMA RetrySafeNow ==
  ASSUME SafeInv, NEW t \in Thread, NEW from, Retry(t, from), pc[t] # "idle", pc[t] # "retire",
         UNCHANGED shared
  PROVE  SafeInv' /\ Moves(t)
<1>1. TypeOK /\ Retiring(t)
  BY Mine
<1>2. owed[t] = {} /\ owed' = owed /\ UNCHANGED <<mem, linked, dict>>
  BY <1>1 DEF Retiring, shared
<1>3. owed' \in [Thread -> SUBSET Node]
  BY <1>1, <1>2 DEF TypeOK
<1> QED BY <1>2, <1>3, RetrySafe

(* The word of the sibling is marked already: its address and its flag are *)
(* final when t reads them.                                                *)
LEMMA ReadSiblingSafe ==
  ASSUME SafeInv, NEW t \in Thread, ReadSibling(t)
  PROVE  SafeInv' /\ Moves(t)
<1> DEFINE l == loc[t]
           w == [l EXCEPT !.pS = Other(t)]
<1>1. /\ TypeOK /\ mem \in Memory /\ Held(t) \subseteq Near(t) /\ l \in Locals
      /\ Seeking(t) /\ Removing(t) /\ Calls(t) /\ Near(t) \subseteq Kept /\ Kept \in SUBSET Node
      /\ \A x \in Near(t), r \in Sides : mem[x][r].addr # NULL => mem[x][r].addr \in Near(t)
  BY Mine, Types
<1>2. /\ pc[t] = "read" /\ loc' = [loc EXCEPT ![t] = w] /\ pc' = [pc EXCEPT ![t] = "swing"]
      /\ UNCHANGED <<mem, linked, dict, owed, call, pinned, seen, answer, script>>
  BY DEF ReadSibling, GoTo, Quiet, shared, Other
<1>3. l.parent \in Near(t) /\ l.parent \in Node
  BY <1>1, <1>2 DEF Seeking, Held
<1>4. /\ Sibling(Side(t, l.parent)) \in Sides
      /\ Other(t) = mem[l.parent][Sibling(Side(t, l.parent))]
  BY SideFacts DEF Side, Other
<1>5. Other(t) \in WordType /\ (Other(t).addr # NULL => Other(t).addr \in Near(t))
  BY <1>1, <1>3, <1>4, WordOf
<1>6. w \in Locals /\ w.leaf = l.leaf
  BY <1>1, <1>5 DEF Locals
<1>7. loc'[t] = w /\ pc'[t] = "swing"
  BY <1>1, <1>2 DEF TypeOK
<1>8. /\ w.lum = l.lum /\ w.lumC = l.lumC /\ w.parent = l.parent /\ w.pL = l.pL
      /\ w.cur = l.cur /\ w.pS = Other(t) /\ w.todo = l.todo
  BY <1>1 DEF Locals
<1> HIDE DEF w
<1>9. Held(t)' \subseteq Held(t) \cup ({Other(t).addr} \ {NULL})
  BY <1>6, <1>7, <1>8 DEF Held
<1>10. Held(t)' \subseteq Near(t)
  BY <1>1, <1>5, <1>9
<1>11. Memo(t)' = Memo(t) /\ Other(t)' = Other(t)
  BY <1>2, <1>7, <1>8 DEF Memo, Other, Side
<1>12. Seeking(t)'
  BY <1>1, <1>2, <1>7, <1>8, <1>11 DEF Seeking
<1>13. Removing(t)'
  BY <1>1, <1>2, <1>7, <1>8, <1>11 DEF Removing
<1>14. call[t].op # "find"
  BY <1>1, <1>2 DEF Calls
<1> QED BY <1>2, <1>6, <1>10, <1>12, <1>13, <1>14, LocalIn DEF Pcs

(* The CAS on the last unmarked word fails. *)
LEMMA SwingFails ==
  ASSUME SafeInv, NEW t \in Thread, NEW from, NEW pS, pc[t] # "idle", pc[t] # "retire",
         Swing(t, from, pS), mem[loc[t].lum][Side(t, loc[t].lum)] # loc[t].lumC
  PROVE  SafeInv' /\ Moves(t)
<1> DEFINE l == loc[t]
           w == [NoLocals EXCEPT !.leaf = l.leaf, !.retval = l.retval]
<1>1. /\ UNCHANGED shared
      /\ IF Injected(t) THEN /\ GoTo(t, from, "root")
                             /\ loc' = [loc EXCEPT ![t] = w]
                             /\ Quiet
         ELSE Retry(t, from)
  BY DEF Swing
<1>2. CASE ~Injected(t)
  BY <1>1, <1>2, RetrySafeNow
<1>3. CASE Injected(t)
  <2>1. TypeOK /\ Held(t) \subseteq Near(t) /\ l \in Locals /\ NoLocals \in Locals
    BY Mine, Types
  <2>2. w \in Locals /\ w.leaf = l.leaf
    BY <2>1 DEF Locals, NoLocals
  <2>3. /\ loc' = [loc EXCEPT ![t] = w] /\ pc' = [pc EXCEPT ![t] = "root"]
        /\ UNCHANGED <<mem, linked, dict, owed, call, pinned, seen, answer, script>>
    BY <1>1, <1>3 DEF GoTo, Quiet, shared
  <2>4. loc'[t] = w /\ pc'[t] = "root"
    BY <2>1, <2>3 DEF TypeOK
  <2>5. Held(t)' \subseteq Near(t)
    <3>1. Held(t)' \subseteq {l.leaf} \ {NULL}
      BY <2>4 DEF Held, NoLocals, NullWord, Word
    <3> QED BY <3>1, <2>1 DEF Held
  <2>6. Seeking(t)' /\ Removing(t)'
    BY <2>4 DEF Seeking, Removing
  <2> HIDE DEF w
  <2> QED BY <2>2, <2>3, <2>5, <2>6, LocalIn DEF Pcs
<1> QED BY <1>2, <1>3

-----------------------------------------------------------------------------
(* The steps that set bits of a word. *)

(* A word that is written is the only one that changes. *)
LEMMA PutWord ==
  ASSUME NEW m \in Memory, NEW p \in Node, NEW d \in Sides, NEW w \in WordType
  PROVE  OneWord(m, [m EXCEPT ![p][d] = w], p, d, w)
<1> DEFINE Rec == [key : 1 .. MaxKey + 2, value : Value \cup {NoValue}, left : WordType, right : WordType]
           r == [m[p] EXCEPT ![d] = w]
           m2 == [m EXCEPT ![p][d] = w]
<1>1. m[p] \in Rec /\ m2 = [m EXCEPT ![p] = r]
  BY DEF Memory
<1>2. r \in Rec /\ r.key = m[p].key /\ r.value = m[p].value
      /\ \A s \in Sides : r[s] = IF s = d THEN w ELSE m[p][s]
  BY <1>1 DEF Sides
<1> HIDE DEF r
<1>3. m2 \in Memory
  BY <1>1, <1>2 DEF Memory
<1>4. m2[p] = r /\ \A n \in Node : n # p => m2[n] = m[n]
  BY <1>1 DEF Memory
<1> HIDE DEF m2
<1>5. ASSUME NEW n \in Node
      PROVE  /\ m2[n].key = m[n].key /\ m2[n].value = m[n].value
             /\ \A s \in Sides : m2[n][s] = IF n = p /\ s = d THEN w ELSE m[n][s]
  <2>1. CASE n = p
    BY <2>1, <1>2, <1>4
  <2>2. CASE n # p
    BY <2>2, <1>4
  <2> QED BY <2>1, <2>2
<1>6. OneWord(m, m2, p, d, w)
  BY <1>3, <1>5 DEF OneWord
<1> QED BY <1>6 DEF m2

(* A step that flags a word of a leaf, or marks one beside a flag, in a    *)
(* node that somebody may reach.                                           *)
LEMMA BitsStep ==
  ASSUME SafeInv, NEW t \in Thread, NEW p \in Kept, NEW d \in Sides, NEW w \in WordType,
         mem' = [mem EXCEPT ![p][d] = w], UNCHANGED <<linked, owed, pinned>>,
         ~IsLeaf(mem[p]), w.addr = mem[p][d].addr, p # Root \/ d # "right",
         w.flag => IsLeaf(mem[w.addr]) /\ mem[w.addr].key \in Key,
         w.mark => mem[p][Sibling(d)].flag,
         ~IsFree(mem[p][d]) => w.flag = mem[p][d].flag /\ (mem[p][d].mark => w.mark)
  PROVE  /\ OneWord(mem, mem', p, d, w) /\ Gentle
         /\ Tree(mem, linked)' /\ Words(mem, Kept)' /\ mem' \in Memory
<1>1. /\ TypeOK /\ Tree(mem, linked) /\ mem \in Memory /\ Words(mem, Kept) /\ Kept \in SUBSET Node
      /\ linked \subseteq Kept
  BY Mine
<1>2. p \in Node
  BY <1>1
<1>3. OneWord(mem, mem', p, d, w)
  BY <1>1, <1>2, PutWord
<1>4. /\ Tree(mem', linked)
      /\ \A n \in Node : IsLeaf(mem'[n]) <=> IsLeaf(mem[n])
  <2>1. ~IsLeaf(mem[p]) /\ w.addr = mem[p][d].addr /\ (p # Root \/ d # "right")
    OBVIOUS
  <2>2. Tree(mem, linked)
    BY <1>1
  <2> QED BY ONLY <1>2, <1>3, <2>1, <2>2, d \in Sides, BitsTree
<1>5. Words(mem', Kept)
  BY <1>1, <1>2, <1>3, BitsWords DEF IsFree
<1>6. Kept' = Kept /\ linked' = linked
  BY DEF Kept, Available
<1>7. Gentle
  <2>1. /\ \A n \in Node : mem'[n].key = mem[n].key /\ mem'[n].value = mem[n].value
        /\ \A n \in Node, s \in Sides : mem'[n][s] = IF n = p /\ s = d THEN w ELSE mem[n][s]
    BY <1>3 DEF OneWord
  <2>2. Calm
    BY <1>1, <1>4, <2>1 DEF Calm
  <2> QED BY <2>2, <1>6 DEF Gentle
<1>8. Tree(mem, linked)' /\ Words(mem, Kept)'
  BY <1>4, <1>5, <1>6 DEF Tree, Words
<1> QED BY <1>3, <1>7, <1>8 DEF OneWord

(* The parent of a seek record is an internal node that t may reach; of    *)
(* the root a seek takes the left word only.                               *)
LEMMA ParentSide ==
  ASSUME SafeInv, NEW t \in Thread, pc[t] \in {"seek", "mark", "read", "swing"}
  PROVE  /\ call[t] \in Call /\ call[t].key \in Key
         /\ loc[t].parent \in Kept /\ loc[t].parent \in Near(t) /\ ~IsLeaf(mem[loc[t].parent])
         /\ Side(t, loc[t].parent) \in Sides
         /\ loc[t].pL.addr \in Near(t) /\ loc[t].pL.addr \in Kept /\ loc[t].pL.addr # NULL
         /\ loc[t].pL \in WordType
         /\ loc[t].parent = Root => Side(t, loc[t].parent) = "left"
<1>1. /\ TypeOK /\ Tree(mem, linked) /\ Held(t) \subseteq Near(t) /\ loc[t] \in Locals
      /\ Near(t) \subseteq Kept /\ Seeking(t) /\ Calls(t)
  BY Mine, Types
<1>2. call[t] \in Call
  BY <1>1 DEF TypeOK, Calls
<1>3. call[t].key \in Key
  BY <1>2 DEF Call
<1>4. loc[t].parent # NULL /\ loc[t].pL.addr # NULL /\ ~IsLeaf(mem[loc[t].parent])
  BY <1>1 DEF Seeking
<1>5. loc[t].parent \in Near(t) /\ loc[t].pL.addr \in Near(t)
  BY <1>1, <1>4 DEF Held
<1>6. loc[t].pL \in WordType
  BY <1>1 DEF Locals
<1>7. loc[t].parent = Root => Side(t, loc[t].parent) = "left"
  <2>1. mem[Root].key = MaxKey + 2 /\ MaxKey \in Nat
    BY <1>1, BstAssumption DEF Tree, Sentinels
  <2> QED BY <2>1, <1>3 DEF Side, SideOf, Key
<1> QED BY <1>1, <1>2, <1>3, <1>4, <1>5, <1>6, <1>7, SideFacts DEF Side

(* The CAS of inject flags the word of a leaf. *)
LEMMA InjectSafe ==
  ASSUME SafeInv, NEW t \in Thread, Inject(t)
  PROVE  SafeInv' /\ Moves(t)
<1> DEFINE l == loc[t]
           p == l.parent
           d == Side(t, p)
           a == l.pL.addr
           w == Word(a, FALSE, TRUE)
           v == [l EXCEPT !.leaf = a, !.retval = mem[a].value]
<1>1. /\ pc[t] = "seek" /\ IsLeaf(mem[a]) /\ mem[a].key = call[t].key /\ call[t].op = "erase"
      /\ IsFree(l.pL)
  BY DEF Inject, AtLeaf, KeyFound
<1>2. CASE mem[p][d] # l.pL
  BY <1>1, <1>2, RetrySafeNow DEF Inject
<1>3. CASE mem[p][d] = l.pL
  <2>1. /\ pc' = [pc EXCEPT ![t] = "mark"] /\ mem' = [mem EXCEPT ![p][d] = w]
        /\ loc' = [loc EXCEPT ![t] = v]
        /\ UNCHANGED <<linked, dict, owed, call, pinned, seen, answer, script>>
    BY <1>3 DEF Inject, GoTo, Quiet
  <2>2. /\ TypeOK /\ mem \in Memory /\ Held(t) \subseteq Near(t) /\ l \in Locals /\ Kept \in SUBSET Node
        /\ Pins(t) /\ Retiring(t) /\ Calls(t) /\ Removing(t)
    BY Mine, Types
  <2>3. /\ call[t].key \in Key /\ p \in Kept /\ ~IsLeaf(mem[p]) /\ d \in Sides
        /\ a \in Near(t) /\ a \in Kept /\ a # NULL /\ (p = Root => d = "left")
    BY <1>1, ParentSide
  <2>4. w \in WordType /\ w.addr = a /\ w.flag /\ ~w.mark
    BY <2>2, <2>3 DEF Word, WordType
  <2>5. OneWord(mem, mem', p, d, w) /\ Gentle /\ Tree(mem, linked)' /\ Words(mem, Kept)' /\ mem' \in Memory
    <3>1. mem[p][d].addr = a /\ IsFree(mem[p][d]) /\ (p # Root \/ d # "right")
      BY <1>1, <1>3, <2>3, SideFacts
    <3>2. IsLeaf(mem[a]) /\ mem[a].key \in Key
      BY <1>1, <2>3
    <3> HIDE DEF w, d, p, a, l
    <3> QED BY <2>1, <2>3, <2>4, <3>1, <3>2, BitsStep
  <2>6. v \in Locals /\ v.leaf = a
    <3>1. mem[a].value \in Value \cup {NoValue}
      BY <2>2, <2>3, WordOf, SideFacts
    <3> QED BY <3>1, <2>2, <2>3 DEF Locals
  <2>7. /\ v.parent = p /\ v.pL = l.pL /\ v.lum = l.lum /\ v.lumC = l.lumC
        /\ v.cur = l.cur /\ v.pS = l.pS /\ v.todo = l.todo
    BY <2>2 DEF Locals
  <2> HIDE DEF v
  <2>8. loc' \in [Thread -> Locals] /\ loc'[t] = v /\ \A u \in Thread \ {t} : loc'[u] = loc[u]
    BY <2>1, <2>2, <2>6 DEF TypeOK
  <2>9. pc'[t] = "mark" /\ \A u \in Thread \ {t} : pc'[u] = pc[u]
    BY <2>1, <2>2 DEF TypeOK
  <2>10. TypeOK'
    BY <2>1, <2>2, <2>5, <2>8 DEF TypeOK, Memory, WordType, Call, NoCall
  <2>11. /\ Seeking(t)' /\ Side(t, p)' = d
    BY <1>1, <2>1, <2>5, <2>7, <2>8, StillSeeking
  <2>12. Memo(t)'.flag
    <3>1. Memo(t)' = mem'[p][d]
      BY <2>7, <2>8, <2>11 DEF Memo
    <3>2. mem'[p][d] = w
      BY <2>2, <2>3, <2>5 DEF OneWord
    <3> QED BY <3>1, <3>2, <2>4
  <2>13. Removing(t)'
    BY <2>9, <2>12 DEF Removing
  <2>14. Pins(t)' /\ Near(t)' = Near(t)
    <3>1. owed[t] \subseteq pinned[t]
      BY <2>2 DEF Pins
    <3>2. Pins(t)'
      BY <3>1, <2>1, <2>5, <2>9, StillPinned
    <3> QED BY <3>2, <2>1 DEF Near
  <2>15. Held(t)' \subseteq Held(t) \cup {a}
    BY <2>6, <2>7, <2>8 DEF Held
  <2>16. Calls(t)'
    BY <1>1, <2>1, <2>2, <2>3, <2>6, <2>8, <2>9 DEF Calls, Injected
  <2>17. Retiring(t)'
    BY <1>1, <2>1, <2>2, <2>9 DEF Retiring
  <2>18. Held(t)' \subseteq Near(t)'
    BY <2>2, <2>3, <2>14, <2>15
  <2>19. Local(t)'
    BY <2>11, <2>13, <2>14, <2>16, <2>17, <2>18 DEF Local
  <2>20. \A u \in Thread \ {t} : Stands(u)
    BY <2>1, <2>8, <2>9 DEF Stands, SafeInv, Pins
  <2>21. SetsBits
    <3>1. mem[p][d].addr = a
      BY <1>3
    <3> HIDE DEF w
    <3> QED BY <2>1, <2>3, <2>4, <2>5, <3>1 DEF SetsBits
  <2>22. SafeInv'
    BY <2>5, <2>10, <2>19, <2>20, SafeStep
  <2> QED BY <2>5, <2>20, <2>21, <2>22 DEF Moves
<1> QED BY <1>2, <1>3

(* mark_Node marks the word beside the flagged one. *)
LEMMA MarkSafe ==
  ASSUME SafeInv, NEW t \in Thread, Mark(t)
  PROVE  SafeInv' /\ Moves(t)
<1> DEFINE l == loc[t]
           p == l.parent
           d == Sibling(Side(t, p))
           old == mem[p][d]
           w == [old EXCEPT !.mark = TRUE]
<1>1. /\ pc[t] \in {"seek", "mark"} /\ (pc[t] = "seek" => l.pL.flag)
      /\ pc' = [pc EXCEPT ![t] = "read"]
      /\ mem' = [mem EXCEPT ![p][d].mark = TRUE]
      /\ UNCHANGED <<linked, dict, owed, loc, call, pinned, seen, answer, script>>
  BY DEF Mark, Conflict, AtLeaf, Quiet
<1>2. /\ TypeOK /\ mem \in Memory /\ Held(t) \subseteq Near(t) /\ Kept \in SUBSET Node
      /\ Pins(t) /\ Retiring(t) /\ Calls(t) /\ Removing(t) /\ Seeking(t)
      /\ Tree(mem, linked) /\ Words(mem, linked) /\ Words(mem, Kept)
  BY Mine
<1>3. /\ p \in Kept /\ ~IsLeaf(mem[p]) /\ Side(t, p) \in Sides /\ p \in Node
      /\ (p = Root => Side(t, p) = "left")
  BY <1>1, <1>2, ParentSide
<1>4. d \in Sides /\ Sibling(d) = Side(t, p)
  BY <1>3, SideFacts
<1>5. Memo(t).flag /\ Memo(t) = mem[p][Sibling(d)] /\ Other(t) = old
  <2>1. Memo(t).flag
    BY <1>1, <1>2 DEF Seeking, Removing, IsFree
  <2> QED BY <2>1, <1>4 DEF Memo, Other
<1>6. old \in WordType
  BY <1>2, <1>3, <1>4, WordOf
<1>7. w \in WordType /\ w.addr = old.addr /\ w.flag = old.flag /\ w.mark
  BY <1>6 DEF WordType
<1>8. p # Root
  BY <1>2, <1>3, <1>4, <1>5, RootWords DEF IsFree
<1>9. mem' = [mem EXCEPT ![p][d] = w]
  BY <1>1
<1>10. old.flag => IsLeaf(mem[old.addr]) /\ mem[old.addr].key \in Key
  BY <1>2, <1>3, <1>4 DEF Words
<1> HIDE DEF w
<1>11. OneWord(mem, mem', p, d, w) /\ Gentle /\ Tree(mem, linked)' /\ Words(mem, Kept)' /\ mem' \in Memory
  <2>1. /\ UNCHANGED <<linked, owed, pinned>> /\ (p # Root \/ d # "right")
        /\ (w.flag => IsLeaf(mem[w.addr]) /\ mem[w.addr].key \in Key)
        /\ (w.mark => mem[p][Sibling(d)].flag)
        /\ (~IsFree(mem[p][d]) => w.flag = mem[p][d].flag /\ (mem[p][d].mark => w.mark))
    BY <1>1, <1>5, <1>7, <1>8, <1>10
  <2>2. w.addr = mem[p][d].addr
    BY <1>7
  <2> HIDE DEF p, d, old, l
  <2> QED BY ONLY SafeInv, t \in Thread, <2>1, <2>2, <1>3, <1>4, <1>7, <1>9, BitsStep
<1>12. pc'[t] = "read" /\ \A u \in Thread \ {t} : pc'[u] = pc[u]
  BY <1>1, <1>2 DEF TypeOK
<1>13. TypeOK'
  BY <1>1, <1>2, <1>11 DEF TypeOK, Memory, WordType, Call, NoCall, Locals
<1>14. /\ Seeking(t)' /\ Side(t, p)' = Side(t, p)
       /\ Memo(t)'.flag = Memo(t).flag
  BY <1>1, <1>5, <1>11, StillSeeking DEF IsFree
<1>15. Other(t)'.mark
  <2>1. Other(t)' = mem'[p][d]
    BY <1>1, <1>14 DEF Other
  <2>2. mem'[p][d] = w
    BY <1>3, <1>4, <1>11 DEF OneWord
  <2> QED BY <2>1, <2>2, <1>7
<1>16. Removing(t)'
  BY <1>5, <1>12, <1>14, <1>15 DEF Removing
<1>17. Pins(t)' /\ Near(t)' = Near(t)
  <2>1. owed[t] \subseteq pinned[t]
    BY <1>2 DEF Pins
  <2>2. Pins(t)'
    BY <2>1, <1>1, <1>11, <1>12, StillPinned
  <2> QED BY <2>2, <1>1 DEF Near
<1>18. Held(t)' \subseteq Near(t)' /\ Calls(t)' /\ Retiring(t)'
  BY <1>1, <1>2, <1>12, <1>17 DEF Held, Calls, Retiring, Injected
<1>19. Local(t)'
  BY <1>14, <1>16, <1>17, <1>18 DEF Local
<1>20. \A u \in Thread \ {t} : Stands(u)
  BY <1>1, <1>12 DEF Stands, SafeInv, Pins
<1>21. SetsBits
  BY <1>1, <1>3, <1>4, <1>7, <1>11 DEF SetsBits
<1>22. SafeInv'
  BY <1>11, <1>13, <1>19, <1>20, SafeStep
<1> QED BY <1>11, <1>20, <1>21, <1>22 DEF Moves

-----------------------------------------------------------------------------
(* The steps that give the tree a new shape. *)

(* Contents has its type. *)
LEMMA ContentsType ==
  ASSUME NEW m \in Memory
  PROVE  Contents(m) \in [Key -> Value \cup {NoValue}]
<1>1. ASSUME NEW k \in Key
      PROVE  (IF LeavesAt(m, k) = {} THEN NoValue ELSE m[CHOOSE n \in LeavesAt(m, k) : TRUE].value)
               \in Value \cup {NoValue}
  <2>1. LeavesAt(m, k) \subseteq Node
    <3>1. Walk(m, k, Root) \in SUBSET Node
      BY NodeFacts, WalkLeast
    <3> QED BY <3>1, PathIsWalk DEF LeavesAt
  <2> DEFINE n == CHOOSE x \in LeavesAt(m, k) : TRUE
  <2>2. CASE LeavesAt(m, k) # {}
    <3>1. n \in LeavesAt(m, k)
      BY <2>2
    <3> HIDE DEF n
    <3>2. m[n].value \in Value \cup {NoValue}
      BY <2>1, <3>1, WordOf, SideFacts
    <3> QED BY <2>2, <3>2 DEF n
  <2> QED BY <2>2
<1> QED BY <1>1 DEF Contents

(* What Reshape does to the history, the debts and the pins. *)
LEMMA Reshaped ==
  ASSUME SafeInv, NEW t \in Thread, NEW m \in Memory, Reshape(t, m)
  PROVE  /\ mem' = m /\ linked' = Reachable(m) /\ linked' \subseteq Node
         /\ dict' \in [Key -> Value \cup {NoValue}]
         /\ owed' \in [Thread -> SUBSET Node] /\ pinned' \in [Thread -> SUBSET Node]
         /\ seen' \in [Thread -> SUBSET (Value \cup {NoValue})]
         /\ owed'[t] = owed[t] \cup (linked \ linked')
         /\ \A u \in Thread \ {t} : owed'[u] = owed[u]
         /\ \A u \in Thread :
              pinned'[u] = IF pc[u] = "idle" THEN {} ELSE pinned[u] \cup (linked \ linked')
<1>1. TypeOK
  BY Mine
<1>2. mem' = m /\ linked' = Reachable(m) /\ linked' \subseteq Node /\ dict' = Contents(m)
  BY ReachableLeast DEF Reshape
<1>3. dict' \in [Key -> Value \cup {NoValue}]
  BY <1>2, ContentsType
<1> DEFINE gone == linked \ linked'
<1>4. gone \in SUBSET Node
  BY <1>1 DEF TypeOK
<1>5. /\ owed' = [owed EXCEPT ![t] = owed[t] \cup gone]
      /\ pinned' = [u \in Thread |-> IF pc[u] = "idle" THEN {} ELSE pinned[u] \cup gone]
      /\ seen' = [u \in Thread |-> IF call[u] = NoCall THEN {} ELSE seen[u] \cup {dict'[call[u].key]}]
  BY DEF Reshape
<1> HIDE DEF gone
<1>6. /\ owed' \in [Thread -> SUBSET Node]
      /\ owed'[t] = owed[t] \cup gone /\ \A u \in Thread \ {t} : owed'[u] = owed[u]
  BY <1>1, <1>4, <1>5 DEF TypeOK
<1>7. \A u \in Thread : pinned[u] \in SUBSET Node
  BY <1>1 DEF TypeOK
<1>8. /\ pinned' \in [Thread -> SUBSET Node]
      /\ \A u \in Thread : pinned'[u] = IF pc[u] = "idle" THEN {} ELSE pinned[u] \cup gone
  BY <1>4, <1>5, <1>7
<1>9. ASSUME NEW u \in Thread
      PROVE  (IF call[u] = NoCall THEN {} ELSE seen[u] \cup {dict'[call[u].key]})
               \in SUBSET (Value \cup {NoValue})
  <2>1. CASE call[u] # NoCall
    <3>1. call[u] \in Call
      BY <1>1, <2>1 DEF TypeOK
    <3>2. call[u].key \in Key
      BY <3>1 DEF Call
    <3>3. dict'[call[u].key] \in Value \cup {NoValue} /\ seen[u] \in SUBSET (Value \cup {NoValue})
      BY <3>2, <1>1, <1>3 DEF TypeOK
    <3> QED BY <2>1, <3>3
  <2> QED BY <2>1
<1>10. seen' \in [Thread -> SUBSET (Value \cup {NoValue})]
  BY <1>5, <1>9
<1> QED BY <1>2, <1>3, <1>6, <1>8, <1>10 DEF gone

(* A word that is free and leads from an internal node that somebody may   *)
(* get to is in the tree.                                                  *)
LEMMA FreeInTree ==
  ASSUME SafeInv, NEW t \in Thread, NEW n \in Near(t), NEW s \in Sides, ~IsLeaf(mem[n]), IsFree(mem[n][s])
  PROVE  n \in linked
<1>1. Pins(t)
  BY Mine
<1> QED BY <1>1 DEF Pins, Near

(* A CAS of an insert that works does so in the tree, on the way to its    *)
(* key: it is an insert that GrowAt describes.                             *)
LEMMA InsertGrows ==
  ASSUME SafeInv, NEW t \in Thread, Heading(t), pc[t] = "seek", IsLeaf(mem[loc[t].pL.addr]),
         call[t].op = "insertIfAbsent", mem[loc[t].pL.addr].key # call[t].key, IsFree(loc[t].pL),
         Memo(t) = loc[t].pL,
         NEW i \in Available, NEW a \in Available \ {i}, NEW m,
         m = Grown(mem, loc[t].parent, call[t].key, call[t].value, a, i)
  PROVE  /\ GrowAt(mem, linked, loc[t].parent, call[t].key, call[t].value, a, i, m)
         /\ IsFree(mem[loc[t].parent][SideOf(call[t].key, mem[loc[t].parent])])
         /\ a \notin Kept /\ i \notin Kept /\ a \in Node /\ i \in Node
<1> DEFINE p == loc[t].parent
           k == call[t].key
<1>1. /\ call[t] \in Call /\ k \in Key /\ p \in Kept /\ p \in Near(t) /\ ~IsLeaf(mem[p])
      /\ Side(t, p) \in Sides
  BY ParentSide
<1>2. /\ Side(t, p) = SideOf(k, mem[p]) /\ mem[p][Side(t, p)] = loc[t].pL
      /\ Ahd(mem, k, p) = loc[t].pL.addr
  BY DEF Memo, Side, Ahd
<1>3. p \in linked
  BY <1>1, <1>2, FreeInTree
<1>4. ~Injected(t)
  BY Mine DEF Calls
<1>5. p \in Path(mem, k)
  BY <1>3, <1>4 DEF Heading
<1>6. call[t].value \in Value
  BY <1>1 DEF Call
<1>7. Available \subseteq Node /\ a \notin Kept /\ i \notin Kept /\ linked \subseteq Kept /\ Tree(mem, linked)
  BY Mine DEF Available, Kept
<1>8. IsLeaf(mem[Ahd(mem, k, p)]) /\ mem[Ahd(mem, k, p)].key # k
  BY <1>2
<1> QED BY <1>1, <1>2, <1>3, <1>5, <1>6, <1>7, <1>8 DEF GrowAt

(* The nodes that may not be allocated, after a step. *)
LEMMA KeptNext ==
  ASSUME NEW new,
         linked' \subseteq linked \cup new,
         \A u \in Thread : owed'[u] \subseteq owed[u] \cup linked /\ pinned'[u] \subseteq pinned[u] \cup linked
  PROVE  Kept' \subseteq Kept \cup (new \cap Node)
<1> DEFINE O == UNION {owed[u] : u \in Thread}
           P == UNION {pinned[u] : u \in Thread}
           O2 == UNION {owed'[u] : u \in Thread}
           P2 == UNION {pinned'[u] : u \in Thread}
<1>1. O2 \subseteq O \cup linked /\ P2 \subseteq P \cup linked
  OBVIOUS
<1>2. Kept = Node \ (Node \ (linked \cup O \cup P))
  BY DEF Kept, Available
<1>3. Kept' = Node \ (Node \ (linked' \cup O2 \cup P2))
  BY DEF Kept, Available
<1> HIDE DEF O, P, O2, P2
<1> QED BY <1>1, <1>2, <1>3

(* A step that inserts is gentle and keeps the tree and the words. *)
LEMMA GrowStep ==
  ASSUME SafeInv, NEW t \in Thread, NEW p, NEW k, NEW v, NEW a, NEW i,
         GrowAt(mem, linked, p, k, v, a, i, mem'), IsFree(mem[p][SideOf(k, mem[p])]),
         a \notin Kept, i \notin Kept, linked' = Reachable(mem'),
         \A u \in Thread : owed'[u] \subseteq owed[u] \cup (linked \ linked')
                           /\ pinned'[u] \subseteq pinned[u] \cup (linked \ linked')
  PROVE  /\ Gentle /\ Tree(mem, linked)' /\ Words(mem, Kept)' /\ mem' \in Memory
         /\ linked' = linked \cup {a, i}
<1> DEFINE d == SideOf(k, mem[p])
<1>1. /\ TypeOK /\ mem \in Memory /\ Words(mem, Kept) /\ linked \subseteq Kept /\ Kept \in SUBSET Node
  BY Mine
<1>2. linked' = linked \cup {a, i}
  BY GrowReach
<1>3. Tree(mem', linked')
  BY <1>2, GrowTree
<1>4. Grew(mem, linked, p, k, v, a, i, mem')
  BY GrownFacts
<1>5. /\ p \in Node /\ d \in Sides /\ mem' \in Memory
      /\ mem'[p].key = mem[p].key /\ mem'[p].value = mem[p].value
      /\ mem'[p][Sibling(d)] = mem[p][Sibling(d)]
      /\ \A n \in Node \ {a, i, p} : mem'[n] = mem[n]
  BY <1>4 DEF Grew
<1>6. \A n \in Node \ {a, i} : IsLeaf(mem'[n]) <=> IsLeaf(mem[n])
  BY GrowLeaves
<1>7. Calm
  <2>1. ASSUME NEW n \in Kept
        PROVE  /\ mem'[n].key = mem[n].key /\ mem'[n].value = mem[n].value
               /\ IsLeaf(mem'[n]) <=> IsLeaf(mem[n])
               /\ \A s \in Sides : ~IsFree(mem[n][s]) => mem'[n][s] = mem[n][s]
    <3>1. n \in Node \ {a, i}
      BY <1>1
    <3>2. CASE n # p
      <4>1. mem'[n] = mem[n]
        BY <3>1, <3>2, <1>5
      <4> QED BY <4>1
    <3>3. CASE n = p
      <4>1. \A s \in Sides : s # d => s = Sibling(d)
        BY <1>5, SideFacts
      <4>2. \A s \in Sides : ~IsFree(mem[p][s]) => s = Sibling(d)
        BY <4>1
      <4>3. \A s \in Sides : ~IsFree(mem[n][s]) => mem'[n][s] = mem[n][s]
        BY <4>2, <3>3, <1>5
      <4> QED BY <3>1, <3>3, <4>3, <1>5, <1>6
    <3> QED BY <3>2, <3>3
  <2> QED BY <2>1 DEF Calm
<1>8. Gentle
  BY <1>2, <1>7 DEF Gentle
<1>9. Words(mem', Kept \cup {a, i})
  <2>1. \A n \in Kept, s \in Sides : mem[n][s].addr # NULL => mem[n][s].addr \in Kept
    <3> TAKE n \in Kept, s \in Sides
    <3>1. n \in linked \/ \E u \in Thread : n \in pinned[u]
      BY <1>1, Keeps DEF SafeInv
    <3>2. \E u \in Thread : n \in Near(u)
      BY <3>1 DEF Near
    <3> QED BY <3>2, Mine
  <2> QED BY <2>1, <1>1, GrowWords
<1>10. Kept' \subseteq Kept \cup {a, i}
  <2>1. Kept' \subseteq Kept \cup ({a, i} \cap Node)
    BY <1>2, KeptNext
  <2> QED BY <2>1
<1>11. Words(mem', Kept')
  BY <1>9, <1>10 DEF Words
<1>12. Tree(mem, linked)' /\ Words(mem, Kept)'
  BY <1>3, <1>11 DEF Tree, Words
<1> QED BY <1>2, <1>5, <1>8, <1>12

(* perform_one_insert_window_operation, whether its CAS works or not. *)
LEMMA InsertWindowSafe ==
  ASSUME SafeInv, NEW t \in Thread, Heading(t), InsertWindow(t)
  PROVE  SafeInv' /\ Moves(t)
<1> DEFINE l == loc[t]
           p == l.parent
           k == call[t].key
<1>1. /\ pc[t] = "seek" /\ IsLeaf(mem[l.pL.addr]) /\ mem[l.pL.addr].key # k
      /\ call[t].op = "insertIfAbsent" /\ IsFree(l.pL)
  BY DEF InsertWindow, AtLeaf, KeyFound
<1>2. CASE mem[p][Side(t, p)] # l.pL
  BY <1>1, <1>2, RetrySafeNow DEF InsertWindow
<1>3. CASE mem[p][Side(t, p)] = l.pL
  <2>1. PICK i \in Available : \E a \in Available \ {i} :
          Reshape(t, Grown(mem, p, k, call[t].value, a, i))
    BY <1>3 DEF InsertWindow
  <2>2. PICK a \in Available \ {i} : Reshape(t, Grown(mem, p, k, call[t].value, a, i))
    BY <2>1
  <2> DEFINE m == Grown(mem, p, k, call[t].value, a, i)
  <2>3. /\ pc' = [pc EXCEPT ![t] = "return"] /\ loc' = [loc EXCEPT ![t] = NoLocals]
        /\ UNCHANGED <<call, answer, script>>
    BY <1>3 DEF InsertWindow, GoTo
  <2>4. Memo(t) = l.pL
    BY <1>3 DEF Memo
  <2> HIDE DEF m
  <2>5. /\ GrowAt(mem, linked, p, k, call[t].value, a, i, m)
        /\ IsFree(mem[p][SideOf(k, mem[p])])
        /\ a \notin Kept /\ i \notin Kept
    BY <1>1, <2>4, InsertGrows DEF m
  <2>6. m \in Memory
    <3>1. Grew(mem, linked, p, k, call[t].value, a, i, m)
      BY <2>5, GrownFacts
    <3> QED BY <3>1 DEF Grew
  <2>7. Reshape(t, m)
    BY <2>2 DEF m
  <2>8. /\ mem' = m /\ linked' = Reachable(m) /\ linked' \subseteq Node
        /\ dict' \in [Key -> Value \cup {NoValue}]
        /\ owed' \in [Thread -> SUBSET Node] /\ pinned' \in [Thread -> SUBSET Node]
        /\ seen' \in [Thread -> SUBSET (Value \cup {NoValue})]
        /\ owed'[t] = owed[t] \cup (linked \ linked')
        /\ \A u \in Thread \ {t} : owed'[u] = owed[u]
        /\ \A u \in Thread :
              pinned'[u] = IF pc[u] = "idle" THEN {} ELSE pinned[u] \cup (linked \ linked')
    BY <2>6, <2>7, Reshaped
  <2>9. /\ Gentle /\ Tree(mem, linked)' /\ Words(mem, Kept)' /\ mem' \in Memory
        /\ linked' = linked \cup {a, i}
    <3>1. \A u \in Thread : owed'[u] \subseteq owed[u] \cup (linked \ linked')
                            /\ pinned'[u] \subseteq pinned[u] \cup (linked \ linked')
      BY <2>8
    <3>2. GrowAt(mem, linked, p, k, call[t].value, a, i, mem')
      BY <2>5, <2>8
    <3> HIDE DEF p, k
    <3> QED BY <3>1, <3>2, <2>5, <2>8, GrowStep
  <2>10. /\ TypeOK /\ NoLocals \in Locals /\ Calls(t) /\ Retiring(t) /\ Pins(t)
    BY Mine, Types
  <2>11. loc' \in [Thread -> Locals] /\ loc'[t] = NoLocals /\ \A u \in Thread \ {t} : loc'[u] = loc[u]
    BY <2>3, <2>10 DEF TypeOK
  <2>12. pc'[t] = "return" /\ \A u \in Thread \ {t} : pc'[u] = pc[u]
    BY <2>3, <2>10 DEF TypeOK
  <2>13. TypeOK'
    BY <2>3, <2>8, <2>9, <2>10, <2>11 DEF TypeOK, Memory, WordType, Call, NoCall
  <2>14. owed'[t] = {} /\ pinned'[t] = pinned[t] \cup (linked \ linked')
    BY <1>1, <2>8, <2>9, <2>10 DEF Retiring
  <2>15. Pins(t)'
    BY <2>9, <2>12, <2>14, StillPinned
  <2>16. Held(t)' = {}
    BY <2>11 DEF Held, NoLocals, NullWord, Word
  <2>17. call'[t] # NoCall
    BY <1>1, <2>3, <2>10 DEF Calls
  <2>18. Calls(t)' /\ Seeking(t)' /\ Removing(t)' /\ Retiring(t)'
    BY <2>11, <2>12, <2>14, <2>17 DEF Calls, Seeking, Removing, Retiring, Injected, NoLocals
  <2>19. Local(t)'
    BY <2>15, <2>16, <2>18 DEF Local
  <2>20. \A u \in Thread \ {t} : Stands(u)
    BY <2>3, <2>8, <2>11, <2>12 DEF Stands
  <2>21. Grows(t)
    <3>1. a \in Node \ Kept /\ i \in Node \ Kept
      BY <2>5 DEF Available
    <3> HIDE DEF m
    <3> QED BY <3>1, <2>5, <2>8 DEF Grows
  <2>22. SafeInv'
    BY <2>9, <2>13, <2>19, <2>20, SafeStep
  <2> QED BY <2>9, <2>20, <2>21, <2>22 DEF Moves
<1> QED BY <1>2, <1>3

(* A step that cuts nodes off is gentle and keeps the tree and the words. *)
LEMMA CutStep ==
  ASSUME SafeInv, NEW t \in Thread, NEW lum, NEW d, NEW parent, NEW s,
         CutAt(mem, linked, lum, d, parent, s, mem'), linked' = Reachable(mem'),
         \A u \in Thread : owed'[u] \subseteq owed[u] \cup (linked \ linked')
                           /\ pinned'[u] \subseteq pinned[u] \cup (linked \ linked')
  PROVE  /\ Gentle /\ Tree(mem, linked)' /\ Words(mem, Kept)' /\ mem' \in Memory
         /\ linked' \subseteq linked
<1>1. /\ TypeOK /\ mem \in Memory /\ Words(mem, Kept) /\ linked \subseteq Kept /\ Kept \in SUBSET Node
  BY Mine
<1>2. linked' \subseteq linked
  BY CutBasics
<1>3. Tree(mem', linked') /\ \A n \in Node : IsLeaf(mem'[n]) <=> IsLeaf(mem[n])
  BY CutTree
<1>4. OneWord(mem, mem', lum, d, Promoted(mem[parent][s])) /\ IsFree(mem[lum][d])
  BY DEF CutAt
<1>5. /\ mem' \in Memory
      /\ \A n \in Node : mem'[n].key = mem[n].key /\ mem'[n].value = mem[n].value
      /\ \A n \in Node, r \in Sides : n # lum \/ r # d => mem'[n][r] = mem[n][r]
  BY <1>4 DEF OneWord
<1>6. Calm
  BY <1>1, <1>3, <1>4, <1>5 DEF Calm
<1>7. \A n \in linked \ linked' : ~IsLeaf(mem[n]) => \A r \in Sides : ~IsFree(mem[n][r])
  BY CutGone
<1>8. Gentle
  BY <1>2, <1>6, <1>7 DEF Gentle
<1>9. Words(mem', Kept)
  BY <1>1, CutWords
<1>10. Kept' \subseteq Kept
  <2>1. Kept' \subseteq Kept \cup ({} \cap Node)
    BY <1>2, KeptNext
  <2> QED BY <2>1
<1>11. Words(mem', Kept')
  BY <1>9, <1>10 DEF Words
<1>12. Tree(mem, linked)' /\ Words(mem, Kept)'
  BY <1>3, <1>11 DEF Tree, Words
<1> QED BY <1>2, <1>5, <1>8, <1>12

(* The CAS of a deletion works only on a word of the tree that is free and *)
(* leads along marked words to the parent: it is a cut that CutAt          *)
(* describes.                                                              *)
LEMMA SwingCuts ==
  ASSUME SafeInv, NEW t \in Thread, pc[t] \in {"seek", "swing"}, NEW pS,
         NEW s \in Sides, mem[loc[t].parent][s].mark,
         pS.addr = mem[loc[t].parent][s].addr, pS.flag = mem[loc[t].parent][s].flag,
         mem[loc[t].lum][Side(t, loc[t].lum)] = loc[t].lumC
  PROVE  /\ CutAt(mem, linked, loc[t].lum, Side(t, loc[t].lum), loc[t].parent, s,
                  [mem EXCEPT ![loc[t].lum][Side(t, loc[t].lum)] = Promoted(pS)])
         /\ loc[t].lumC.addr \in Near(t)
<1> DEFINE l == loc[t]
           p == l.parent
           x == l.lum
           d == Side(t, x)
           q == mem[p][s]
<1>1. /\ TypeOK /\ mem \in Memory /\ Held(t) \subseteq Near(t) /\ Near(t) \subseteq Kept
      /\ Kept \in SUBSET Node /\ Seeking(t) /\ Tree(mem, linked) /\ Words(mem, linked)
  BY Mine
<1>2. /\ p \in Kept /\ p \in Node /\ d \in Sides
  BY <1>1, ParentSide, SideFacts DEF Side
<1>3. p # Root
  BY <1>1, <1>2, RootWords DEF IsFree
<1>4. /\ x # NULL /\ ~IsLeaf(mem[x]) /\ l.lumC.addr # NULL /\ IsFree(l.lumC)
      /\ p \in Chain(mem, l.lumC.addr)
  BY <1>1, <1>3 DEF Seeking
<1>5. x \in Near(t) /\ l.lumC.addr \in Near(t) /\ x \in Node
  BY <1>1, <1>4 DEF Held
<1>6. x \in linked
  BY <1>2, <1>4, <1>5, FreeInTree
<1>7. q \in WordType
  BY <1>1, <1>2, WordOf
<1>8. Promoted(pS) = Promoted(q)
  BY DEF Promoted
<1>9. Promoted(q) \in WordType
  BY <1>7 DEF Promoted, Word, WordType
<1>10. OneWord(mem, [mem EXCEPT ![x][d] = Promoted(q)], x, d, Promoted(q))
  <2> DEFINE w == Promoted(q)
  <2>1. w \in WordType
    BY <1>9
  <2> HIDE DEF w, x, d
  <2>2. OneWord(mem, [mem EXCEPT ![x][d] = w], x, d, w)
    BY <2>1, <1>1, <1>2, <1>5, PutWord
  <2> QED BY <2>2 DEF w
<1>11. mem[x][d] = l.lumC
  OBVIOUS
<1> HIDE DEF x, d, q, p, l
<1>12. CutAt(mem, linked, x, d, p, s, [mem EXCEPT ![x][d] = Promoted(q)])
  BY <1>1, <1>2, <1>4, <1>6, <1>10, <1>11 DEF CutAt, q, p, l
<1> QED BY <1>5, <1>8, <1>12 DEF x, d, p, l, q

(* The thread that has cut nodes off owes the retirement of all of them.   *)
LEMMA NewDebt ==
  ASSUME NEW m, NEW L, NEW lum, NEW d, NEW parent, NEW s, NEW m2, CutAt(m, L, lum, d, parent, s, m2)
  PROVE  Debt(m2, L \ Reachable(m2), m[parent][s].addr, <<[node |-> m[lum][d].addr, flagged |-> FALSE]>>)
<1> DEFINE O == L \ Reachable(m2)
           q == m[parent][s].addr
           x == m[lum][d].addr
           todo == <<[node |-> x, flagged |-> FALSE]>>
<1>1. /\ Tree(m, L) /\ m \in Memory /\ L \in SUBSET Node /\ lum \in L /\ d \in Sides /\ s \in Sides
      /\ parent \in Chain(m, x)
  BY TreeFacts DEF CutAt
<1>2. /\ lum \in Reachable(m2) /\ q \in Reachable(m2) /\ q # NULL /\ ~IsLeaf(m[parent]) /\ x \in L /\ x # NULL
      /\ \A n \in Node, r \in Sides : n # lum \/ r # d => m2[n][r] = m[n][r]
  BY CutBasics
<1>3. /\ \A n \in O, r \in Sides : m[n][r].addr # NULL => m[n][r].addr \in O \cup {q}
      /\ \A n \in O, r \in Sides :
           ~IsLeaf(m[n]) /\ m[n][r].addr # q /\ IsLeaf(m[m[n][r].addr]) => m[n][r].flag
      /\ x \in O
  BY CutParts
<1>4. \A n \in O : ~IsLeaf(m[n]) => \E r \in Sides : m[n][r].flag
  BY CutGone
<1>5. O \subseteq Reach(Below(m2, q, O), {x})
  BY CutCover
<1>6. \A n \in Node : IsLeaf(m2[n]) <=> IsLeaf(m[n])
  BY CutTree
<1>7. \A n \in O, r \in Sides : m2[n][r] = m[n][r]
  BY <1>1, <1>2
<1>8. \A n, p \in L : \A r, u \in Sides :
        m[n][r].addr = m[p][u].addr /\ m[n][r].addr # NULL => n = p /\ r = u
  BY <1>1, TreeFacts
<1>9. ~IsLeaf(m[x])
  <2>1. SUFFICES ASSUME IsLeaf(m[x]) PROVE parent = x
    BY <1>2
  <2>2. \A r \in Sides : m[x][r].addr = NULL
    BY <2>1, <1>1, <1>2, TreeFacts DEF NullWord, Word
  <2>3. SUFFICES ASSUME parent # x PROVE FALSE
    OBVIOUS
  <2>4. \E r \in Sides : m[x][r].mark /\ m[x][r].addr \in Node /\ parent \in Chain(m, m[x][r].addr)
    BY <2>3, <1>1, <1>2, ChainStep
  <2> QED BY <2>2, <2>4, NodeFacts
<1>10. ASSUME NEW n \in O PROVE x \notin Kids(m2)[n]
  <2>1. SUFFICES ASSUME x \in Kids(m2)[n] PROVE FALSE
    OBVIOUS
  <2>2. n \in Node /\ n \in L
    BY <1>1
  <2>3. PICK r \in Sides : x = m2[n][r].addr
    BY <2>1, <2>2 DEF Kids
  <2>4. m[n][r].addr = x
    BY <2>3, <1>7
  <2>5. n = lum
    BY <2>2, <2>4, <1>1, <1>2, <1>8
  <2> QED BY <2>5, <1>2
<1>11. ASSUME NEW n \in O, ~IsLeaf(m2[n])
       PROVE  /\ \E r \in Sides : m2[n][r].flag
              /\ \A r \in Sides : m2[n][r].addr # q =>
                  /\ m2[n][r].addr \in O
                  /\ IsLeaf(m2[m2[n][r].addr]) => m2[n][r].flag
                  /\ \A p \in O, u \in Sides : m2[p][u].addr = m2[n][r].addr => p = n /\ u = r
  <2>1. n \in Node /\ ~IsLeaf(m[n])
    BY <1>1, <1>6, <1>11
  <2>2. \E r \in Sides : m2[n][r].flag
    BY <2>1, <1>4, <1>7
  <2>3. ASSUME NEW r \in Sides, m2[n][r].addr # q
        PROVE  /\ m2[n][r].addr \in O
               /\ IsLeaf(m2[m2[n][r].addr]) => m2[n][r].flag
               /\ \A p \in O, u \in Sides : m2[p][u].addr = m2[n][r].addr => p = n /\ u = r
    <3>1. m2[n][r] = m[n][r] /\ m[n][r].addr # NULL
      BY <2>1, <1>1, <1>7, TreeFacts
    <3>2. m[n][r].addr \in O /\ m[n][r].addr \in Node
      BY <3>1, <2>3, <1>1, <1>3
    <3>3. IsLeaf(m2[m2[n][r].addr]) => m2[n][r].flag
      BY <3>1, <3>2, <2>1, <2>3, <1>3, <1>6
    <3>4. \A p \in O, u \in Sides : m2[p][u].addr = m2[n][r].addr => p = n /\ u = r
      BY <3>1, <1>7, <1>8
    <3> QED BY <3>1, <3>2, <3>3, <3>4
  <2> QED BY <2>2, <2>3
<1>12. DOMAIN todo = {1} /\ todo[1].node = x
  OBVIOUS
<1> HIDE DEF todo
<1>13. {todo[i].node : i \in DOMAIN todo} = {x}
  BY <1>12
<1>14. x \in Node /\ ~IsLeaf(m2[x])
  BY <1>1, <1>2, <1>6, <1>9
<1> HIDE DEF O, q, x
<1>15. /\ q # NULL /\ q \notin O
       /\ O \subseteq Reach(Below(m2, q, O), {todo[i].node : i \in DOMAIN todo})
  BY <1>2, <1>5, <1>13 DEF O
<1>16. \A i \in DOMAIN todo : todo[i].node # q =>
          /\ todo[i].node \in O
          /\ IsLeaf(m2[todo[i].node]) => todo[i].flagged
          /\ \A j \in DOMAIN todo : j # i => todo[j].node # todo[i].node
          /\ \A n \in O : todo[i].node \notin Kids(m2)[n]
  BY <1>3, <1>10, <1>12, <1>14
<1>17. Debt(m2, O, q, todo)
  BY <1>11, <1>15, <1>16 DEF Debt
<1> QED BY <1>17 DEF O, q, x, todo

(* The CAS of a deletion works. *)
LEMMA SwingWorks ==
  ASSUME SafeInv, NEW t \in Thread, pc[t] \in {"seek", "swing"}, NEW from, NEW pS \in WordType,
         Swing(t, from, pS),
         NEW s \in Sides, mem[loc[t].parent][s].mark,
         pS.addr = mem[loc[t].parent][s].addr, pS.flag = mem[loc[t].parent][s].flag,
         mem[loc[t].lum][Side(t, loc[t].lum)] = loc[t].lumC
  PROVE  SafeInv' /\ Moves(t)
<1> DEFINE l == loc[t]
           x == l.lum
           d == Side(t, x)
           m == [mem EXCEPT ![x][d] = Promoted(pS)]
           todo == <<[node |-> l.lumC.addr, flagged |-> FALSE]>>
           w == [NoLocals EXCEPT !.pS = pS, !.leaf = l.leaf, !.retval = l.retval, !.todo = todo]
           gone == linked \ linked'
           q == mem[l.parent][s].addr
<1>1. /\ Reshape(t, m) /\ pc' = [pc EXCEPT ![t] = "retire"] /\ loc' = [loc EXCEPT ![t] = w]
      /\ UNCHANGED <<call, answer, script>>
  BY DEF Swing, GoTo
<1>2. /\ TypeOK /\ mem \in Memory /\ Held(t) \subseteq Near(t) /\ Near(t) \subseteq Kept
      /\ Kept \in SUBSET Node /\ Calls(t) /\ Retiring(t) /\ Pins(t)
      /\ l \in Locals /\ NoLocals \in Locals
  BY Mine, Types
<1>3. CutAt(mem, linked, x, d, l.parent, s, m) /\ l.lumC.addr \in Near(t)
  BY SwingCuts
<1>4. l.lumC.addr = mem[x][d].addr
  OBVIOUS
<1> HIDE DEF m, x, d
<1>5. m \in Memory
  BY <1>3 DEF CutAt, OneWord
<1>6. /\ mem' = m /\ linked' = Reachable(m) /\ linked' \subseteq Node
      /\ dict' \in [Key -> Value \cup {NoValue}]
      /\ owed' \in [Thread -> SUBSET Node] /\ pinned' \in [Thread -> SUBSET Node]
      /\ seen' \in [Thread -> SUBSET (Value \cup {NoValue})]
      /\ owed'[t] = owed[t] \cup gone
      /\ \A u \in Thread \ {t} : owed'[u] = owed[u]
      /\ \A u \in Thread : pinned'[u] = IF pc[u] = "idle" THEN {} ELSE pinned[u] \cup gone
  BY <1>1, <1>5, Reshaped
<1>7. /\ Gentle /\ Tree(mem, linked)' /\ Words(mem, Kept)' /\ mem' \in Memory
      /\ linked' \subseteq linked
  <2>1. \A u \in Thread : owed'[u] \subseteq owed[u] \cup (linked \ linked')
                          /\ pinned'[u] \subseteq pinned[u] \cup (linked \ linked')
    BY <1>6
  <2>2. CutAt(mem, linked, x, d, l.parent, s, mem')
    BY <1>3, <1>6
  <2> QED BY <2>1, <2>2, <1>6, CutStep
<1>8. /\ q \in linked' /\ q # NULL /\ pS.addr = q
  <2>1. q \in Reachable(m) /\ q # NULL
    BY <1>3, CutBasics
  <2> QED BY <2>1, <1>6
<1>9. Debt(mem', gone, q, todo)
  <2>1. Debt(m, linked \ Reachable(m), q, <<[node |-> mem[x][d].addr, flagged |-> FALSE]>>)
    <3> HIDE DEF l
    <3> QED BY <1>3, NewDebt
  <2> QED BY <2>1, <1>4, <1>6
<1>10. w \in Locals /\ w.leaf = l.leaf
  <2>1. l.lumC.addr \in Node
    BY <1>2, <1>3
  <2>2. todo \in Seq([node : Node, flagged : BOOLEAN])
    BY <2>1
  <2> HIDE DEF todo
  <2> QED BY <2>2, <1>2 DEF Locals, NoLocals
<1>11. /\ w.lum = NULL /\ w.lumC = NullWord /\ w.parent = NULL /\ w.pL = NullWord /\ w.cur = NULL
       /\ w.pS = pS /\ w.todo = todo
  BY DEF NoLocals
<1>12. todo # <<>> /\ DOMAIN todo = {1} /\ todo[1].node = l.lumC.addr
  OBVIOUS
<1> HIDE DEF w, todo
<1>13. loc' \in [Thread -> Locals] /\ loc'[t] = w /\ \A u \in Thread \ {t} : loc'[u] = loc[u]
  BY <1>1, <1>2, <1>10 DEF TypeOK
<1>14. pc'[t] = "retire" /\ \A u \in Thread \ {t} : pc'[u] = pc[u]
  BY <1>1, <1>2 DEF TypeOK
<1>15. TypeOK'
  BY <1>1, <1>2, <1>6, <1>7, <1>13 DEF TypeOK, Memory, WordType, Call, NoCall
<1>16. owed'[t] = gone /\ pinned'[t] = pinned[t] \cup gone
  BY <1>2, <1>6 DEF Retiring
<1>17. Pins(t)' /\ Near(t) \subseteq Near(t)'
  BY <1>7, <1>14, <1>16, StillPinned
<1>18. Held(t)' \subseteq Near(t)'
  <2>1. Held(t)' = {q, l.leaf, l.lumC.addr} \ {NULL}
    BY <1>8, <1>10, <1>11, <1>12, <1>13 DEF Held, NullWord, Word
  <2>2. {l.leaf} \ {NULL} \subseteq Near(t)
    BY <1>2 DEF Held
  <2>3. q \in Near(t)'
    BY <1>8 DEF Near
  <2> QED BY <2>1, <2>2, <2>3, <1>3, <1>17
<1>19. Retiring(t)'
  BY <1>8, <1>9, <1>11, <1>12, <1>13, <1>14, <1>16 DEF Retiring
<1>20. Calls(t)'
  BY <1>1, <1>2, <1>10, <1>13, <1>14 DEF Calls, Injected
<1>21. Seeking(t)' /\ Removing(t)'
  BY <1>14 DEF Seeking, Removing
<1>22. Local(t)'
  BY <1>17, <1>18, <1>19, <1>20, <1>21 DEF Local
<1>23. \A u \in Thread \ {t} : Stands(u)
  BY <1>1, <1>6, <1>13, <1>14 DEF Stands
<1>24. Cuts(t)
  BY <1>3, <1>6 DEF Cuts, x, d
<1>25. SafeInv'
  BY <1>7, <1>15, <1>22, <1>23, SafeStep
<1> QED BY <1>7, <1>23, <1>24, <1>25 DEF Moves

(* The CAS of a thread that has marked the sibling's word. *)
LEMMA SwingToSiblingSafe ==
  ASSUME SafeInv, NEW t \in Thread, SwingToSibling(t)
  PROVE  SafeInv' /\ Moves(t)
<1> DEFINE l == loc[t]
           s == Sibling(Side(t, l.parent))
<1>1. pc[t] = "swing" /\ Swing(t, "swing", l.pS)
  BY DEF SwingToSibling
<1>2. /\ Removing(t) /\ l \in Locals
  BY Mine, Types
<1>3. /\ Other(t).mark /\ l.pS.addr = Other(t).addr /\ l.pS.flag = Other(t).flag
      /\ l.pS \in WordType
  BY <1>1, <1>2 DEF Removing, Locals
<1>4. s \in Sides /\ Other(t) = mem[l.parent][s]
  BY SideFacts DEF Side, Other
<1>5. CASE mem[l.lum][Side(t, l.lum)] = l.lumC
  BY <1>1, <1>3, <1>4, <1>5, SwingWorks
<1>6. CASE mem[l.lum][Side(t, l.lum)] # l.lumC
  BY <1>1, <1>6, SwingFails
<1> QED BY <1>5, <1>6

(* The CAS of a thread that has met a marked word that is not flagged. *)
LEMMA HelpMarkedSafe ==
  ASSUME SafeInv, NEW t \in Thread, HelpMarked(t)
  PROVE  SafeInv' /\ Moves(t)
<1> DEFINE l == loc[t]
           s == Side(t, l.parent)
<1>1. pc[t] = "seek" /\ l.pL.mark /\ Swing(t, "seek", l.pL)
  BY DEF HelpMarked, Conflict, AtLeaf
<1>2. Seeking(t) /\ l \in Locals
  BY Mine, Types
<1>3. /\ Memo(t).mark /\ Memo(t).addr = l.pL.addr /\ Memo(t).flag = l.pL.flag
      /\ l.pL \in WordType
  BY <1>1, <1>2 DEF Seeking, Locals, IsFree
<1>4. s \in Sides /\ Memo(t) = mem[l.parent][s]
  BY SideFacts DEF Side, Memo
<1>5. CASE mem[l.lum][Side(t, l.lum)] = l.lumC
  BY <1>1, <1>3, <1>4, <1>5, SwingWorks
<1>6. CASE mem[l.lum][Side(t, l.lum)] # l.lumC
  BY <1>1, <1>6, SwingFails
<1> QED BY <1>5, <1>6

-----------------------------------------------------------------------------
(* retireDeletedNodes *)
Entry == [node : Node, flagged : BOOLEAN]

(* A set of nodes covers O from those of todo; one of them is taken away   *)
(* and what is below it is put in its place.                               *)
LEMMA CoverLess ==
  ASSUME NEW m \in Memory, NEW O \in SUBSET Node, NEW q, q \notin O, NEW v, NEW from \in SUBSET Node,
         NEW from2 \in SUBSET Node, O \subseteq Reach(Below(m, q, O), from),
         from \subseteq from2 \cup {v}, v \in O \cup {q},
         v \in O => Kids(m)[v] \ {q} \subseteq from2
  PROVE  O \ {v} \subseteq Reach(Below(m, q, O \ {v}), from2)
<1> DEFINE R == Reach(Below(m, q, O \ {v}), from2)
           S == (R \cup {v}) \cap Node
<1>1. /\ Below(m, q, O) \in [Node -> SUBSET Node]
      /\ Below(m, q, O \ {v}) \in [Node -> SUBSET Node]
      /\ Kids(m) \in [Node -> SUBSET Node]
  BY Steps
<1>2. /\ from2 \subseteq R /\ R \subseteq Node
      /\ ClosedUnder(Below(m, q, O \ {v}), R)
  BY <1>1, ReachLeast
<1> HIDE DEF R
<1>3. S \in SUBSET Node /\ from \subseteq S
  BY <1>2
<1>4. ClosedUnder(Below(m, q, O), S)
  <2> SUFFICES ASSUME NEW n \in S PROVE Below(m, q, O)[n] \subseteq S
    BY DEF ClosedUnder
  <2>0. n \in Node
    BY <1>3
  <2>1. Below(m, q, O)[n] = IF n \in O THEN Kids(m)[n] \ {q} ELSE {}
    BY <2>0 DEF Below
  <2>2. Kids(m)[n] \subseteq Node
    BY <2>0, <1>1
  <2>3. CASE n \notin O
    BY <2>1, <2>3
  <2>4. CASE n \in O /\ n = v
    BY <2>1, <2>2, <2>4, <1>2
  <2>5. CASE n \in O /\ n # v
    <3>1. n \in R /\ Below(m, q, O \ {v})[n] = Kids(m)[n] \ {q}
      BY <2>0, <2>5 DEF Below
    <3>2. Kids(m)[n] \ {q} \subseteq R
      BY <3>1, <1>2 DEF ClosedUnder
    <3> QED BY <3>2, <2>1, <2>2, <2>5
  <2> QED BY <2>3, <2>4, <2>5
<1> HIDE DEF S
<1>5. Reach(Below(m, q, O), from) \subseteq S
  BY <1>1, <1>3, <1>4, ReachLeast
<1>6. O \ {v} \subseteq R
  BY <1>5 DEF S
<1> QED BY <1>6 DEF R

(* The call at the head retires its node; the calls that come next retire  *)
(* the rest of what is owed.                                               *)
LEMMA DebtLess ==
  ASSUME NEW m \in Memory, Shape(m), NEW O \in SUBSET Node, NEW q, NEW todo \in Seq(Entry), todo # <<>>,
         Debt(m, O, q, todo), Head(todo).node # q,
         NEW more \in Seq(Entry),
         IsLeaf(m[Head(todo).node]) => more = <<>>,
         ~IsLeaf(m[Head(todo).node]) =>
           more = <<[node |-> m[Head(todo).node]["left"].addr, flagged |-> m[Head(todo).node]["left"].flag],
                    [node |-> m[Head(todo).node]["right"].addr, flagged |-> m[Head(todo).node]["right"].flag]>>
  PROVE  Debt(m, O \ {Head(todo).node}, q, more \o Tail(todo))
<1> DEFINE v == Head(todo).node
           rest == Tail(todo)
           todo2 == more \o rest
           c == Len(more)
           side(j) == IF j = 1 THEN "left" ELSE "right"
           O2 == O \ {v}
<1>1. /\ Len(todo) \in Nat /\ Len(todo) >= 1 /\ 1 \in DOMAIN todo /\ v = todo[1].node
      /\ DOMAIN todo = 1 .. Len(todo) /\ \A j \in DOMAIN todo : todo[j] \in Entry
  OBVIOUS
<1>2. /\ rest \in Seq(Entry) /\ Len(rest) = Len(todo) - 1
      /\ \A j \in 1 .. Len(todo) - 1 : rest[j] = todo[j + 1]
  OBVIOUS
<1>3. c \in Nat /\ DOMAIN more = 1 .. c
  OBVIOUS
<1>4. /\ todo2 \in Seq(Entry) /\ DOMAIN todo2 = 1 .. c + Len(todo) - 1
      /\ \A i \in 1 .. c : todo2[i] = more[i]
      /\ \A i \in c + 1 .. c + Len(todo) - 1 : todo2[i] = todo[i - c + 1] /\ i - c + 1 \in DOMAIN todo /\ i - c + 1 # 1
  <2>1. /\ todo2 \in Seq(Entry) /\ DOMAIN todo2 = 1 .. c + Len(rest)
        /\ \A i \in 1 .. c : todo2[i] = more[i]
        /\ \A i \in c + 1 .. c + Len(rest) : todo2[i] = rest[i - c]
    BY <1>2
  <2> HIDE DEF rest, todo2, c
  <2>2. ASSUME NEW i \in c + 1 .. c + Len(todo) - 1
        PROVE  todo2[i] = todo[i - c + 1] /\ i - c + 1 \in DOMAIN todo /\ i - c + 1 # 1
    BY <2>1, <1>1, <1>2, <1>3
  <2> QED BY <2>1, <2>2, <1>1, <1>2, <1>3
<1>5. /\ v \in O /\ (IsLeaf(m[v]) => todo[1].flagged)
      /\ \A j \in DOMAIN todo : j # 1 => todo[j].node # v
      /\ \A n \in O : v \notin Kids(m)[n]
  BY <1>1 DEF Debt
<1>6. /\ q # NULL /\ q \notin O
      /\ \A i \in DOMAIN todo : todo[i].node # q =>
          /\ todo[i].node \in O
          /\ IsLeaf(m[todo[i].node]) => todo[i].flagged
          /\ \A j \in DOMAIN todo : j # i => todo[j].node # todo[i].node
          /\ \A n \in O : todo[i].node \notin Kids(m)[n]
  BY DEF Debt
<1>7. \A n \in O : ~IsLeaf(m[n]) =>
        /\ \E s \in Sides : m[n][s].flag
        /\ \A s \in Sides : m[n][s].addr # q =>
             /\ m[n][s].addr \in O
             /\ IsLeaf(m[m[n][s].addr]) => m[n][s].flag
             /\ \A p \in O, r \in Sides : m[p][r].addr = m[n][s].addr => p = n /\ r = s
  BY DEF Debt
<1>8. \A n \in O : \A x : x \in Kids(m)[n] <=> x # NULL /\ \E s \in Sides : x = m[n][s].addr
  BY Steps
<1>9. ASSUME NEW i \in 1 .. c
      PROVE  /\ ~IsLeaf(m[v]) /\ side(i) \in Sides
             /\ more[i].node = m[v][side(i)].addr /\ more[i].flagged = m[v][side(i)].flag
             /\ \A j \in 1 .. c : j # i => side(j) # side(i)
  <2>1. ~IsLeaf(m[v])
    <3>1. SUFFICES ASSUME IsLeaf(m[v]) PROVE FALSE
      OBVIOUS
    <3>2. c = 0
      BY <3>1
    <3> QED BY <3>2
  <2>2. more = <<[node |-> m[v]["left"].addr, flagged |-> m[v]["left"].flag],
                 [node |-> m[v]["right"].addr, flagged |-> m[v]["right"].flag]>>
    BY <2>1
  <2>3. c = 2
    BY <2>2
  <2>4. i = 1 \/ i = 2
    BY <2>3
  <2> QED BY <2>1, <2>2, <2>3, <2>4, SideFacts
<1>10. ~IsLeaf(m[v]) => \A s \in Sides : \E i \in 1 .. c : more[i].node = m[v][s].addr
  <2>1. SUFFICES ASSUME ~IsLeaf(m[v]), NEW s \in Sides PROVE \E i \in 1 .. c : more[i].node = m[v][s].addr
    OBVIOUS
  <2>2. more = <<[node |-> m[v]["left"].addr, flagged |-> m[v]["left"].flag],
                 [node |-> m[v]["right"].addr, flagged |-> m[v]["right"].flag]>>
    BY <2>1
  <2>3. c = 2 /\ more[1].node = m[v]["left"].addr /\ more[2].node = m[v]["right"].addr
    BY <2>2
  <2>4. s = "left" \/ s = "right"
    BY DEF Sides
  <2> QED BY <2>3, <2>4
<1> HIDE DEF v, rest, todo2, c, side
<1>11. O2 \in SUBSET Node /\ O2 \subseteq O /\ v \in Node /\ NULL \notin Node
  BY <1>5, NodeFacts
<1> HIDE DEF O2
<1>12. ASSUME NEW i \in 1 .. c, more[i].node # q
       PROVE  /\ more[i].node \in O /\ more[i].node \in Kids(m)[v]
              /\ IsLeaf(m[more[i].node]) => more[i].flagged
              /\ \A p \in O, r \in Sides : m[p][r].addr = more[i].node => p = v /\ r = side(i)
  BY <1>5, <1>7, <1>8, <1>9, <1>11, <1>12
<1>13. ASSUME NEW i \in DOMAIN todo2, todo2[i].node # q
       PROVE  /\ todo2[i].node \in O2
              /\ IsLeaf(m[todo2[i].node]) => todo2[i].flagged
              /\ \A j \in DOMAIN todo2 : j # i => todo2[j].node # todo2[i].node
              /\ \A n \in O2 : todo2[i].node \notin Kids(m)[n]
  <2>1. \A j \in DOMAIN todo2 :
          \/ j \in 1 .. c /\ todo2[j] = more[j]
          \/ /\ j \in c + 1 .. c + Len(todo) - 1 /\ todo2[j] = todo[j - c + 1]
             /\ j - c + 1 \in DOMAIN todo /\ j - c + 1 # 1
    BY <1>1, <1>3, <1>4
  <2>2. CASE i \in 1 .. c /\ todo2[i] = more[i]
    <3>1. /\ more[i].node \in O /\ more[i].node \in Kids(m)[v]
          /\ IsLeaf(m[more[i].node]) => more[i].flagged
          /\ \A p \in O, r \in Sides : m[p][r].addr = more[i].node => p = v /\ r = side(i)
      BY <2>2, <1>12, <1>13
    <3>2. more[i].node # v
      BY <3>1, <1>5
    <3>3. ASSUME NEW j \in DOMAIN todo2, j # i PROVE todo2[j].node # todo2[i].node
      <4>1. CASE j \in 1 .. c /\ todo2[j] = more[j]
        <5>1. side(j) # side(i) /\ side(j) \in Sides /\ more[j].node = m[v][side(j)].addr
          BY <4>1, <2>2, <3>3, <1>9
        <5> QED BY <5>1, <4>1, <2>2, <3>1, <1>5
      <4>2. CASE /\ todo2[j] = todo[j - c + 1] /\ j - c + 1 \in DOMAIN todo
        <5>1. SUFFICES ASSUME todo[j - c + 1].node = more[i].node PROVE FALSE
          BY <4>2, <2>2
        <5>2. todo[j - c + 1].node # q
          BY <5>1, <2>2, <1>13
        <5>3. todo[j - c + 1].node \notin Kids(m)[v]
          BY <5>2, <4>2, <1>5, <1>6
        <5> QED BY <5>1, <5>3, <3>1
      <4> QED BY <4>1, <4>2, <2>1
    <3>4. ASSUME NEW n \in O2 PROVE more[i].node \notin Kids(m)[n]
      <4>1. SUFFICES ASSUME more[i].node \in Kids(m)[n] PROVE n = v
        BY <4>1 DEF O2
      <4>2. n \in O
        BY <1>11
      <4>3. \E r \in Sides : more[i].node = m[n][r].addr
        BY <4>1, <4>2, <1>8
      <4> QED BY <4>2, <4>3, <3>1
    <3> QED BY <3>1, <3>2, <3>3, <3>4, <2>2 DEF O2
  <2>3. CASE /\ i \in c + 1 .. c + Len(todo) - 1 /\ todo2[i] = todo[i - c + 1]
             /\ i - c + 1 \in DOMAIN todo /\ i - c + 1 # 1
    <3> DEFINE k == i - c + 1
    <3>1. /\ todo[k].node \in O
          /\ IsLeaf(m[todo[k].node]) => todo[k].flagged
          /\ \A j \in DOMAIN todo : j # k => todo[j].node # todo[k].node
          /\ \A n \in O : todo[k].node \notin Kids(m)[n]
      BY <2>3, <1>6, <1>13
    <3>2. todo[k].node # v
      BY <2>3, <1>5
    <3>3. ASSUME NEW j \in DOMAIN todo2, j # i PROVE todo2[j].node # todo2[i].node
      <4>1. CASE j \in 1 .. c /\ todo2[j] = more[j]
        <5>1. more[j].node = m[v][side(j)].addr /\ side(j) \in Sides
          BY <4>1, <1>9
        <5>2. SUFFICES ASSUME more[j].node = todo[k].node PROVE FALSE
          BY <4>1, <2>3
        <5>3. more[j].node # NULL
          BY <5>2, <3>1, <1>11
        <5>4. more[j].node \in Kids(m)[v]
          BY <5>1, <5>3, <1>5, <1>8
        <5> QED BY <5>2, <5>4, <3>1, <1>5
      <4>2. CASE /\ j \in c + 1 .. c + Len(todo) - 1 /\ todo2[j] = todo[j - c + 1] /\ j - c + 1 \in DOMAIN todo
        <5>1. j - c + 1 # k
          BY <4>2, <3>3, <2>3, <1>1, <1>3
        <5> QED BY <5>1, <4>2, <2>3, <3>1
      <4> QED BY <4>1, <4>2, <2>1
    <3> QED BY <3>1, <3>2, <3>3, <2>3, <1>11 DEF O2
  <2> QED BY <2>1, <2>2, <2>3
<1>14. ASSUME NEW n \in O2, ~IsLeaf(m[n])
       PROVE  /\ \E s \in Sides : m[n][s].flag
              /\ \A s \in Sides : m[n][s].addr # q =>
                  /\ m[n][s].addr \in O2
                  /\ IsLeaf(m[m[n][s].addr]) => m[n][s].flag
                  /\ \A p \in O2, r \in Sides : m[p][r].addr = m[n][s].addr => p = n /\ r = s
  <2>1. n \in O
    BY <1>11
  <2>2. /\ \E s \in Sides : m[n][s].flag
        /\ \A s \in Sides : m[n][s].addr # q =>
             /\ m[n][s].addr \in O
             /\ IsLeaf(m[m[n][s].addr]) => m[n][s].flag
             /\ \A p \in O, r \in Sides : m[p][r].addr = m[n][s].addr => p = n /\ r = s
    BY <2>1, <1>7, <1>14
  <2>3. ASSUME NEW s \in Sides, m[n][s].addr \in O PROVE m[n][s].addr # v
    <3>1. m[n][s].addr \in Kids(m)[n]
      BY <2>1, <2>3, <1>8, <1>11
    <3> QED BY <3>1, <2>1, <1>5
  <2> QED BY <2>2, <2>3, <1>11 DEF O2
<1> DEFINE from == {todo[i].node : i \in DOMAIN todo}
           from2 == {todo2[i].node : i \in DOMAIN todo2}
<1>15. O2 \subseteq Reach(Below(m, q, O2), from2)
  <2>1. from \in SUBSET Node /\ from2 \in SUBSET Node
    <3>1. \A i \in DOMAIN todo : todo[i].node \in Node
      BY <1>1 DEF Entry
    <3>2. \A i \in DOMAIN todo2 : todo2[i] \in Entry
      <4>1. todo2 \in Seq(Entry)
        BY <1>4
      <4> QED BY ONLY <4>1
    <3>3. \A i \in DOMAIN todo2 : todo2[i].node \in Node
      BY <3>2 DEF Entry
    <3> QED BY <3>1, <3>3
  <2>2. from \subseteq from2 \cup {v}
    <3> SUFFICES ASSUME NEW i \in DOMAIN todo, i # 1 PROVE \E j \in DOMAIN todo2 : todo[i].node = todo2[j].node
      BY <1>1
    <3>1. i + c - 1 \in c + 1 .. c + Len(todo) - 1 /\ (i + c - 1) - c + 1 = i
      BY <1>1, <1>3
    <3>2. todo2[i + c - 1] = todo[i]
      BY <3>1, <1>4
    <3>3. DOMAIN todo2 = 1 .. c + Len(todo) - 1 /\ c + 1 >= 1
      BY <1>3, <1>4
    <3>4. i + c - 1 \in DOMAIN todo2
      BY <3>1, <3>3, <1>1, <1>3
    <3> QED BY <3>2, <3>4
  <2>3. Kids(m)[v] \ {q} \subseteq from2
    <3> SUFFICES ASSUME NEW x \in Kids(m)[v] PROVE \E j \in DOMAIN todo2 : x = todo2[j].node
      OBVIOUS
    <3>1. PICK s \in Sides : x = m[v][s].addr /\ x # NULL
      BY <1>5, <1>8
    <3>2. ~IsLeaf(m[v])
      BY <3>1, <1>11 DEF Shape, NullWord, Word
    <3>3. PICK i \in 1 .. c : more[i].node = x
      BY <3>1, <3>2, <1>10
    <3>4. i \in DOMAIN todo2 /\ todo2[i] = more[i]
      BY <1>1, <1>3, <1>4
    <3> QED BY <3>3, <3>4
  <2>4. O \subseteq Reach(Below(m, q, O), from)
    BY DEF Debt
  <2> HIDE DEF from, from2
  <2> QED BY <2>1, <2>2, <2>3, <2>4, <1>5, <1>6, CoverLess DEF O2
<1>16. Debt(m, O2, q, todo2)
  BY <1>6, <1>11, <1>13, <1>14, <1>15 DEF Debt
<1> QED BY <1>16 DEF O2, todo2, v, rest

(* The call at the head does not retire the node that stays.               *)
LEMMA DebtSkip ==
  ASSUME NEW m \in Memory, NEW O \in SUBSET Node, NEW q, NEW todo \in Seq(Entry), todo # <<>>,
         Debt(m, O, q, todo), Head(todo).node = q
  PROVE  Debt(m, O, q, Tail(todo))
<1> DEFINE rest == Tail(todo)
<1>1. /\ rest \in Seq(Entry) /\ DOMAIN rest = 1 .. Len(todo) - 1 /\ DOMAIN todo = 1 .. Len(todo)
      /\ Len(todo) \in Nat /\ Len(todo) >= 1 /\ todo[1].node = q
      /\ \A j \in DOMAIN rest : rest[j] = todo[j + 1]
      /\ \A j \in DOMAIN todo : todo[j] \in Entry
  OBVIOUS
<1> HIDE DEF rest
<1>2. /\ q # NULL /\ q \notin O
      /\ \A i \in DOMAIN todo : todo[i].node # q =>
          /\ todo[i].node \in O
          /\ IsLeaf(m[todo[i].node]) => todo[i].flagged
          /\ \A j \in DOMAIN todo : j # i => todo[j].node # todo[i].node
          /\ \A n \in O : todo[i].node \notin Kids(m)[n]
  BY DEF Debt
<1>3. \A i \in DOMAIN rest : i + 1 \in DOMAIN todo
  BY <1>1
<1>4. ASSUME NEW i \in DOMAIN rest, rest[i].node # q
      PROVE  /\ rest[i].node \in O
             /\ IsLeaf(m[rest[i].node]) => rest[i].flagged
             /\ \A j \in DOMAIN rest : j # i => rest[j].node # rest[i].node
             /\ \A n \in O : rest[i].node \notin Kids(m)[n]
  <2>1. rest[i] = todo[i + 1] /\ i + 1 \in DOMAIN todo
    BY <1>1, <1>3
  <2>2. ASSUME NEW j \in DOMAIN rest, j # i PROVE rest[j].node # rest[i].node
    <3>1. rest[j] = todo[j + 1] /\ j + 1 \in DOMAIN todo /\ j + 1 # i + 1
      BY <2>2, <1>1, <1>3
    <3> QED BY <3>1, <2>1, <1>2, <1>4
  <2> QED BY <2>1, <2>2, <1>2, <1>4
<1> DEFINE from == {todo[i].node : i \in DOMAIN todo}
           from2 == {rest[i].node : i \in DOMAIN rest}
<1>5. from \in SUBSET Node /\ from2 \in SUBSET Node
  <2>1. \A i \in DOMAIN todo : todo[i].node \in Node
    BY <1>1 DEF Entry
  <2> QED BY <2>1, <1>1, <1>3
<1>6. from \subseteq from2 \cup {q}
  <2> SUFFICES ASSUME NEW i \in DOMAIN todo, i # 1 PROVE \E j \in DOMAIN rest : todo[i].node = rest[j].node
    BY <1>1
  <2>1. i - 1 \in DOMAIN rest /\ (i - 1) + 1 = i
    BY <1>1
  <2> QED BY <2>1, <1>1
<1>7. O \subseteq Reach(Below(m, q, O), from)
  BY DEF Debt
<1>8. O \subseteq Reach(Below(m, q, O), from2)
  <2>1. O \ {q} = O
    BY <1>2
  <2> HIDE DEF from, from2
  <2>2. O \ {q} \subseteq Reach(Below(m, q, O \ {q}), from2)
    BY <1>2, <1>5, <1>6, <1>7, CoverLess
  <2> QED BY <2>1, <2>2
<1>9. \A n \in O : ~IsLeaf(m[n]) =>
        /\ \E s \in Sides : m[n][s].flag
        /\ \A s \in Sides : m[n][s].addr # q =>
             /\ m[n][s].addr \in O
             /\ IsLeaf(m[m[n][s].addr]) => m[n][s].flag
             /\ \A p \in O, r \in Sides : m[p][r].addr = m[n][s].addr => p = n /\ r = s
  BY DEF Debt
<1>10. Debt(m, O, q, rest)
  BY <1>2, <1>4, <1>8, <1>9 DEF Debt
<1> QED BY <1>10 DEF rest

(* No calls are left: everything is retired. *)
LEMMA DebtPaid ==
  ASSUME NEW m \in Memory, NEW O \in SUBSET Node, NEW q, Debt(m, O, q, <<>>)
  PROVE  O = {}
<1> DEFINE from == {<<>>[i].node : i \in DOMAIN <<>>}
<1>1. from = {}
  OBVIOUS
<1>2. O \subseteq Reach(Below(m, q, O), from)
  BY DEF Debt
<1>3. Below(m, q, O) \in [Node -> SUBSET Node]
  BY Steps
<1>4. Reach(Below(m, q, O), {}) \subseteq {}
  BY <1>3, ReachLeast DEF ClosedUnder
<1> QED BY <1>1, <1>2, <1>4

(* What one call of retireDeletedNodes retires, and where it goes on.      *)
LEMMA Visit ==
  ASSUME SafeInv, NEW t \in Thread, pc[t] = "retire"
  PROVE  LET visit == Head(loc[t].todo)
             q == loc[t].pS.addr
         IN  /\ loc[t].todo \in Seq(Entry) /\ loc[t].todo # <<>> /\ visit \in Entry
             /\ Debt(mem, owed[t], q, loc[t].todo)
             /\ Retires(t, visit) <=> visit.node # q
             /\ visit.node # q => visit.node \in owed[t]
             /\ Children(t, visit) \in Seq(Entry)
             /\ visit.node = q \/ IsLeaf(mem[visit.node]) => Children(t, visit) = <<>>
             /\ visit.node # q /\ ~IsLeaf(mem[visit.node]) =>
                  Children(t, visit) =
                    <<[node |-> mem[visit.node]["left"].addr, flagged |-> mem[visit.node]["left"].flag],
                      [node |-> mem[visit.node]["right"].addr, flagged |-> mem[visit.node]["right"].flag]>>
<1> DEFINE todo == loc[t].todo
           visit == Head(todo)
           v == visit.node
           q == loc[t].pS.addr
           O == owed[t]
<1>1. /\ TypeOK /\ mem \in Memory /\ Retiring(t) /\ Pins(t) /\ loc[t] \in Locals /\ Tree(mem, linked)
  BY Mine, Types
<1>2. todo \in Seq(Entry) /\ todo # <<>> /\ Debt(mem, O, q, todo)
  BY <1>1 DEF Retiring, Locals, Entry
<1>3. visit \in Entry /\ visit = todo[1] /\ 1 \in DOMAIN todo
  BY <1>2
<1>4. v \in Node
  BY <1>3 DEF Entry
<1>5. v # q => v \in O /\ (IsLeaf(mem[v]) => visit.flagged)
  BY <1>2, <1>3 DEF Debt
<1>6. v # q /\ ~IsLeaf(mem[v]) => \E s \in Sides : mem[v][s].flag
  BY <1>2, <1>5 DEF Debt
<1>7. Retires(t, visit) <=> v # q
  BY <1>5, <1>6 DEF Retires
<1>8. CASE v = q \/ IsLeaf(mem[v])
  <2>1. Children(t, visit) = <<>>
    BY <1>7, <1>8 DEF Children
  <2>2. Children(t, visit) \in Seq(Entry)
    <3>1. <<>> \in Seq(Entry)
      OBVIOUS
    <3> QED BY ONLY <2>1, <3>1
  <2> QED BY <1>2, <1>3, <1>5, <1>7, <1>8, <2>1, <2>2
<1>9. CASE v # q /\ ~IsLeaf(mem[v])
  <2>1. v \in pinned[t]
    BY <1>1, <1>5, <1>9 DEF Pins
  <2>2. ~IsFree(mem[v]["left"]) /\ ~IsFree(mem[v]["right"])
    BY <2>1, <1>1, <1>9, SideFacts DEF Pins
  <2>3. /\ mem[v]["left"].addr \in Node /\ mem[v]["right"].addr \in Node
        /\ mem[v]["left"].flag \in BOOLEAN /\ mem[v]["right"].flag \in BOOLEAN
    BY <1>1, <1>4, <1>9, TreeFacts, WordOf, SideFacts
  <2> DEFINE x == [node |-> mem[v]["left"].addr, flagged |-> mem[v]["left"].flag]
             y == [node |-> mem[v]["right"].addr, flagged |-> mem[v]["right"].flag]
  <2>4. x \in Entry /\ y \in Entry
    BY <2>3 DEF Entry
  <2>5. Children(t, visit) = <<x>> \o <<y>>
    BY <1>7, <1>9, <2>2 DEF Children
  <2> HIDE DEF x, y
  <2>6. <<x>> \o <<y>> = <<x, y>> /\ <<x, y>> \in Seq(Entry)
    <3>1. <<x>> \in Seq(Entry) /\ <<y>> \in Seq(Entry) /\ <<x, y>> \in Seq(Entry)
      BY ONLY <2>4
    <3>2. <<x>> \o <<y>> \in Seq(Entry) /\ Len(<<x>> \o <<y>>) = 2 /\ Len(<<x, y>>) = 2
      BY ONLY <3>1
    <3>3. \A i \in 1 .. 2 : (<<x>> \o <<y>>)[i] = <<x, y>>[i]
      BY ONLY <3>1
    <3>4. <<x>> \o <<y>> = <<x, y>>
      BY ONLY <3>1, <3>2, <3>3, SeqEqual
    <3> QED BY <3>1, <3>4
  <2>7. Children(t, visit) = <<x, y>>
    BY <2>5, <2>6
  <2> QED BY <1>2, <1>3, <1>5, <1>7, <1>9, <2>6, <2>7 DEF x, y
<1> QED BY <1>8, <1>9

(* One call of retireDeletedNodes. *)
LEMMA RetireSafe ==
  ASSUME SafeInv, NEW t \in Thread, RetireDeletedNodes(t)
  PROVE  SafeInv' /\ Moves(t)
<1> DEFINE l == loc[t]
           visit == Head(l.todo)
           q == l.pS.addr
           v == visit.node
           O2 == IF Retires(t, visit) THEN owed[t] \ {v} ELSE owed[t]
           todo == Children(t, visit) \o Tail(l.todo)
<1>1. /\ pc[t] = "retire" /\ owed' = [owed EXCEPT ![t] = O2] /\ UNCHANGED <<mem, linked, dict>>
  BY DEF RetireDeletedNodes
<1>2. /\ TypeOK /\ mem \in Memory /\ Shape(mem) /\ Retiring(t) /\ Pins(t) /\ Calls(t)
      /\ l \in Locals /\ NoLocals \in Locals /\ Held(t) \subseteq Near(t)
      /\ \A n \in Near(t), s \in Sides : mem[n][s].addr # NULL => mem[n][s].addr \in Near(t)
  BY Mine, Types DEF Tree
<1>3. /\ l.todo \in Seq(Entry) /\ l.todo # <<>> /\ visit \in Entry
      /\ Debt(mem, owed[t], q, l.todo)
      /\ Retires(t, visit) <=> v # q
      /\ v # q => v \in owed[t]
      /\ Children(t, visit) \in Seq(Entry)
      /\ v = q \/ IsLeaf(mem[v]) => Children(t, visit) = <<>>
      /\ v # q /\ ~IsLeaf(mem[v]) =>
           Children(t, visit) =
             <<[node |-> mem[v]["left"].addr, flagged |-> mem[v]["left"].flag],
               [node |-> mem[v]["right"].addr, flagged |-> mem[v]["right"].flag]>>
  BY <1>1, Visit
<1>4. owed[t] \in SUBSET Node
  BY <1>2 DEF TypeOK
<1>5. todo \in Seq(Entry)
  <2>1. Tail(l.todo) \in Seq(Entry)
    BY <1>3
  <2> QED BY <2>1, <1>3
<1>6. Debt(mem, O2, q, todo)
  <2>1. CASE v # q
    <3>1. O2 = owed[t] \ {v}
      BY <2>1, <1>3
    <3>2. Debt(mem, owed[t] \ {v}, q, Children(t, visit) \o Tail(l.todo))
      <4> DEFINE more == Children(t, visit)
      <4> HIDE DEF more
      <4>1. /\ more \in Seq(Entry)
            /\ IsLeaf(mem[v]) => more = <<>>
            /\ ~IsLeaf(mem[v]) => more = <<[node |-> mem[v]["left"].addr, flagged |-> mem[v]["left"].flag],
               [node |-> mem[v]["right"].addr, flagged |-> mem[v]["right"].flag]>>
        BY <2>1, <1>3 DEF more
      <4>2. Debt(mem, owed[t] \ {v}, q, more \o Tail(l.todo))
        BY <4>1, <2>1, <1>2, <1>3, <1>4, DebtLess
      <4> QED BY <4>2 DEF more
    <3> QED BY <3>1, <3>2
  <2>2. CASE v = q
    <3>1. O2 = owed[t] /\ Children(t, visit) = <<>>
      BY <2>2, <1>3
    <3>2. todo = Tail(l.todo)
      <4>1. Tail(l.todo) \in Seq(Entry)
        BY <1>3
      <4> HIDE DEF visit, l
      <4> QED BY <3>1, <4>1
    <3>3. Debt(mem, owed[t], q, Tail(l.todo))
      BY <2>2, <1>2, <1>3, <1>4, DebtSkip
    <3> QED BY <3>1, <3>2, <3>3
  <2> QED BY <2>1, <2>2
<1>7. /\ \/ /\ todo # <<>> /\ loc' = [loc EXCEPT ![t].todo = todo] /\ UNCHANGED pc /\ Quiet
         \/ /\ todo = <<>> /\ Injected(t) /\ GoTo(t, "retire", "return")
            /\ loc' = [loc EXCEPT ![t] = [NoLocals EXCEPT !.leaf = l.leaf, !.retval = l.retval]]
            /\ Quiet
         \/ todo = <<>> /\ ~Injected(t) /\ Retry(t, "retire")
  BY DEF RetireDeletedNodes
<1>8. O2 \subseteq owed[t] /\ O2 \in SUBSET Node
  BY <1>4
<1>9. \A i \in DOMAIN todo : todo[i].node \in Near(t) \cup {NULL}
  <2>1. v # NULL /\ v \in Near(t)
    <3>1. 1 \in DOMAIN l.todo /\ l.todo[1] = visit
      BY <1>3
    <3>2. v # NULL
      BY <1>3, NodeFacts DEF Entry
    <3> QED BY <3>1, <3>2, <1>2 DEF Held
  <2> DEFINE more == Children(t, visit)
             rest == Tail(l.todo)
  <2>2. \A i \in DOMAIN more : more[i].node \in Near(t) \cup {NULL}
    <3>1. CASE v = q \/ IsLeaf(mem[v])
      BY <3>1, <1>3
    <3>2. CASE v # q /\ ~IsLeaf(mem[v])
      <4> HIDE DEF v, visit, q
      <4>1. more = <<[node |-> mem[v]["left"].addr, flagged |-> mem[v]["left"].flag],
                     [node |-> mem[v]["right"].addr, flagged |-> mem[v]["right"].flag]>>
        BY <3>2, <1>3 DEF visit, v, q
      <4>2. DOMAIN more = {1, 2} /\ more[1].node = mem[v]["left"].addr /\ more[2].node = mem[v]["right"].addr
        BY <4>1
      <4> HIDE DEF more
      <4> QED BY <4>2, <2>1, <1>2, SideFacts
    <3> QED BY <3>1, <3>2
  <2>3. \A i \in DOMAIN rest : rest[i].node \in Near(t) \cup {NULL}
    <3>1. \A i \in DOMAIN rest : i + 1 \in DOMAIN l.todo /\ rest[i] = l.todo[i + 1]
      BY <1>3
    <3>2. \A i \in DOMAIN l.todo : l.todo[i].node \in Near(t) \cup {NULL}
      BY <1>2 DEF Held
    <3> QED BY <3>1, <3>2
  <2>4. rest \in Seq(Entry) /\ more \in Seq(Entry) /\ todo = more \o rest
    BY <1>3
  <2> HIDE DEF more, rest, todo
  <2>5. ASSUME NEW i \in DOMAIN todo PROVE todo[i].node \in Near(t) \cup {NULL}
    <3>1. \/ i \in DOMAIN more /\ todo[i] = more[i]
          \/ i - Len(more) \in DOMAIN rest /\ todo[i] = rest[i - Len(more)]
      BY <2>4
    <3> QED BY <3>1, <2>2, <2>3
  <2> QED BY <2>5
<1> HIDE DEF todo, O2, visit, q, v
<1>10. owed' \in [Thread -> SUBSET Node] /\ owed'[t] = O2 /\ \A u \in Thread \ {t} : owed'[u] = owed[u]
  BY <1>1, <1>2, <1>8 DEF TypeOK
<1>11. todo = <<>> => O2 = {}
  BY <1>2, <1>6, <1>8, DebtPaid
<1>12. CASE todo = <<>> /\ ~Injected(t)
  BY <1>1, <1>7, <1>10, <1>11, <1>12, RetrySafe
<1>13. ASSUME Quiet, NEW w \in Locals, w.leaf = l.leaf, NEW p \in {"retire", "return"},
              loc' = [loc EXCEPT ![t] = w], pc' = [pc EXCEPT ![t] = p], Held(t)' \subseteq Near(t),
              p = "retire" => w.todo # <<>> /\ w.todo = todo /\ w.pS = l.pS,
              p = "return" => todo = <<>>
       PROVE  SafeInv' /\ Moves(t)
  <2>1. loc' \in [Thread -> Locals] /\ loc'[t] = w /\ \A u \in Thread \ {t} : loc'[u] = loc[u]
    BY <1>13, <1>2 DEF TypeOK
  <2>2. pc'[t] = p /\ \A u \in Thread \ {t} : pc'[u] = pc[u]
    BY <1>13, <1>2 DEF TypeOK
  <2>3. pc' \in [Thread -> Pcs]
    BY <1>13, <1>2 DEF TypeOK, Pcs
  <2>4. TypeOK'
    BY <1>1, <1>2, <1>10, <1>13, <2>1, <2>3 DEF TypeOK, Quiet, WordType, Call, NoCall, Pcs
  <2>5. ReadOnly(t)
    BY <1>1, <1>8, <1>10, <1>13, <2>1, <2>2 DEF ReadOnly, Quiet
  <2>6. Near(t)' = Near(t) /\ pinned'[t] = pinned[t] /\ linked' = linked /\ mem' = mem /\ call' = call
    BY <1>1, <1>13 DEF Near, Quiet
  <2>7. Pins(t)'
    BY <1>2, <1>8, <1>10, <1>13, <2>2, <2>6 DEF Pins
  <2>8. Calls(t)'
    BY <1>1, <1>2, <1>13, <2>1, <2>2, <2>6 DEF Calls, Injected
  <2>9. Retiring(t)'
    BY <1>6, <1>10, <1>11, <1>13, <2>1, <2>2, <2>6 DEF Retiring, q
  <2>10. Seeking(t)' /\ Removing(t)'
    BY <1>13, <2>2 DEF Seeking, Removing
  <2>11. Local(t)'
    BY <1>13, <2>6, <2>7, <2>8, <2>9, <2>10 DEF Local
  <2> QED BY <2>4, <2>5, <2>11, ReadOnlyStep
<1>14. CASE todo # <<>>
  <2> DEFINE w == [l EXCEPT !.todo = todo]
  <2>1. Quiet /\ loc' = [loc EXCEPT ![t] = w] /\ pc' = pc
    BY <1>7, <1>14
  <2>2. pc' = [pc EXCEPT ![t] = "retire"]
    BY <2>1, <1>1, <1>2 DEF TypeOK
  <2>3. w \in Locals /\ w.leaf = l.leaf
    BY <1>2, <1>5 DEF Locals, Entry
  <2>4. /\ w.lum = l.lum /\ w.lumC = l.lumC /\ w.parent = l.parent /\ w.pL = l.pL /\ w.cur = l.cur
        /\ w.pS = l.pS /\ w.todo = todo
    BY <1>2 DEF Locals
  <2> HIDE DEF w
  <2>5. loc'[t] = w
    BY <2>1, <1>2 DEF TypeOK
  <2>6. Held(t)' \subseteq Near(t)
    <3>1. Held(t)' \subseteq Held(t) \cup ({todo[i].node : i \in DOMAIN todo} \ {NULL})
      BY <2>3, <2>4, <2>5 DEF Held
    <3> QED BY <3>1, <1>2, <1>9
  <2> QED BY <1>13, <1>14, <2>1, <2>2, <2>3, <2>4, <2>6
<1>15. CASE todo = <<>> /\ Injected(t)
  <2> DEFINE w == [NoLocals EXCEPT !.leaf = l.leaf, !.retval = l.retval]
  <2>1. Quiet /\ loc' = [loc EXCEPT ![t] = w] /\ pc' = [pc EXCEPT ![t] = "return"]
    BY <1>7, <1>15 DEF GoTo
  <2>2. w \in Locals /\ w.leaf = l.leaf
    BY <1>2 DEF Locals, NoLocals
  <2>3. loc'[t] = w
    BY <2>1, <1>2 DEF TypeOK
  <2>4. Held(t)' \subseteq Near(t)
    <3>1. Held(t)' \subseteq {l.leaf} \ {NULL}
      BY <2>3 DEF Held, NoLocals, NullWord, Word
    <3> QED BY <3>1, <1>2 DEF Held
  <2> HIDE DEF w
  <2> QED BY <1>13, <1>15, <2>1, <2>2, <2>4
<1> QED BY <1>12, <1>14, <1>15

-----------------------------------------------------------------------------
(* What a step does to searches.  All nodes but one keep their children,   *)
(* and a search from a node that somebody may get to still gets where it   *)
(* would have got, but for what is cut off and leaves of other keys.       *)
Bends(w) ==
  /\ w \in linked /\ w \in linked' /\ ~IsLeaf(mem[w])
  /\ \A n \in Kept : n # w => \A s \in Sides : mem'[n][s].addr = mem[n][s].addr
  /\ \A k : \A n \in Kept :
       Walk(mem, k, n) \subseteq Kept =>
         \A b \in Walk(mem, k, n) :
           /\ b \notin linked \ linked'
           /\ ~IsLeaf(mem[b]) \/ mem[b].key = k
           => b \in Walk(mem, k, n)'

(* A step that changes no address bends no search. *)
LEMMA SameWalks ==
  ASSUME SafeInv, mem' \in Memory, linked' = linked,
         \A n \in Node, s \in Sides : mem'[n][s].addr = mem[n][s].addr,
         \A n \in Node : mem'[n].key = mem[n].key
  PROVE  Bends(Root)
<1>1. mem \in Memory /\ Tree(mem, linked) /\ Kept \in SUBSET Node
  BY Keeps DEF SafeInv, Tree
<1>2. \A k, n : Walk(mem, k, n)' = Walk(mem, k, n)
  <2>1. \A k, n : Walk(mem', k, n) = Walk(mem, k, n)
    BY <1>1, SameAddrs
  <2> QED BY <2>1 DEF Walk
<1>3. Root \in linked /\ ~IsLeaf(mem[Root])
  BY <1>1, TreeFacts DEF Tree, Sentinels
<1> QED BY <1>1, <1>2, <1>3 DEF Bends

(* A cut bends searches at lum: they skip what is cut off. *)
LEMMA CutBends ==
  ASSUME SafeInv, NEW t \in Thread, Cuts(t)
  PROVE  Bends(loc[t].lum)
<1> DEFINE lum == loc[t].lum
           d == Side(t, lum)
<1>1. PICK s \in Sides : CutAt(mem, linked, lum, d, loc[t].parent, s, mem')
  BY DEF Cuts
<1>2. linked' = Reachable(mem') /\ Kept \in SUBSET Node
  BY Keeps DEF Cuts, SafeInv
<1> HIDE DEF lum, d
<1>3. /\ lum \in linked /\ lum \in linked' /\ ~IsLeaf(mem[lum])
      /\ \A n \in Node, r \in Sides : n # lum \/ r # d => mem'[n][r] = mem[n][r]
  <2>1. ~IsLeaf(mem[lum])
    BY <1>1 DEF CutAt
  <2>2. /\ Reachable(mem') \subseteq linked /\ lum \in Reachable(mem')
        /\ \A n \in Node, r \in Sides : n # lum \/ r # d => mem'[n][r] = mem[n][r]
    BY <1>1, CutBasics
  <2> QED BY <2>1, <2>2, <1>2
<1>4. ASSUME NEW k, NEW n \in Kept, NEW b \in Walk(mem, k, n), b \notin linked \ linked'
      PROVE  b \in Walk(mem, k, n)'
  <2>1. b \in Walk(mem', k, n)
    BY <1>1, <1>2, <1>4, CutWalk
  <2> QED BY <2>1 DEF Walk
<1>5. Bends(lum)
  BY <1>2, <1>3, <1>4 DEF Bends
<1> QED BY <1>5 DEF lum

(* An insert bends searches at the parent: they pass the new node. *)
LEMMA GrowBends ==
  ASSUME SafeInv, NEW t \in Thread, Grows(t)
  PROVE  Bends(loc[t].parent)
<1> DEFINE p == loc[t].parent
           key == call[t].key
           v == call[t].value
<1>1. PICK a, i \in Node \ Kept : GrowAt(mem, linked, p, key, v, a, i, mem')
  BY DEF Grows
<1>2. linked' = Reachable(mem') /\ Kept \in SUBSET Node
  BY Keeps DEF Grows, SafeInv
<1> HIDE DEF p, key, v
<1>3. linked' = linked \cup {a, i}
  BY <1>1, <1>2, GrowReach
<1>4. p \in linked /\ ~IsLeaf(mem[p]) /\ IsLeaf(mem[Ahd(mem, key, p)])
  BY <1>1 DEF GrowAt
<1>5. \A n \in Node \ {a, i, p} : mem'[n] = mem[n]
  <2>1. Grew(mem, linked, p, key, v, a, i, mem')
    BY <1>1, GrownFacts
  <2> QED BY <2>1 DEF Grew
<1>6. ASSUME NEW k, NEW n \in Kept, Walk(mem, k, n) \subseteq Kept, NEW b \in Walk(mem, k, n),
             ~IsLeaf(mem[b]) \/ mem[b].key = k
      PROVE  b \in Walk(mem, k, n)'
  <2>1. n \in Node /\ a \notin Walk(mem, k, n) /\ i \notin Walk(mem, k, n)
    BY <1>2, <1>6
  <2>2. b # Ahd(mem, key, p) \/ k = mem[Ahd(mem, key, p)].key
    BY <1>4, <1>6
  <2>3. b \in Walk(mem', k, n)
    BY <2>1, <2>2, <1>1, GrowWalk
  <2> QED BY <2>3 DEF Walk
<1>7. \A n \in Kept : n # p => \A s \in Sides : mem'[n][s].addr = mem[n][s].addr
  BY <1>2, <1>5
<1>8. Bends(p)
  BY <1>3, <1>4, <1>6, <1>7 DEF Bends
<1> QED BY <1>8 DEF p

(* Every step bends searches at one node at most. *)
LEMMA MovesBend ==
  ASSUME SafeInv, SafeInv', NEW t \in Thread, Moves(t)
  PROVE  \E w : Bends(w)
<1>1. mem' \in Memory /\ mem \in Memory
  BY DEF SafeInv, Tree
<1>2. CASE mem' = mem /\ linked' = linked
  BY <1>1, <1>2, SameWalks
<1>3. CASE SetsBits
  <2>1. PICK p \in Kept, d \in Sides, w \in WordType :
          OneWord(mem, mem', p, d, w) /\ w.addr = mem[p][d].addr
    BY <1>3 DEF SetsBits
  <2>2. /\ \A n \in Node : mem'[n].key = mem[n].key
        /\ \A n \in Node, s \in Sides : mem'[n][s] = IF n = p /\ s = d THEN w ELSE mem[n][s]
    BY <2>1 DEF OneWord
  <2>3. \A n \in Node, s \in Sides : mem'[n][s].addr = mem[n][s].addr
    BY <2>1, <2>2
  <2> QED BY <1>1, <1>3, <2>2, <2>3, SameWalks DEF SetsBits
<1> QED BY <1>2, <1>3, CutBends, GrowBends DEF Moves

(* Where a search gets to from what u may reach, u may reach. *)
LEMMA WalkNear ==
  ASSUME SafeInv, NEW u \in Thread, NEW n \in Near(u), NEW k
  PROVE  Walk(mem, k, n) \subseteq Near(u) /\ Near(u) \subseteq Kept /\ n \in Node
<1>1. /\ mem \in Memory /\ Near(u) \subseteq Kept /\ Kept \in SUBSET Node
      /\ \A x \in Near(u), s \in Sides : mem[x][s].addr # NULL => mem[x][s].addr \in Near(u)
  BY Mine
<1>2. \A x \in Near(u) : Ahd(mem, k, x) # NULL => Ahd(mem, k, x) \in Near(u)
  BY <1>1, SideFacts DEF Ahd
<1>3. Walk(mem, k, n) \subseteq Near(u)
  BY <1>1, <1>2, WalkLeast
<1> QED BY <1>1, <1>3

(* A search from where a search has got to is a part of it. *)
LEMMA WalkSub ==
  ASSUME NEW m \in Memory, NEW k, NEW n \in Node, NEW b \in Walk(m, k, n)
  PROVE  Walk(m, k, b) \subseteq Walk(m, k, n)
<1>1. /\ Walk(m, k, n) \in SUBSET Node
      /\ \A x \in Walk(m, k, n) : Ahd(m, k, x) # NULL => Ahd(m, k, x) \in Walk(m, k, n)
  BY WalkLeast
<1>2. b \in Node
  BY <1>1
<1> QED BY <1>1, <1>2, WalkLeast

(* Where a search gets to after a step it would have got to before, or it  *)
(* is in the tree now.                                                     *)
LEMMA BentWalk ==
  ASSUME SafeInv, SafeInv', Gentle, NEW w, Bends(w), NEW u \in Thread, NEW n \in Near(u), NEW k
  PROVE  Walk(mem, k, n)' \subseteq Walk(mem, k, n) \cup linked'
<1>1. /\ mem \in Memory /\ mem' \in Memory /\ Tree(mem', linked')
  BY DEF SafeInv, Tree
<1>2. /\ Walk(mem, k, n) \subseteq Near(u) /\ Near(u) \subseteq Kept /\ n \in Node /\ Kept \in SUBSET Node
  BY WalkNear, Mine
<1> DEFINE S == Walk(mem, k, n) \cup linked'
<1>3. S \in SUBSET Node /\ n \in S
  BY <1>1, <1>2, WalkLeast, TreeFacts
<1>4. \A x \in linked' : Ahd(mem', k, x) # NULL => Ahd(mem', k, x) \in linked'
  BY <1>1, TreeFacts, SideFacts DEF Ahd
<1>5. ASSUME NEW x \in Walk(mem, k, n), x # w
      PROVE  Ahd(mem', k, x) = Ahd(mem, k, x)
  <2>1. x \in Kept
    BY <1>2
  <2>2. mem'[x].key = mem[x].key /\ \A s \in Sides : mem'[x][s].addr = mem[x][s].addr
    BY <2>1, <1>5 DEF Gentle, Calm, Bends
  <2>3. SideOf(k, mem'[x]) = SideOf(k, mem[x]) /\ SideOf(k, mem[x]) \in Sides
    BY <2>2, SideFacts DEF SideOf
  <2> QED BY <2>2, <2>3 DEF Ahd
<1>6. \A x \in Walk(mem, k, n) : Ahd(mem, k, x) # NULL => Ahd(mem, k, x) \in Walk(mem, k, n)
  BY <1>1, <1>2, WalkLeast
<1>7. w \in linked'
  BY DEF Bends
<1>8. \A x \in S : Ahd(mem', k, x) # NULL => Ahd(mem', k, x) \in S
  BY <1>4, <1>5, <1>6, <1>7
<1> HIDE DEF S
<1>9. Walk(mem', k, n) \subseteq S
  BY <1>1, <1>2, <1>3, <1>8, WalkLeast
<1>10. Walk(mem, k, n)' = Walk(mem', k, n)
  BY DEF Walk
<1> QED BY <1>9, <1>10 DEF S

(* A search that was on the way to its key still is.                       *)
LEMMA StillOnTheWay ==
  ASSUME SafeInv, SafeInv', Gentle, NEW w, Bends(w), NEW u \in Thread, NEW n \in Near(u),
         OnTheWay(u, n), call'[u] = call[u]
  PROVE  /\ OnTheWay(u, n)'
         /\ \A x \in Near(u) : ~IsLeaf(mem[x]) /\ (x \in linked => x \in Path(mem, call[u].key)) =>
              (x \in linked' => x \in Path(mem', call'[u].key))
<1> DEFINE k == call[u].key
           way == Walk(mem, k, n)
           path2 == Walk(mem', k, Root)
<1>1. /\ mem \in Memory /\ mem' \in Memory /\ Tree(mem', linked') /\ Tree(mem, linked)
  BY DEF SafeInv, Tree
<1>2. /\ way \subseteq Near(u) /\ Near(u) \subseteq Kept /\ n \in Node /\ Kept \in SUBSET Node
      /\ linked \subseteq Kept /\ Root \in linked /\ Root \in Node /\ linked \subseteq Near(u)
  BY <1>1, WalkNear, Mine, TreeFacts, NodeFacts
<1>3. Walk(mem, k, Root) \subseteq Kept
  BY <1>2, WalkNear
<1>4. ASSUME NEW x \in Walk(mem, k, Root), x \notin linked \ linked', ~IsLeaf(mem[x])
      PROVE  x \in path2
  <2>1. Root \in Kept
    BY <1>2
  <2>2. x \in Walk(mem, k, Root)'
    BY <1>3, <1>4, <2>1 DEF Bends
  <2> QED BY <2>2 DEF Walk
<1>5. \A x \in linked' : x \in Kept => x \in linked
  BY DEF Gentle
<1>6. ASSUME NEW x \in Kept, ~IsLeaf(mem[x]), x \in linked => x \in Walk(mem, k, Root), x \in linked'
      PROVE  x \in path2
  BY <1>4, <1>5, <1>6
<1>7. \A x \in Near(u) : ~IsLeaf(mem[x]) /\ (x \in linked => x \in Path(mem, k)) => (x \in linked' => x \in Path(mem', k))
  BY <1>2, <1>6, PathIsWalk
<1>8. \A x \in way : x \in linked /\ ~IsLeaf(mem[x]) => x \in Walk(mem, k, Root)
  BY PathIsWalk DEF OnTheWay
<1> DEFINE S == way \cup path2
<1>9. S \in SUBSET Node /\ n \in S
  BY <1>1, <1>2, WalkLeast
<1>10. \A x \in path2 : Ahd(mem', k, x) # NULL => Ahd(mem', k, x) \in path2
  BY <1>1, <1>2, WalkLeast
<1>11. ASSUME NEW x \in way, x # w
       PROVE  Ahd(mem', k, x) = Ahd(mem, k, x)
  <2>1. x \in Kept
    BY <1>2
  <2>2. mem'[x].key = mem[x].key /\ \A s \in Sides : mem'[x][s].addr = mem[x][s].addr
    BY <2>1, <1>11 DEF Gentle, Calm, Bends
  <2>3. SideOf(k, mem'[x]) = SideOf(k, mem[x]) /\ SideOf(k, mem[x]) \in Sides
    BY <2>2, SideFacts DEF SideOf
  <2> QED BY <2>2, <2>3 DEF Ahd
<1>12. \A x \in way : Ahd(mem, k, x) # NULL => Ahd(mem, k, x) \in way
  BY <1>1, <1>2, WalkLeast
<1>13. w \in way => w \in path2
  <2>1. w \in linked /\ w \in linked' /\ ~IsLeaf(mem[w])
    BY DEF Bends
  <2> QED BY <2>1, <1>4, <1>8
<1>14. \A x \in S : Ahd(mem', k, x) # NULL => Ahd(mem', k, x) \in S
  BY <1>10, <1>11, <1>12, <1>13
<1> HIDE DEF S, way, path2
<1>15. Walk(mem', k, n) \subseteq S
  BY <1>1, <1>2, <1>9, <1>14, WalkLeast
<1>16. ASSUME NEW x \in Walk(mem', k, n), x \in linked', ~IsLeaf(mem'[x])
       PROVE  x \in path2
  <2>1. CASE x \in path2
    BY <2>1
  <2>2. CASE x \in way
    <3>1. x \in Kept
      BY <2>2, <1>2 DEF way
    <3>2. ~IsLeaf(mem[x])
      BY <3>1, <1>16 DEF Gentle, Calm
    <3> QED BY <3>1, <3>2, <2>2, <1>6, <1>8, <1>16
  <2> QED BY <2>1, <2>2, <1>15, <1>16 DEF S
<1>17. \A m : Walk(m, k, n)' = Walk(m', k, n)
  BY DEF Walk
<1>18. OnTheWay(u, n)'
  <2>1. \A x \in Walk(mem', k, n) : x \in linked' /\ ~IsLeaf(mem'[x]) => x \in Path(mem', k)
    BY <1>16, PathIsWalk DEF path2
  <2> QED BY <2>1 DEF OnTheWay, Walk, Path
<1> QED BY <1>7, <1>18

(* A seek that does not move stays on the way to its key. *)
LEMMA HeadingStands ==
  ASSUME SafeInv, SafeInv', Gentle, NEW w, Bends(w), NEW u \in Thread, Heading(u),
         call'[u] = call[u], loc'[u] = loc[u], pc'[u] = pc[u]
  PROVE  Heading(u)'
<1> SUFFICES ASSUME pc[u] = "seek", ~Injected(u)
             PROVE  /\ OnTheWay(u, loc[u].pL.addr)'
                    /\ loc[u].parent \in linked' => loc[u].parent \in Path(mem', call'[u].key)
  BY DEF Heading, Injected, OnTheWay, Path
<1>1. /\ loc[u].parent \in Near(u) /\ loc[u].pL.addr \in Near(u) /\ ~IsLeaf(mem[loc[u].parent])
  BY ParentSide
<1>2. /\ OnTheWay(u, loc[u].pL.addr)
      /\ loc[u].parent \in linked => loc[u].parent \in Path(mem, call[u].key)
  BY DEF Heading
<1> DEFINE n == loc[u].pL.addr
<1> HIDE DEF n
<1>3. OnTheWay(u, n)'
  BY <1>1, <1>2, StillOnTheWay DEF n
<1>4. loc[u].parent \in linked' => loc[u].parent \in Path(mem', call'[u].key)
  BY <1>1, <1>2, StillOnTheWay
<1> QED BY <1>3, <1>4 DEF n, OnTheWay

(* A seek starts on the way to its key. *)
LEMMA HeadingSeekRoot ==
  ASSUME SafeInv, NEW t \in Thread, SeekRoot(t)
  PROVE  Heading(t)'
<1> DEFINE w == [NoLocals EXCEPT
       !.parent = Root, !.pL = mem[Root].left, !.leaf = loc[t].leaf, !.retval = loc[t].retval]
           k == call[t].key
<1>1. /\ loc' = [loc EXCEPT ![t] = w] /\ mem' = mem /\ linked' = linked /\ call' = call
      /\ pc[t] = "root" /\ call[t] # NoCall
  BY DEF SeekRoot, GoTo, Quiet, shared
<1>2. w.parent = Root /\ w.pL = mem[Root]["left"]
  BY DEF NoLocals
<1> HIDE DEF w
<1>3. TypeOK /\ Tree(mem, linked) /\ mem \in Memory
  BY Mine
<1>4. loc'[t] = w
  BY <1>1, <1>3 DEF TypeOK
<1>5. call[t] \in Call
  BY <1>1, <1>3 DEF TypeOK
<1>6. k \in Key /\ MaxKey \in Nat /\ mem[Root].key = MaxKey + 2 /\ ~IsLeaf(mem[Root])
  BY <1>3, <1>5, BstAssumption DEF Call, Tree, Sentinels
<1>7. Ahd(mem, k, Root) = mem[Root]["left"].addr
  BY <1>6 DEF Ahd, SideOf, Key
<1>8. Ahd(mem, k, Root) # NULL
  BY <1>6, <1>7 DEF IsLeaf
<1>9. Ahd(mem, k, Root) \in Walk(mem, k, Root) /\ Root \in Walk(mem, k, Root)
  BY <1>3, <1>8, WalkLeast, NodeFacts
<1>10. Walk(mem, k, Ahd(mem, k, Root)) \subseteq Walk(mem, k, Root)
  BY <1>3, <1>9, WalkSub, NodeFacts
<1>11. OnTheWay(t, w.pL.addr) /\ Root \in Path(mem, k)
  BY <1>2, <1>7, <1>9, <1>10, PathIsWalk DEF OnTheWay
<1>12. loc'[t].pL.addr = w.pL.addr /\ loc'[t].parent = Root
  BY <1>2, <1>4
<1> QED BY <1>1, <1>11, <1>12 DEF Heading, OnTheWay

(* A seek that goes down stays on the way to its key. *)
LEMMA HeadingSeekDown ==
  ASSUME SafeInv, NEW t \in Thread, Heading(t), SeekDown(t)
  PROVE  Heading(t)'
<1> DEFINE l == loc[t]
           n == l.pL.addr
           next == mem[n][Side(t, n)]
           k == call[t].key
           w == [l EXCEPT !.parent = n, !.pL = next,
                          !.lum = IF l.pL.mark THEN l.lum ELSE l.parent,
                          !.lumC = IF l.pL.mark THEN l.lumC ELSE l.pL]
<1>1. /\ loc' = [loc EXCEPT ![t] = w] /\ mem' = mem /\ linked' = linked /\ call' = call
      /\ pc[t] = "seek" /\ next.addr # NULL
  BY DEF SeekDown, GoTo, Quiet, shared
<1>2. /\ TypeOK /\ mem \in Memory /\ l \in Locals /\ Tree(mem, linked)
      /\ Near(t) \subseteq Kept /\ Kept \in SUBSET Node
  BY Mine, Types
<1>3. w.parent = n /\ w.pL = next /\ w.leaf = l.leaf
  BY <1>2 DEF Locals
<1> HIDE DEF w
<1>4. loc'[t] = w
  BY <1>1, <1>2 DEF TypeOK
<1>5. n \in Node
  BY <1>1, <1>2, ParentSide
<1>6. Ahd(mem, k, n) = next.addr
  BY DEF Ahd, Side
<1>7. n \in Walk(mem, k, n) /\ next.addr \in Walk(mem, k, n)
  BY <1>1, <1>2, <1>5, <1>6, WalkLeast
<1>8. Walk(mem, k, next.addr) \subseteq Walk(mem, k, n)
  BY <1>2, <1>5, <1>7, WalkSub
<1>9. ~IsLeaf(mem[n])
  <2>1. Side(t, n) \in Sides
    BY SideFacts DEF Side
  <2> QED BY <2>1, <1>1, <1>2, <1>5, TreeFacts DEF NullWord, Word
<1> SUFFICES ASSUME ~Injected(t)'
             PROVE  /\ OnTheWay(t, next.addr)
                    /\ n \in linked => n \in Path(mem, k)
  <2>1. loc'[t].pL.addr = next.addr /\ loc'[t].parent = n
    BY <1>3, <1>4
  <2> HIDE DEF next, n
  <2> QED BY <2>1, <1>1 DEF Heading, OnTheWay
<1>10. OnTheWay(t, n)
  BY <1>1, <1>3, <1>4 DEF Heading, Injected
<1>11. OnTheWay(t, next.addr)
  BY <1>8, <1>10 DEF OnTheWay
<1>12. n \in linked => n \in Path(mem, k)
  BY <1>7, <1>9, <1>10 DEF OnTheWay
<1> QED BY <1>11, <1>12

(* Every step moves a thread as its action says and keeps the invariant.   *)
LEMMA SafeActions ==
  ASSUME SafeInv, NEW t \in Thread, Heading(t), Step(t) \/ \E c \in Call : Invoke(t, c)
  PROVE  SafeInv' /\ Moves(t)
<1>1. CASE \E c \in Call : Invoke(t, c)
  BY <1>1, InvokeSafe
<1>2. CASE Return(t)
  BY <1>2, ReturnSafe
<1>3. CASE FindRoot(t) \/ FindDown(t)
  BY <1>3, FindRootSafe, FindDownSafe
<1>4. CASE SeekRoot(t) \/ SeekDown(t)
  BY <1>4, SeekRootSafe, SeekDownSafe
<1>5. CASE InsertFound(t) \/ InsertWindow(t)
  BY <1>5, InsertFoundSafe, InsertWindowSafe
<1>6. CASE EraseAbsent(t) \/ Inject(t) \/ SecondaryGone(t)
  BY <1>6, EraseAbsentSafe, InjectSafe, SecondaryGoneSafe
<1>7. CASE Mark(t) \/ ReadSibling(t) \/ SwingToSibling(t) \/ HelpMarked(t)
  BY <1>7, MarkSafe, ReadSiblingSafe, SwingToSiblingSafe, HelpMarkedSafe
<1>8. CASE RetireDeletedNodes(t)
  BY <1>8, RetireSafe
<1> QED BY <1>1, <1>2, <1>3, <1>4, <1>5, <1>6, <1>7, <1>8 DEF Step

(* Only these two actions go to seek. *)
LEMMA SeekBegins ==
  ASSUME TypeOK, NEW t \in Thread, Step(t) \/ \E c \in Call : Invoke(t, c), pc'[t] = "seek"
  PROVE  SeekRoot(t) \/ SeekDown(t)
<1>1. pc \in [Thread -> Pcs]
  BY DEF TypeOK, Pcs
<1>2. ASSUME NEW from, NEW to, GoTo(t, from, to) PROVE pc'[t] = to
  BY <1>1, <1>2 DEF GoTo
<1>3. ~ \E c \in Call : Invoke(t, c)
  BY <1>2 DEF Invoke
<1>4. ~Return(t) /\ ~FindRoot(t)
  BY <1>2 DEF Return, FindRoot
<1>5. ~FindDown(t)
  BY <1>2 DEF FindDown, Answer
<1>6. ~InsertFound(t) /\ ~EraseAbsent(t) /\ ~SecondaryGone(t)
  BY <1>2 DEF InsertFound, EraseAbsent, SecondaryGone, Answer
<1>7. ~InsertWindow(t) /\ ~Inject(t)
  BY <1>2 DEF InsertWindow, Inject, Retry
<1>8. ~Mark(t)
  BY <1>1 DEF Mark
<1>9. ~ReadSibling(t)
  BY <1>2 DEF ReadSibling
<1>10. ~SwingToSibling(t) /\ ~HelpMarked(t)
  BY <1>2 DEF SwingToSibling, HelpMarked, Swing, Retry
<1>11. ~RetireDeletedNodes(t)
  BY <1>1, <1>2 DEF RetireDeletedNodes, Retry
<1> QED BY <1>3, <1>4, <1>5, <1>6, <1>7, <1>8, <1>9, <1>10, <1>11 DEF Step

TreeInv == SafeInv /\ \A t \in Thread : Heading(t)

(* Every step of a thread keeps the inductive invariant. *)
LEMMA TreeInvStep ==
  ASSUME TreeInv, NEW t \in Thread, Step(t) \/ \E c \in Call : Invoke(t, c)
  PROVE  TreeInv' /\ Moves(t)
<1>1. SafeInv /\ \A u \in Thread : Heading(u)
  BY DEF TreeInv
<1>2. SafeInv' /\ Moves(t)
  BY <1>1, SafeActions
<1>3. PICK w : Bends(w)
  BY <1>1, <1>2, MovesBend
<1>4. ASSUME NEW u \in Thread \ {t} PROVE Heading(u)'
  BY <1>1, <1>2, <1>3, HeadingStands DEF Moves, Stands
<1>5. Heading(t)'
  <2>1. CASE pc'[t] # "seek"
    BY <2>1 DEF Heading
  <2>2. CASE pc'[t] = "seek"
    <3>1. SeekRoot(t) \/ SeekDown(t)
      BY <2>2, <1>1, SeekBegins DEF SafeInv
    <3> QED BY <3>1, <1>1, HeadingSeekRoot, HeadingSeekDown
  <2> QED BY <2>1, <2>2
<1> QED BY <1>1, <1>2, <1>4, <1>5 DEF TreeInv


-----------------------------------------------------------------------------
(* The tree that Init starts from is one. *)
Plant(i, m, v) ==
  Grown(m, ParentFor(m, Prefill[i]), Prefill[i], v, 2 * i + 2, 2 * i + 3)

Plants(g, n, v) ==
  g = [i \in 0 .. n |-> IF i = 0 THEN EmptyTree ELSE Plant(i, g[i - 1], v)]

(* The recursion of Prefilled has a solution. *)
LEMMA PlantsExist ==
  ASSUME NEW N \in Nat, NEW v
  PROVE  \E g : Plants(g, N, v)
<1> DEFINE T == {n \in Nat : \E g : Plants(g, n, v)}
<1>1. 0 \in T
  <2> DEFINE g == [d \in 0 .. 0 |-> EmptyTree]
             w == [d \in 0 .. 0 |-> IF d = 0 THEN EmptyTree ELSE Plant(d, g[d - 1], v)]
  <2>1. \A d \in 0 .. 0 : g[d] = w[d]
    <3> TAKE d \in 0 .. 0
    <3>1. d = 0
      OBVIOUS
    <3> HIDE DEF EmptyTree
    <3> QED BY <3>1
  <2>2. g = w
    BY <2>1
  <2> QED BY <2>2 DEF Plants
<1>2. ASSUME NEW n \in Nat, n \in T PROVE n + 1 \in T
  <2>1. PICK g : Plants(g, n, v)
    BY <1>2
  <2> DEFINE h == [d \in 0 .. n + 1 |-> IF d = n + 1 THEN Plant(n + 1, g[n], v) ELSE g[d]]
             w == [d \in 0 .. n + 1 |-> IF d = 0 THEN EmptyTree ELSE Plant(d, h[d - 1], v)]
  <2>2. \A d \in 0 .. n : h[d] = g[d]
    OBVIOUS
  <2>3. \A d \in 0 .. n : g[d] = IF d = 0 THEN EmptyTree ELSE Plant(d, g[d - 1], v)
    BY <2>1 DEF Plants
  <2>4. \A d \in 0 .. n + 1 : h[d] = w[d]
    <3> TAKE d \in 0 .. n + 1
    <3>1. CASE d = n + 1
      <4>1. d # 0 /\ d - 1 = n /\ n \in 0 .. n
        BY <3>1
      <4>2. h[d] = Plant(d, g[n], v) /\ w[d] = Plant(d, h[n], v)
        BY <3>1, <4>1
      <4> QED BY <4>2, <2>2, <4>1
    <3>2. CASE d = 0
      BY <3>2, <2>2, <2>3
    <3>3. CASE d # n + 1 /\ d # 0
      <4>1. d \in 0 .. n /\ d - 1 \in 0 .. n
        BY <3>3
      <4>2. h[d] = g[d] /\ g[d] = Plant(d, g[d - 1], v)
        BY <3>3, <4>1, <2>3
      <4>3. w[d] = Plant(d, h[d - 1], v)
        BY <3>3
      <4> QED BY <4>1, <4>2, <4>3, <2>2
    <3> QED BY <3>1, <3>2, <3>3
  <2>5. h = w
    BY <2>4
  <2> HIDE DEF h
  <2>6. Plants(h, n + 1, v)
    BY <2>5 DEF Plants
  <2> QED BY <2>6
<1> HIDE DEF T
<1>3. N \in T
  BY <1>1, <1>2, BySet
<1> QED BY <1>3 DEF T

(* Prefilled unfolded. *)
LEMMA PrefilledDef ==
  ASSUME NEW v
  PROVE  \E g : Plants(g, Len(Prefill), v) /\ Prefilled(v) = g[Len(Prefill)]
<1> DEFINE N == Len(Prefill)
           g == CHOOSE h : Plants(h, N, v)
<1>1. N \in Nat
  BY BstAssumption
<1>2. \E h : Plants(h, N, v)
  BY <1>1, PlantsExist
<1>3. Plants(g, N, v)
  BY <1>2
<1>4. Prefilled(v) = g[N]
  BY DEF Prefilled, Plants, Plant
<1> QED BY <1>3, <1>4

(* On the way to any key some node is just above a leaf. *)
LEMMA AboveLeaf ==
  ASSUME NEW m, Tree(m, Reachable(m)), NEW k
  PROVE  \E n \in Path(m, k) : \E c \in Turn(m, k)[n] : IsLeaf(m[c])
<1> DEFINE S == {n \in Walk(m, k, Root) : ~IsLeaf(m[n])}
           L == Reachable(m)
<1> HIDE DEF L
<1>1. SUFFICES ASSUME \A n \in Walk(m, k, Root) : \A c \in Turn(m, k)[n] : ~IsLeaf(m[c])
               PROVE  FALSE
  BY PathIsWalk
<1>2. /\ m \in Memory /\ L \in SUBSET Node /\ Root \in L
      /\ \A n \in L, s \in Sides : m[n][s].addr # NULL => m[n][s].addr \in L /\ m[n][s].addr # Root
      /\ \A n \in Node, s \in Sides : ~IsLeaf(m[n]) => m[n][s].addr # NULL /\ m[n][s].addr \in Node
      /\ \A n, p \in L : \A s, r \in Sides :
           m[n][s].addr = m[p][r].addr /\ m[n][s].addr # NULL => n = p /\ s = r
      /\ ~IsLeaf(m[Root])
  <2>1. Tree(m, L)
    BY DEF L
  <2>2. ~IsLeaf(m[Root])
    BY <2>1 DEF Tree, Sentinels
  <2> QED BY <2>1, <2>2, TreeFacts
<1>3. /\ Walk(m, k, Root) \in SUBSET Node /\ Root \in Walk(m, k, Root)
      /\ \A n \in Walk(m, k, Root) : Ahd(m, k, n) # NULL => Ahd(m, k, n) \in Walk(m, k, Root)
  BY <1>2, WalkLeast
<1>4. Walk(m, k, Root) \subseteq L
  <2>1. Tree(m, L)
    BY DEF L
  <2> QED BY <2>1, <1>2, WalkInTree
<1>5. \A n \in Node : \A x : x \in Turn(m, k)[n] <=> x # NULL /\ x = Ahd(m, k, n)
  BY <1>2, Steps DEF Ahd
<1>6. \A n \in Node : SideOf(k, m[n]) \in Sides
  BY SideFacts
<1>7. \A n \in S : Ahd(m, k, n) \in S \ {Root}
  <2> TAKE n \in S
  <2>1. n \in Node /\ n \in L /\ n \in Walk(m, k, Root) /\ ~IsLeaf(m[n])
    BY <1>3, <1>4
  <2>2. Ahd(m, k, n) # NULL /\ Ahd(m, k, n) # Root
    BY <2>1, <1>2, <1>6 DEF Ahd
  <2>3. Ahd(m, k, n) \in Walk(m, k, Root) /\ ~IsLeaf(m[Ahd(m, k, n)])
    BY <2>1, <2>2, <1>1, <1>3, <1>5
  <2> QED BY <2>2, <2>3
<1>8. \A n, p \in S : Ahd(m, k, n) = Ahd(m, k, p) => n = p
  <2> TAKE n, p \in S
  <2>1. n \in L /\ p \in L /\ Ahd(m, k, n) # NULL
    <3>1. n \in Node /\ n \in L /\ p \in L
      BY <1>3, <1>4
    <3> QED BY <3>1, <1>2, <1>6 DEF Ahd
  <2> QED BY <2>1, <1>2, <1>6, <1>3 DEF Ahd
<1> DEFINE f == [n \in S |-> Ahd(m, k, n)]
           R == S \ {Root}
<1>9. f \in [S -> R]
  BY <1>7
<1>10. Root \in S /\ S \subseteq Node
  BY <1>2, <1>3
<1>11. IsFiniteSet(S)
  BY <1>10, NodeFacts, FS_Subset
<1> HIDE DEF S
<1>12. IsFiniteSet(R) /\ Cardinality(R) = Cardinality(S) - 1 /\ Cardinality(S) \in Nat
  BY <1>10, <1>11, FS_RemoveElement, FS_CardinalityType
<1> HIDE DEF R, f
<1>13. Cardinality(R) < Cardinality(S)
  BY <1>12, FS_CardinalityType
<1>14. PICK x, y \in S : x # y /\ f[x] = f[y]
  BY <1>9, <1>11, <1>12, <1>13, FS_PigeonHole
<1> QED BY <1>14, <1>8 DEF f


Planted(m, i) ==
  /\ Tree(m, Reachable(m)) /\ Reachable(m) \subseteq 1 .. 2 * i + 3
  /\ \A n \in Node, s \in Sides : IsFree(m[n][s])
  /\ \A n \in Reachable(m) :
       IsLeaf(m[n]) => m[n].key > MaxKey \/ \E j \in 1 .. i : m[n].key = Prefill[j]

(* The constructor's tree: a root and two sentinels. *)
LEMMA EmptyPlanted == Planted(EmptyTree, 0)
<1> DEFINE m == EmptyTree
           L == {1, 2, 3}
<1>1. NumNodes \in Nat /\ {1, 2, 3} \subseteq Node /\ MaxKey \in Nat /\ Root = 1 /\ NULL = 0
  BY NodeFacts, BstAssumption DEF Root, NULL
<1>2. \A n \in Node :
        m[n] = IF n = Root THEN Internal(MaxKey + 2, 2, 3)
               ELSE IF n = 2 THEN Leaf(MaxKey + 1, NoValue) ELSE Leaf(MaxKey + 2, NoValue)
  BY DEF EmptyTree
<1>3. m = [n \in Node |-> m[n]]
  BY DEF EmptyTree
<1> HIDE DEF m
<1>4. NullWord \in WordType /\ Word(2, FALSE, FALSE) \in WordType /\ Word(3, FALSE, FALSE) \in WordType
  BY <1>1 DEF WordType, Word, NullWord
<1>5. m \in Memory
  <2> DEFINE N == [key : 1 .. MaxKey + 2, value : Value \cup {NoValue}, left : WordType, right : WordType]
  <2> DEFINE w2 == Word(2, FALSE, FALSE)
             w3 == Word(3, FALSE, FALSE)
  <2>5. MaxKey + 1 \in 1 .. MaxKey + 2 /\ MaxKey + 2 \in 1 .. MaxKey + 2
    BY <1>1
  <2>6. w2 \in WordType /\ w3 \in WordType
    BY <1>4
  <2> HIDE DEF w2, w3
  <2>7. [key |-> MaxKey + 2, value |-> NoValue, left |-> w2, right |-> w3] \in N
    BY <2>5, <2>6
  <2>8. Internal(MaxKey + 2, 2, 3) \in N
    BY <2>7 DEF Internal, w2, w3
  <2>1. Internal(MaxKey + 2, 2, 3) \in N /\ Leaf(MaxKey + 1, NoValue) \in N /\ Leaf(MaxKey + 2, NoValue) \in N
    BY <2>5, <2>8, <1>4 DEF Leaf
  <2> HIDE DEF N
  <2>2. \A n \in Node : m[n] \in N
    BY <2>1, <1>2
  <2>3. m \in [Node -> N]
    BY <2>2, <1>3
  <2> QED BY <2>3 DEF N, Memory
<1>6. /\ m[Root]["left"] = Word(2, FALSE, FALSE) /\ m[Root]["right"] = Word(3, FALSE, FALSE)
      /\ m[Root].key = MaxKey + 2
      /\ \A n \in Node \ {Root} : /\ \A s \in Sides : m[n][s] = NullWord
                                  /\ m[n].key > MaxKey /\ m[n].key \in 1 .. MaxKey + 2
      /\ m[2].key = MaxKey + 1
  <2>1. m[Root] = Internal(MaxKey + 2, 2, 3) /\ m[2] = Leaf(MaxKey + 1, NoValue)
    BY <1>1, <1>2
  <2>2. \A n \in Node \ {Root} : m[n] = Leaf(MaxKey + 1, NoValue) \/ m[n] = Leaf(MaxKey + 2, NoValue)
    BY <1>2
  <2>3. ASSUME NEW x, NEW e \in {MaxKey + 1, MaxKey + 2}, x = Leaf(e, NoValue)
        PROVE  (\A s \in Sides : x[s] = NullWord) /\ x.key > MaxKey /\ x.key \in 1 .. MaxKey + 2
    BY <2>3, <1>1 DEF Leaf, Sides
  <2>4. m[2].key = MaxKey + 1
    BY <2>1 DEF Leaf
  <2>5. /\ m[Root]["left"] = Word(2, FALSE, FALSE) /\ m[Root]["right"] = Word(3, FALSE, FALSE)
        /\ m[Root].key = MaxKey + 2
    BY <2>1 DEF Internal
  <2> QED BY <2>2, <2>3, <2>4, <2>5
<1>7. ~IsLeaf(m[Root]) /\ \A n \in Node \ {Root} : IsLeaf(m[n])
  BY <1>6, <1>1, SideFacts DEF IsLeaf, Word, NullWord
<1>8. Reachable(m) = L
  <2>1. L \subseteq Reachable(m)
    <3>1. Root \in Reachable(m)
      BY <1>5, ReachableLeast
    <3>2. m[Root]["left"].addr = 2 /\ m[Root]["right"].addr = 3
      BY <1>6 DEF Word
    <3>3. 2 \in Reachable(m) /\ 3 \in Reachable(m)
      BY <1>1, <1>5, <3>1, <3>2, SideFacts, ReachableLeast
    <3> QED BY <3>1, <3>3, <1>1
  <2>2. \A n \in L, s \in Sides : m[n][s].addr # NULL => m[n][s].addr \in L
    BY <1>1, <1>6, SideFacts DEF Word, NullWord, Sides
  <2>3. L \in SUBSET Node /\ Root \in L
    BY <1>1
  <2> QED BY <2>1, <2>2, <2>3, <1>5, ReachableLeast
<1>9. \A n \in Node, s \in Sides : IsFree(m[n][s])
  BY <1>6 DEF Sides, IsFree, Word, NullWord
<1>10. Shape(m)
  BY <1>1, <1>6, <1>7 DEF Shape, Sides, Word
<1>11. Sentinels(m, L)
  <2>1. m[Root].right = m[Root]["right"]
    OBVIOUS
  <2>2. 2 \in Node \ {Root} /\ 3 \in Node \ {Root} /\ 2 \in L
    BY <1>1
  <2> HIDE DEF L
  <2> QED BY <2>1, <2>2, <1>6, <1>7 DEF Sentinels
<1>12. OneParent(m, L)
  <2>1. m[Root]["left"].addr = 2 /\ m[Root]["right"].addr = 3
    BY <1>6 DEF Word
  <2>2. \A n \in Node \ {Root} : \A s \in Sides : m[n][s].addr = NULL
    BY <1>6 DEF NullWord, Word
  <2>3. L \subseteq Node
    BY <1>1
  <2> QED BY <2>1, <2>2, <2>3, <1>1 DEF OneParent, Sides
<1>13. LeavesFound(m, L)
  BY <1>1, <1>6, <1>7 DEF LeavesFound, Key
<1>14. Tree(m, Reachable(m))
  BY <1>5, <1>8, <1>10, <1>11, <1>12, <1>13 DEF Tree
<1>15. L \subseteq 1 .. 2 * 0 + 3
  OBVIOUS
<1>16. \A n \in L : IsLeaf(m[n]) => m[n].key > MaxKey
  BY <1>1, <1>6, <1>7
<1>17. Planted(m, 0)
  BY <1>8, <1>9, <1>14, <1>15, <1>16 DEF Planted
<1> QED BY <1>17 DEF m

(* The insert of one more key makes a tree of a tree. *)
LEMMA PlantedStep ==
  ASSUME NEW m, NEW i \in Nat, i + 1 <= Len(Prefill), Planted(m, i), NEW v \in Value
  PROVE  Planted(Plant(i + 1, m, v), i + 1)
<1> DEFINE k == Prefill[i + 1]
           L == Reachable(m)
           p == ParentFor(m, k)
           a == 2 * (i + 1) + 2
           n == 2 * (i + 1) + 3
           m2 == Plant(i + 1, m, v)
<1>1. /\ Tree(m, L) /\ L \subseteq 1 .. 2 * i + 3
      /\ \A x \in Node, s \in Sides : IsFree(m[x][s])
      /\ \A x \in L : IsLeaf(m[x]) => m[x].key > MaxKey \/ \E j \in 1 .. i : m[x].key = Prefill[j]
  BY DEF Planted
<1>2. /\ Len(Prefill) \in Nat /\ MaxKey \in Nat /\ NumNodes \in Nat /\ NumNodes >= 3 + 2 * Len(Prefill)
      /\ k \in Key
      /\ \A j \in 1 .. i : Prefill[j] # k
  <2>1. Prefill \in Seq(1 .. MaxKey) /\ Len(Prefill) \in Nat /\ DOMAIN Prefill = 1 .. Len(Prefill)
    BY BstAssumption
  <2>2. i + 1 \in DOMAIN Prefill /\ \A j \in 1 .. i : j \in DOMAIN Prefill /\ j # i + 1
    BY <2>1
  <2>3. k \in Key
    <3>1. i + 1 \in 1 .. Len(Prefill)
      BY <2>1
    <3>2. Prefill[i + 1] \in 1 .. MaxKey
      BY ONLY <2>1, <3>1, ElementOfSeq
    <3> QED BY <3>2 DEF Key
  <2>4. \A j \in 1 .. i : Prefill[j] # k
    BY <2>2, BstAssumption
  <2> QED BY <2>1, <2>3, <2>4, BstAssumption
<1> HIDE DEF k, L
<1>3. p \in Path(m, k) /\ \E c \in Turn(m, k)[p] : IsLeaf(m[c])
  BY <1>1, AboveLeaf DEF L, ParentFor
<1>4. /\ m \in Memory /\ L \in SUBSET Node /\ Root \in L
      /\ \A x \in L, s \in Sides : m[x][s].addr # NULL => m[x][s].addr \in L
      /\ \A x \in Node, s \in Sides : IsLeaf(m[x]) => m[x][s] = NullWord
  BY <1>1, TreeFacts
<1> HIDE DEF p
<1>5. p \in L /\ p \in Node
  BY <1>1, <1>3, <1>4, WalkInTree, PathIsWalk
<1>6. /\ Ahd(m, k, p) # NULL /\ IsLeaf(m[Ahd(m, k, p)]) /\ Ahd(m, k, p) \in L /\ ~IsLeaf(m[p])
      /\ m[Ahd(m, k, p)].key # k
  <2>1. \A x \in Turn(m, k)[p] : x # NULL /\ x = Ahd(m, k, p)
    BY <1>4, <1>5, Steps DEF Ahd
  <2>2. Ahd(m, k, p) # NULL /\ IsLeaf(m[Ahd(m, k, p)])
    BY <2>1, <1>3
  <2>3. SideOf(k, m[p]) \in Sides
    BY SideFacts
  <2>4. Ahd(m, k, p) \in L
    BY <2>2, <2>3, <1>4, <1>5 DEF Ahd
  <2>5. ~IsLeaf(m[p])
    BY <2>2, <2>3, <1>4, <1>5 DEF Ahd, NullWord, Word
  <2>6. m[Ahd(m, k, p)].key # k
    <3> DEFINE c == Ahd(m, k, p)
    <3> HIDE DEF c
    <3>1. m[c].key > MaxKey \/ \E j \in 1 .. i : m[c].key = Prefill[j]
      BY <2>2, <2>4, <1>1 DEF c
    <3>2. k \in 1 .. MaxKey
      BY <1>2 DEF Key
    <3>3. m[c].key # k
      BY <3>1, <3>2, <1>2
    <3> QED BY <3>3 DEF c
  <2> QED BY <2>2, <2>4, <2>5, <2>6
<1>7. a \in Node \ L /\ n \in Node \ L /\ a # n
  <2>1. a \notin L /\ n \notin L
    BY <1>1
  <2>2. a \in 1 .. NumNodes /\ n \in 1 .. NumNodes
    BY <1>2
  <2> QED BY <2>1, <2>2 DEF Node
<1>8. m2 = Grown(m, p, k, v, a, n)
  BY DEF Plant, p, k
<1> HIDE DEF m2
<1>9. GrowAt(m, L, p, k, v, a, n, m2)
  BY <1>1, <1>2, <1>3, <1>5, <1>6, <1>7, <1>8 DEF GrowAt
<1>10. L \cup {a, n} \subseteq 1 .. 2 * (i + 1) + 3
  BY <1>1
<1>11. \A j \in 1 .. i : j \in 1 .. i + 1
  OBVIOUS
<1>12. i + 1 \in 1 .. i + 1
  OBVIOUS
<1> HIDE DEF a, n
<1>13. Reachable(m2) = L \cup {a, n} /\ Tree(m2, L \cup {a, n})
  BY <1>9, GrowReach, GrowTree
<1>14. \A x \in Node, s \in Sides : IsFree(m2[x][s])
  <2>1. Grew(m, L, p, k, v, a, n, m2)
    BY <1>9, GrownFacts
  <2>2. \A x \in Node \ {a, n, p}, s \in Sides : IsFree(m2[x][s])
    BY <1>1, <2>1 DEF Grew
  <2>3. \A s \in Sides : IsFree(m2[a][s])
    BY <2>1 DEF Grew, NullWord, Word, IsFree
  <2>4. \A s \in Sides : IsFree(m2[n][s])
    BY <2>1, SideFacts DEF Grew, Word, IsFree
  <2>5. \A s \in Sides : IsFree(m2[p][s])
    <3> DEFINE d == SideOf(k, m[p])
    <3>1. m2[p][d] = Word(n, FALSE, FALSE) /\ m2[p][Sibling(d)] = m[p][Sibling(d)] /\ d \in Sides
      BY <2>1 DEF Grew
    <3> HIDE DEF d
    <3>2. IsFree(m2[p][d])
      BY <3>1 DEF Word, IsFree
    <3>3. IsFree(m2[p][Sibling(d)])
      BY <3>1, <1>1, <1>5, SideFacts
    <3> QED BY <3>1, <3>2, <3>3, SideFacts
  <2> QED BY <2>2, <2>3, <2>4, <2>5
<1>15. \A x \in L \cup {a, n} :
         IsLeaf(m2[x]) => m2[x].key > MaxKey \/ \E j \in 1 .. i + 1 : m2[x].key = Prefill[j]
  <2>1. /\ ~IsLeaf(m2[n]) /\ m2[a].key = k
        /\ \A x \in Node \ {a, n} : (IsLeaf(m2[x]) <=> IsLeaf(m[x])) /\ m2[x].key = m[x].key
    BY <1>9, GrowLeaves
  <2>2. \A x \in L \ {a, n} :
          IsLeaf(m2[x]) => m2[x].key > MaxKey \/ \E j \in 1 .. i + 1 : m2[x].key = Prefill[j]
    BY <2>1, <1>1, <1>4, <1>11
  <2>3. \E j \in 1 .. i + 1 : m2[a].key = Prefill[j]
    BY <2>1, <1>12 DEF k
  <2> QED BY <2>1, <2>2, <2>3
<1>16. Planted(m2, i + 1)
  BY <1>10, <1>13, <1>14, <1>15 DEF Planted
<1> QED BY <1>16 DEF m2

(* The tree of all sequential inserts. *)
LEMMA PrefilledPlanted ==
  ASSUME NEW v \in Value
  PROVE  Planted(Prefilled(v), Len(Prefill))
<1>1. Len(Prefill) \in Nat
  BY BstAssumption
<1>2. PICK g : Plants(g, Len(Prefill), v) /\ Prefilled(v) = g[Len(Prefill)]
  BY PrefilledDef
<1> DEFINE T == {i \in Nat : i <= Len(Prefill) => Planted(g[i], i)}
<1>3. g[0] = EmptyTree
  BY <1>1, <1>2 DEF Plants
<1>4. ASSUME NEW i \in Nat, i + 1 <= Len(Prefill) PROVE g[i + 1] = Plant(i + 1, g[i], v)
  <2>1. i + 1 \in 0 .. Len(Prefill) /\ i + 1 # 0 /\ (i + 1) - 1 = i
    BY <1>1, <1>4
  <2> QED BY <2>1, <1>2 DEF Plants
<1>5. 0 \in T
  BY <1>3, EmptyPlanted
<1>6. ASSUME NEW i \in Nat, i \in T PROVE i + 1 \in T
  <2>1. SUFFICES ASSUME i + 1 <= Len(Prefill) PROVE Planted(g[i + 1], i + 1)
    OBVIOUS
  <2>2. Planted(g[i], i)
    BY <1>1, <1>6, <2>1
  <2> QED BY <2>1, <2>2, <1>4, PlantedStep
<1> HIDE DEF T
<1>7. Len(Prefill) \in T
  BY <1>1, <1>5, <1>6, BySet
<1>8. Planted(g[Len(Prefill)], Len(Prefill))
  BY <1>1, <1>7 DEF T
<1> QED BY <1>2, <1>8

(* The initial states satisfy the inductive invariant. *)
LEMMA TreeInvInit == Init => TreeInv
<1> SUFFICES ASSUME Init PROVE TreeInv
  OBVIOUS
<1>1. PICK v \in Value : mem = Prefilled(v)
  BY DEF Init
<1>2. linked = Reachable(mem)
  BY DEF Init
<1>3. /\ Tree(mem, linked)
      /\ \A n \in Node, s \in Sides : IsFree(mem[n][s])
  BY <1>1, <1>2, PrefilledPlanted DEF Planted
<1>4. mem \in Memory /\ linked \in SUBSET Node
  BY <1>3, TreeFacts
<1>5. NoLocals \in Locals /\ NullWord \in WordType
  BY DEF NoLocals, Locals, NullWord, WordType, Word, NULL
<1>6. TypeOK
  <2>1. mem \in [Node -> [key : 1 .. MaxKey + 2, value : Value \cup {NoValue},
                          left : WordType, right : WordType]]
    BY <1>4 DEF Memory
  <2>2. dict \in [Key -> Value \cup {NoValue}]
    BY <1>4, ContentsType DEF Init
  <2>3. script \in [Thread -> Seq(SUBSET Call)]
    BY BstAssumption DEF Init
  <2> QED BY <1>4, <1>5, <2>1, <2>2, <2>3 DEF Init, TypeOK
<1>7. Words(mem, Node \ Available)
  BY <1>3 DEF Words, IsFree
<1>8. ASSUME NEW t \in Thread
      PROVE  /\ Pins(t) /\ Held(t) \subseteq Near(t) /\ Calls(t) /\ Seeking(t) /\ Removing(t) /\ Retiring(t)
             /\ Heading(t)
  <2>1. pc[t] = "idle" /\ call[t] = NoCall /\ loc[t] = NoLocals /\ owed[t] = {} /\ pinned[t] = {}
    BY DEF Init
  <2>2. Held(t) = {}
    BY <2>1 DEF Held, NoLocals, NullWord, Word
  <2>3. Calls(t)
    BY <2>1 DEF Calls, Injected, NoLocals
  <2> QED BY <2>1, <2>2, <2>3 DEF Pins, Seeking, Removing, Retiring, Heading
<1> QED BY <1>3, <1>6, <1>7, <1>8 DEF SafeInv, TreeInv


-----------------------------------------------------------------------------
(* Every step keeps the inductive invariant. *)
LEMMA TreeInvNext == TreeInv /\ [Next]_vars => TreeInv'
<1> SUFFICES ASSUME TreeInv, [Next]_vars PROVE TreeInv'
  OBVIOUS
<1>1. CASE Next
  <2>1. PICK t \in Thread : Step(t) \/ \E c \in Call : Invoke(t, c)
    BY <1>1 DEF Next
  <2> QED BY <2>1, TreeInvStep
<1>2. CASE UNCHANGED vars
  <2>1. /\ mem' = mem /\ pc' = pc /\ call' = call /\ loc' = loc /\ linked' = linked /\ dict' = dict
        /\ owed' = owed /\ pinned' = pinned /\ seen' = seen /\ answer' = answer /\ script' = script
    BY <1>2 DEF vars
  <2>2. SafeInv /\ \A t \in Thread : Heading(t)
    BY DEF TreeInv
  <2>3. TypeOK' /\ Tree(mem, linked)' /\ Words(mem, Node \ Available)'
    <3>1. TypeOK'
      BY <2>1, <2>2 DEF SafeInv, TypeOK
    <3>2. Tree(mem, linked)'
      <4>1. Tree(mem', linked')
        BY <2>1, <2>2 DEF SafeInv
      <4> QED BY <4>1 DEF Tree
    <3>3. Words(mem, Node \ Available)'
      <4>1. Available' = Available
        BY <2>1 DEF Available
      <4>2. Words(mem, Node \ Available)
        BY <2>2 DEF SafeInv
      <4> QED BY <2>1, <4>1, <4>2 DEF Words
    <3> QED BY <3>1, <3>2, <3>3
  <2>4. ASSUME NEW t \in Thread
        PROVE  (/\ Pins(t) /\ Held(t) \subseteq Near(t) /\ Calls(t) /\ Seeking(t) /\ Removing(t)
                /\ Retiring(t) /\ Heading(t))'
    <3>1. /\ Pins(t) /\ Held(t) \subseteq Near(t) /\ Calls(t) /\ Seeking(t) /\ Removing(t)
          /\ Retiring(t) /\ Heading(t)
      BY <2>2 DEF SafeInv
    <3>2. Pins(t)' /\ (Held(t) \subseteq Near(t))' /\ Calls(t)'
      BY <2>1, <3>1 DEF Pins, Near, Held, Calls, Injected
    <3>3. Seeking(t)' /\ Removing(t)' /\ Retiring(t)'
      BY <2>1, <3>1 DEF Seeking, Removing, Retiring, Memo, Other, Side, Chain
    <3>4. Heading(t)'
      BY <2>1, <3>1 DEF Heading, Injected, OnTheWay, Walk, Path
    <3> QED BY <3>2, <3>3, <3>4
  <2> QED BY <2>3, <2>4 DEF SafeInv, TreeInv
<1> QED BY <1>1, <1>2

(* The inductive invariant holds: the nodes from the root form a tree, in  *)
(* which leaves are where searches for their keys get to, only words of    *)
(* leaves are flagged and a marked word is beside a flagged one; what is   *)
(* cut off is frozen and hangs together; seeks know a chain of marked      *)
(* words below a free one, and get to nodes that were in the tree.         *)
THEOREM Invariance == Spec => []TreeInv
<1>1. Init => TreeInv
  BY TreeInvInit
<1>2. TreeInv /\ [Next]_vars => TreeInv'
  BY TreeInvNext
<1> QED BY <1>1, <1>2, PTL DEF Spec

(* The nodes, the threads and the history have their types. *)
THEOREM TypeCorrect == Spec => []TypeOK
<1>1. TreeInv => TypeOK
  BY DEF TreeInv, SafeInv
<1> QED BY <1>1, Invariance, PTL

(* What a thread holds was in the tree at some moment since its guard      *)
(* opened, and retireDeletedNodes retires what its thread's CAS has cut    *)
(* off, each node once, and nothing else: for any number of threads, of    *)
(* nodes and of keys.                                                      *)
THEOREM ReclamationSafe == Spec => []NodesReclaimed
<1>1. TreeInv => NodesReclaimed
  <2> SUFFICES ASSUME TreeInv, NEW t \in Thread
               PROVE  /\ Held(t) \subseteq linked \cup pinned[t]
                      /\ pc[t] # "retire" => owed[t] = {}
                      /\ pc[t] = "retire" /\ Retires(t, Head(loc[t].todo)) => Head(loc[t].todo).node \in owed[t]
    BY DEF NodesReclaimed
  <2>1. /\ TypeOK /\ Held(t) \subseteq Near(t) /\ Retiring(t)
    BY DEF TreeInv, SafeInv
  <2>2. ASSUME pc[t] = "retire", Retires(t, Head(loc[t].todo))
        PROVE  Head(loc[t].todo).node \in owed[t]
    <3> DEFINE todo == loc[t].todo
    <3>1. todo # <<>> /\ Debt(mem, owed[t], loc[t].pS.addr, todo)
      BY <2>1, <2>2 DEF Retiring
    <3>2. todo \in Seq([node : Node, flagged : BOOLEAN])
      <4>1. loc[t] \in Locals
        BY <2>1 DEF TypeOK
      <4> QED BY <4>1 DEF Locals
    <3>3. Head(todo).node # loc[t].pS.addr
      BY <2>2 DEF Retires
    <3> HIDE DEF todo
    <3>4. 1 \in DOMAIN todo /\ Head(todo) = todo[1]
      BY <3>1, <3>2
    <3>5. todo[1].node \in owed[t]
      BY <3>1, <3>3, <3>4 DEF Debt
    <3> QED BY <3>4, <3>5 DEF todo
  <2> QED BY <2>1, <2>2 DEF Near, Retiring
<1> QED BY <1>1, Invariance, PTL

(* A word that is flagged or marked keeps its address and its flag, and a  *)
(* mark stays, for as long as anybody may follow it.                       *)
THEOREM WordsFrozen == Spec => FrozenWords
<1> DEFINE Frozen == \A n \in Node \ Available, s \in Sides :
                       ~IsFree(mem[n][s]) => /\ mem'[n][s].addr = mem[n][s].addr
                                             /\ mem'[n][s].flag = mem[n][s].flag
                                             /\ mem[n][s].mark => mem'[n][s].mark
<1>1. TreeInv /\ [Next]_vars => [Frozen]_vars
  <2> SUFFICES ASSUME TreeInv, Next PROVE Frozen
    OBVIOUS
  <2>1. PICK t \in Thread : Step(t) \/ \E c \in Call : Invoke(t, c)
    BY DEF Next
  <2>2. Moves(t)
    BY <2>1, TreeInvStep
  <2>3. Calm
    BY <2>2 DEF Moves, Gentle
  <2> QED BY <2>3 DEF Calm, Kept
<1> QED BY <1>1, Invariance, PTL DEF Spec, FrozenWords


-----------------------------------------------------------------------------
(* What a search finds. *)

(* A search goes by the turn at its first node. *)
LEMMA WalkStep ==
  ASSUME NEW m \in Memory, NEW k, NEW n \in Node, NEW b \in Walk(m, k, n), b # n
  PROVE  Ahd(m, k, n) \in Node /\ b \in Walk(m, k, Ahd(m, k, n))
<1> DEFINE c == Ahd(m, k, n)
<1>1. SideOf(k, m[n]) \in Sides /\ c \in Node \cup {NULL}
  BY SideFacts, WordOf DEF Ahd
<1>2. ASSUME c = NULL PROVE FALSE
  <2>1. {n} \in SUBSET Node /\ \A x \in {n} : Ahd(m, k, x) # NULL => Ahd(m, k, x) \in {n}
    BY <1>2
  <2>2. Walk(m, k, n) \subseteq {n}
    BY <2>1, WalkLeast
  <2> QED BY <2>2
<1>3. c \in Node
  BY <1>1, <1>2
<1> DEFINE S == {n} \cup Walk(m, k, c)
<1>4. /\ S \in SUBSET Node /\ n \in S
      /\ \A x \in S : Ahd(m, k, x) # NULL => Ahd(m, k, x) \in S
  BY <1>3, WalkLeast
<1> HIDE DEF S
<1>5. Walk(m, k, n) \subseteq S
  BY <1>4, WalkLeast
<1> QED BY <1>3, <1>5 DEF S

(* A search from a leaf ends there. *)
LEMMA LeafWalk ==
  ASSUME NEW m \in Memory, Shape(m), NEW k, NEW a \in Node, IsLeaf(m[a])
  PROVE  Walk(m, k, a) = {a}
<1>1. Ahd(m, k, a) = NULL
  BY SideFacts DEF Ahd, Shape, NullWord, Word
<1>2. {a} \in SUBSET Node /\ \A x \in {a} : Ahd(m, k, x) # NULL => Ahd(m, k, x) \in {a}
  BY <1>1
<1>3. Walk(m, k, a) \subseteq {a} /\ a \in Walk(m, k, a)
  BY <1>2, WalkLeast
<1> QED BY <1>3

(* A search comes to one leaf at most. *)
LEMMA OneLeaf ==
  ASSUME NEW m \in Memory, Shape(m), NEW k, NEW n \in Node,
         NEW a \in Walk(m, k, n), NEW b \in Walk(m, k, n), IsLeaf(m[a]), IsLeaf(m[b])
  PROVE  a = b
<1> DEFINE S == {x \in Walk(m, k, n) : a \in Walk(m, k, x)}
<1>1. /\ Walk(m, k, n) \in SUBSET Node /\ n \in Walk(m, k, n)
      /\ \A x \in Walk(m, k, n) : Ahd(m, k, x) # NULL => Ahd(m, k, x) \in Walk(m, k, n)
  BY WalkLeast
<1>2. Ahd(m, k, a) = NULL
  BY <1>1, SideFacts DEF Ahd, Shape, NullWord, Word
<1>3. ASSUME NEW x \in S, Ahd(m, k, x) # NULL PROVE Ahd(m, k, x) \in S
  <2>1. x \in Node /\ x # a /\ a \in Walk(m, k, x)
    BY <1>1, <1>2, <1>3
  <2>2. a \in Walk(m, k, Ahd(m, k, x))
    BY <2>1, WalkStep
  <2> QED BY <1>1, <1>3, <2>2
<1>4. S \in SUBSET Node /\ n \in S
  BY <1>1
<1> HIDE DEF S
<1>5. Walk(m, k, n) \subseteq S
  BY <1>3, <1>4, WalkLeast
<1>6. a \in Walk(m, k, b)
  BY <1>5 DEF S
<1>7. Walk(m, k, b) = {b}
  BY <1>1, LeafWalk
<1> QED BY <1>6, <1>7

(* The leaf of a key in the tree is the only one and has its value. *)
LEMMA ContentsLeaf ==
  ASSUME NEW m, NEW L, Tree(m, L), NEW a \in L, IsLeaf(m[a]), m[a].key \in Key
  PROVE  /\ Contents(m)[m[a].key] = m[a].value /\ m[a].value \in Value
         /\ a \in Path(m, m[a].key)
         /\ \A b \in L : IsLeaf(m[b]) /\ m[b].key = m[a].key => b = a
<1> DEFINE k == m[a].key
<1>1. m \in Memory /\ Shape(m) /\ Root \in Node
  BY NodeFacts DEF Tree
<1>2. \A b \in L : IsLeaf(m[b]) /\ m[b].key \in Key => m[b].value \in Value /\ b \in Walk(m, m[b].key, Root)
  BY PathIsWalk DEF Tree, LeavesFound
<1>3. a \in Walk(m, k, Root) /\ m[a].value \in Value
  BY <1>2
<1>4. \A b \in Walk(m, k, Root) : IsLeaf(m[b]) => b = a
  BY <1>1, <1>3, OneLeaf
<1>5. LeavesAt(m, k) = {a}
  BY <1>3, <1>4, PathIsWalk DEF LeavesAt
<1>6. Contents(m)[k] = m[a].value
  <2>1. (CHOOSE n \in {a} : TRUE) = a
    OBVIOUS
  <2>2. Contents(m)[k] = m[CHOOSE n \in {a} : TRUE].value
    BY <1>5 DEF Contents
  <2> QED BY <2>1, <2>2
<1> QED BY <1>2, <1>3, <1>4, <1>6, PathIsWalk

(* A key without a leaf has no value. *)
LEMMA ContentsNone ==
  ASSUME NEW m, NEW L, Tree(m, L), NEW k \in Key, \A a \in L : ~(IsLeaf(m[a]) /\ m[a].key = k)
  PROVE  Contents(m)[k] = NoValue
<1>1. Root \in L
  BY TreeFacts
<1>2. Walk(m, k, Root) \subseteq L
  BY <1>1, WalkInTree
<1>3. LeavesAt(m, k) = {}
  BY <1>2, PathIsWalk DEF LeavesAt
<1> QED BY <1>3 DEF Contents


-----------------------------------------------------------------------------
(* A word of the tree that leads to a node that was in it already took the *)
(* address from a word of the tree, and its flag unless a step has set it. *)
LEMMA LinkedWords ==
  ASSUME SafeInv, SafeInv', NEW t \in Thread, Moves(t),
         NEW n \in linked', NEW s \in Sides, mem'[n][s].addr \in Kept
  PROVE  \E p \in linked, r \in Sides :
           /\ mem[p][r].addr = mem'[n][s].addr
           /\ mem[p][r].flag => mem'[n][s].flag
           /\ mem'[n][s].flag => mem[p][r].flag \/ SetsBits
<1>1. /\ mem \in Memory /\ mem' \in Memory /\ Kept \in SUBSET Node /\ linked \subseteq Kept
      /\ Calm /\ Tree(mem, linked)
  BY Keeps DEF SafeInv, Tree, Moves, Gentle
<1>2. CASE mem' = mem /\ linked' = linked
  BY <1>2
<1>3. CASE SetsBits
  <2>1. PICK p \in Kept, d \in Sides, w \in WordType :
          OneWord(mem, mem', p, d, w) /\ w.addr = mem[p][d].addr
    BY <1>3 DEF SetsBits
  <2>2. mem'[n][s].addr = mem[n][s].addr /\ n \in linked /\ n \in Kept
    BY <2>1, <1>1, <1>3 DEF OneWord, SetsBits
  <2>3. mem[n][s].flag => mem'[n][s].flag
    BY <2>2, <1>1 DEF Calm, IsFree
  <2> QED BY <2>2, <2>3, <1>3
<1>4. CASE Grows(t)
  <2> DEFINE p == loc[t].parent
             k == call[t].key
             v == call[t].value
             d == SideOf(k, mem[p])
             e == Ahd(mem, k, p)
  <2>1. PICK a, i \in Node \ Kept : GrowAt(mem, linked, p, k, v, a, i, mem')
    BY <1>4 DEF Grows
  <2> HIDE DEF p, k, v
  <2>2. p \in linked /\ p \in Kept /\ d \in Sides
    BY <2>1, <1>1, SideFacts DEF GrowAt
  <2>3. linked' = linked \cup {a, i}
    BY <2>1, <1>4, GrowReach DEF Grows
  <2>4. Grew(mem, linked, p, k, v, a, i, mem')
    BY <2>1, GrownFacts
  <2>5. e \in linked
    BY <2>4 DEF Grew
  <2>6. IsFree(mem[p][d])
    <3>1. mem'[p][d].addr = i
      BY <2>4 DEF Grew, Word
    <3>2. mem'[p][d].addr # mem[p][d].addr
      BY <3>1, <2>5, <1>1 DEF Ahd
    <3> QED BY <3>2, <2>2, <1>1 DEF Calm
  <2>7. CASE n = a
    <3>1. mem'[n][s] = NullWord
      BY <2>7, <2>4 DEF Grew
    <3> QED BY <3>1, <1>1, NodeFacts DEF NullWord, Word
  <2>8. CASE n = i
    <3>1. PICK r \in Sides : mem'[i][r] = Word(a, FALSE, FALSE) /\ mem'[i][Sibling(r)] = Word(e, FALSE, FALSE)
      BY <2>4 DEF Grew
    <3>2. mem'[n][s] = Word(e, FALSE, FALSE)
      BY <3>1, <2>8, SideFacts DEF Word
    <3> HIDE DEF e
    <3>3. mem'[n][s].addr = e /\ mem'[n][s].flag = FALSE
      BY <3>2 DEF Word
    <3>4. mem[p][d].addr = e /\ mem[p][d].flag = FALSE
      BY <2>6, <1>1, <2>2, WordOf DEF e, Ahd, IsFree
    <3> QED BY <3>3, <3>4, <2>2
  <2>9. CASE n \notin {a, i, p}
    BY <2>9, <2>3, <2>4, <1>1 DEF Grew
  <2>10. CASE n = p /\ s = d
    <3>1. mem'[n][s].addr = i
      BY <2>10, <2>4 DEF Grew, Word
    <3> QED BY <3>1
  <2>11. CASE n = p /\ s = Sibling(d)
    BY <2>11, <2>2, <2>4 DEF Grew
  <2> QED BY <2>2, <2>7, <2>8, <2>9, <2>10, <2>11, SideFacts
<1>5. CASE Cuts(t)
  <2> DEFINE lum == loc[t].lum
             d == Side(t, lum)
             parent == loc[t].parent
  <2>1. PICK r \in Sides : CutAt(mem, linked, lum, d, parent, r, mem')
    BY <1>5 DEF Cuts
  <2>2. linked' = Reachable(mem')
    BY <1>5 DEF Cuts
  <2> HIDE DEF lum, d, parent
  <2>3. /\ Reachable(mem') \subseteq linked /\ parent \in linked
        /\ mem'[lum][d] = Promoted(mem[parent][r])
        /\ \A x \in Node, y \in Sides : x # lum \/ y # d => mem'[x][y] = mem[x][y]
    BY <2>1, CutBasics
  <2>4. CASE n = lum /\ s = d
    <3>1. mem'[n][s].addr = mem[parent][r].addr /\ mem'[n][s].flag = mem[parent][r].flag
      BY <2>3, <2>4 DEF Promoted, Word
    <3> QED BY <3>1, <2>3
  <2>5. CASE n # lum \/ s # d
    BY <2>2, <2>3, <2>5, <1>1
  <2> QED BY <2>4, <2>5
<1> QED BY <1>2, <1>3, <1>4, <1>5 DEF Moves

(* Only the two actions that swing take a node out of the tree. *)
LEMMA OnlyCutsShrink ==
  ASSUME SafeInv, NEW t \in Thread, Moves(t), NEW a \in linked \ linked'
  PROVE  Cuts(t) /\ linked' \subseteq linked
<1>1. CASE Grows(t)
  <2>1. PICK b, i \in Node \ Kept :
          GrowAt(mem, linked, loc[t].parent, call[t].key, call[t].value, b, i, mem')
    BY <1>1 DEF Grows
  <2>2. linked' = linked \cup {b, i}
    BY <2>1, <1>1, GrowReach DEF Grows
  <2> QED BY <2>2
<1>2. CASE Cuts(t)
  <2>1. PICK s \in Sides :
          CutAt(mem, linked, loc[t].lum, Side(t, loc[t].lum), loc[t].parent, s, mem')
    BY <1>2 DEF Cuts
  <2>2. Reachable(mem') \subseteq linked
    BY <2>1, CutBasics
  <2> QED BY <2>2, <1>2 DEF Cuts
<1> QED BY <1>1, <1>2 DEF Moves, SetsBits

-----------------------------------------------------------------------------
(* The leaf that a deletion has flagged. *)
LEMMA OwnKept ==
  ASSUME SafeInv, SafeInv', NEW t \in Thread, Moves(t), NEW u \in Thread, OwnLeaf(u), Injected(u),
         call'[u] = call[u], loc'[u].leaf = loc[u].leaf, loc'[u].retval = loc[u].retval
  PROVE  LET a == loc[u].leaf
         IN  /\ a \in Near(u) /\ a \in Kept /\ a \in Node
             /\ a \in linked' => a \in linked
             /\ call[u].op = "erase" /\ call[u].key \in Key
             /\ IsLeaf(mem'[a]) /\ mem'[a].key = call'[u].key /\ mem'[a].value = loc'[u].retval
             /\ Flagged(mem', linked', a)
<1> DEFINE a == loc[u].leaf
<1>1. Calm /\ Gentle /\ Kept \in SUBSET Node
  BY Mine DEF Moves, Gentle
<1>2. a \in Near(u) /\ a \in Kept /\ a \in Node
  <2>1. a # NULL /\ Held(u) \subseteq Near(u) /\ Near(u) \subseteq Kept
    BY Mine DEF Injected
  <2>2. a \in Held(u)
    BY <2>1 DEF Held
  <2> QED BY <2>1, <2>2, <1>1
<1>3. call[u].op = "erase" /\ call[u].key \in Key
  <2>1. call[u].op = "erase" /\ TypeOK
    BY Mine DEF Calls
  <2>2. call[u] \in Call \cup {NoCall}
    BY <2>1 DEF TypeOK
  <2> QED BY <2>1, <2>2 DEF Call, NoCall
<1>4. IsLeaf(mem[a]) /\ mem[a].key = call[u].key /\ mem[a].value = loc[u].retval /\ Flagged(mem, linked, a)
  BY DEF OwnLeaf
<1> HIDE DEF a
<1>5. IsLeaf(mem'[a]) /\ mem'[a].key = call[u].key /\ mem'[a].value = loc[u].retval
  BY <1>1, <1>2, <1>4 DEF Calm
<1>6. Flagged(mem', linked', a)
  <2> SUFFICES ASSUME NEW n \in linked', NEW s \in Sides, mem'[n][s].addr = a
               PROVE  mem'[n][s].flag
    BY DEF Flagged
  <2>1. PICK p \in linked, r \in Sides : mem[p][r].addr = a /\ (mem[p][r].flag => mem'[n][s].flag)
    BY <1>2, LinkedWords
  <2> QED BY <2>1, <1>4 DEF Flagged
<1>7. a \in linked' => a \in linked
  BY <1>1, <1>2 DEF Gentle
<1> QED BY <1>2, <1>3, <1>5, <1>6, <1>7 DEF a

(* The words on the way of a seek to its own leaf stay flagged. *)
LEMMA WayFlagged ==
  ASSUME SafeInv, SafeInv', NEW t \in Thread, Moves(t), NEW u \in Thread, NEW n \in Near(u), NEW k,
         NEW a \in Kept, Flagged(mem, Walk(mem, k, n), a), Flagged(mem', linked', a)
  PROVE  Flagged(mem', Walk(mem', k, n), a)
<1>1. PICK w : Bends(w)
  BY MovesBend
<1>2. Gentle /\ Calm
  BY DEF Moves, Gentle
<1>3. Walk(mem, k, n)' \subseteq Walk(mem, k, n) \cup linked'
  BY <1>1, <1>2, BentWalk
<1>4. Walk(mem, k, n) \subseteq Kept
  BY WalkNear
<1>5. ASSUME NEW x \in Walk(mem, k, n), x \notin linked', NEW s \in Sides, mem'[x][s].addr = a
      PROVE  mem'[x][s].flag
  <2>1. x \in Kept /\ x # w
    BY <1>1, <1>4, <1>5 DEF Bends
  <2>2. mem[x][s].addr = a
    BY <1>1, <1>5, <2>1 DEF Bends
  <2>3. mem[x][s].flag
    BY <1>5, <2>2 DEF Flagged
  <2> QED BY <2>1, <2>3, <1>2 DEF Calm, IsFree
<1>6. Flagged(mem', Walk(mem, k, n)', a)
  BY <1>3, <1>5 DEF Flagged
<1> QED BY <1>6 DEF Walk


-----------------------------------------------------------------------------
(* What a step leaves of the invariant of the refinement. *)

(* Trees with the same leaf of k have the same value for k. *)
LEMMA ContentsAt ==
  ASSUME NEW m, NEW L, Tree(m, L), NEW m2, NEW L2, Tree(m2, L2), NEW k \in Key,
         \A a \in L : IsLeaf(m[a]) /\ m[a].key = k =>
           a \in L2 /\ IsLeaf(m2[a]) /\ m2[a].key = k /\ m2[a].value = m[a].value,
         \A a \in L2 : IsLeaf(m2[a]) /\ m2[a].key = k => a \in L /\ IsLeaf(m[a]) /\ m[a].key = k
  PROVE  Contents(m2)[k] = Contents(m)[k]
<1>1. CASE \E a \in L : IsLeaf(m[a]) /\ m[a].key = k
  <2>1. PICK a \in L : IsLeaf(m[a]) /\ m[a].key = k
    BY <1>1
  <2>2. a \in L2 /\ IsLeaf(m2[a]) /\ m2[a].key = k /\ m2[a].value = m[a].value
    BY <2>1
  <2>3. Contents(m)[k] = m[a].value
    BY <2>1, ContentsLeaf
  <2>4. Contents(m2)[k] = m2[a].value
    BY <2>2, ContentsLeaf
  <2> QED BY <2>2, <2>3, <2>4
<1>2. CASE \A a \in L : ~(IsLeaf(m[a]) /\ m[a].key = k)
  <2>1. \A a \in L2 : ~(IsLeaf(m2[a]) /\ m2[a].key = k)
    BY <1>2
  <2> QED BY <1>2, <2>1, ContentsNone
<1> QED BY <1>1, <1>2

(* A step that does not change which nodes are in the tree does not change *)
(* what a search finds.                                                    *)
LEMMA DictSame ==
  ASSUME SafeInv, SafeInv', Gentle, dict = Contents(mem), linked' = linked, dict' = dict
  PROVE  dict' = Contents(mem')
<1>1. /\ Tree(mem, linked) /\ Tree(mem', linked) /\ linked \subseteq Kept /\ Calm
      /\ mem \in Memory /\ mem' \in Memory
  BY Keeps DEF SafeInv, Tree, Gentle
<1>2. ASSUME NEW k \in Key PROVE Contents(mem')[k] = Contents(mem)[k]
  <2>1. \A a \in linked : /\ IsLeaf(mem'[a]) <=> IsLeaf(mem[a])
                          /\ mem'[a].key = mem[a].key /\ mem'[a].value = mem[a].value
    BY <1>1 DEF Calm
  <2> QED BY <1>1, <2>1, ContentsAt
<1>3. Contents(mem) \in [Key -> Value \cup {NoValue}] /\ Contents(mem') \in [Key -> Value \cup {NoValue}]
  BY <1>1, ContentsType
<1> QED BY <1>2, <1>3

SeesOn(u) ==
  /\ call[u] = NoCall => seen'[u] = {}
  /\ call[u] # NoCall => seen[u] \subseteq seen'[u] /\ dict'[call[u].key] \in seen'[u]

(* A step that changes neither dict nor seen. *)
LEMMA SeesSame ==
  ASSUME NEW u, SeenInv(u), dict' = dict, seen'[u] = seen[u]
  PROVE  SeesOn(u)
BY DEF SeesOn, SeenInv

(* A thread with a call has a key. *)
LEMMA KeyOf ==
  ASSUME TypeOK, NEW u \in Thread, call[u] # NoCall
  PROVE  call[u] \in Call /\ call[u].key \in Key
<1>1. call[u] \in Call
  BY DEF TypeOK
<1> QED BY <1>1 DEF Call

(* What t's key has now, and what its leaves have, stays in seen. *)
LEMMA SeenKept ==
  ASSUME SafeInv, SafeInv', Gentle, dict' = Contents(mem'), NEW u \in Thread, SeenInv(u),
         call'[u] = call[u], SeesOn(u), Near(u)' \subseteq Near(u) \cup linked'
  PROVE  SeenInv(u)'
<1>1. CASE call[u] = NoCall
  BY <1>1 DEF SeenInv, SeesOn
<1>2. CASE call[u] # NoCall
  <2> DEFINE k == call[u].key
  <2>1. TypeOK /\ Tree(mem', linked') /\ Near(u) \subseteq Kept /\ Calm
    BY Mine DEF SafeInv, Gentle
  <2>2. k \in Key
    BY <1>2, <2>1, KeyOf
  <2>3. /\ dict[k] \in seen[u] /\ seen[u] \subseteq seen'[u] /\ dict'[k] \in seen'[u]
        /\ \A a \in Near(u) : IsLeaf(mem[a]) /\ mem[a].key = k => mem[a].value \in seen[u] \ {NoValue}
    BY <1>2 DEF SeenInv, SeesOn
  <2> HIDE DEF k
  <2>4. ASSUME NEW a \in Near(u)', IsLeaf(mem'[a]), mem'[a].key = k
        PROVE  mem'[a].value \in seen'[u] \ {NoValue}
    <3>1. CASE a \in linked'
      <4>1. Contents(mem')[k] = mem'[a].value /\ mem'[a].value \in Value
        BY <2>1, <2>2, <2>4, <3>1, ContentsLeaf
      <4> QED BY <4>1, <2>3, BstAssumption
    <3>2. CASE a \in Near(u)
      <4>1. IsLeaf(mem[a]) /\ mem[a].key = k /\ mem'[a].value = mem[a].value
        BY <3>2, <2>1, <2>4 DEF Calm
      <4> QED BY <4>1, <3>2, <2>3
    <3> QED BY <2>4, <3>1, <3>2
  <2> QED BY <1>2, <2>3, <2>4 DEF SeenInv, k
<1> QED BY <1>1, <1>2

(* A leaf that a search would find it still finds unless it is cut off. *)
LEMMA LeafAhead ==
  ASSUME SafeInv, SafeInv', NEW t \in Thread, Moves(t), NEW u \in Thread, NEW n \in Near(u), NEW k,
         NEW b \in Walk(mem, k, n), mem[b].key = k, b \notin linked \ linked'
  PROVE  b \in Walk(mem', k, n) /\ b \in Near(u) /\ b \in Kept
<1>1. PICK w : Bends(w)
  BY MovesBend
<1>2. Walk(mem, k, n) \subseteq Near(u) /\ Near(u) \subseteq Kept
  BY WalkNear
<1>3. n \in Kept /\ Walk(mem, k, n) \subseteq Kept
  BY <1>2
<1>4. b \in Walk(mem, k, n)'
  BY <1>1, <1>3 DEF Bends
<1> QED BY <1>2, <1>4 DEF Walk

(* A search that finds its key, or need not, still does after a step: a    *)
(* leaf that is cut off leaves NoValue in seen.                            *)
LEMMA AheadKept ==
  ASSUME SafeInv, SafeInv', NEW t \in Thread, Moves(t), dict' = Contents(mem'),
         NEW u \in Thread, NEW n \in Near(u), Ahead(u, n), call'[u] = call[u], call[u] # NoCall, SeesOn(u)
  PROVE  Ahead(u, n)'
<1>0. PICK k : k = call[u].key
  OBVIOUS
<1>1. /\ TypeOK /\ Tree(mem', linked') /\ Tree(mem, linked) /\ Near(u) \subseteq Kept /\ Calm
      /\ linked \subseteq Kept
  BY Mine DEF SafeInv, Moves, Gentle
<1>2. k \in Key /\ seen[u] \subseteq seen'[u] /\ dict'[k] \in seen'[u]
  BY <1>0, <1>1, KeyOf DEF SeesOn
<1>3. CASE NoValue \in seen[u]
  BY <1>2, <1>3 DEF Ahead
<1>4. CASE NoValue \notin seen[u]
  <2>1. PICK a \in Walk(mem, k, n) : IsLeaf(mem[a]) /\ mem[a].key = k
    BY <1>0, <1>4 DEF Ahead
  <2>2. CASE a \notin linked \ linked'
    <3>1. a \in Walk(mem', k, n) /\ a \in Kept
      BY <2>1, <2>2, LeafAhead
    <3>2. IsLeaf(mem'[a]) /\ mem'[a].key = k
      BY <3>1, <2>1, <1>1 DEF Calm
    <3> QED BY <1>0, <3>1, <3>2 DEF Ahead, Walk
  <2>3. CASE a \in linked \ linked'
    <3>1. linked' \subseteq linked
      BY <2>3, OnlyCutsShrink
    <3>2. \A b \in linked : IsLeaf(mem[b]) /\ mem[b].key = k => b = a
      BY <1>1, <1>2, <2>1, <2>3, ContentsLeaf
    <3>3. \A b \in linked' : ~(IsLeaf(mem'[b]) /\ mem'[b].key = k)
      BY <3>1, <3>2, <2>3, <1>1 DEF Calm
    <3>4. dict'[k] = NoValue
      BY <3>3, <1>1, <1>2, ContentsNone
    <3> QED BY <3>4, <1>2 DEF Ahead
  <2> QED BY <2>2, <2>3
<1> QED BY <1>3, <1>4

(* The threads that do not move. *)
LEMMA OthersDict ==
  ASSUME SafeInv, SafeInv', NEW t \in Thread, Moves(t), dict' = Contents(mem'),
         NEW u \in Thread, u # t, SeesOn(u), SeenInv(u), SearchInv(u), OwnLeaf(u), Answers(u)
  PROVE  SeenInv(u)' /\ SearchInv(u)' /\ OwnLeaf(u)' /\ Answers(u)'
<1>1. /\ pc'[u] = pc[u] /\ call'[u] = call[u] /\ loc'[u] = loc[u] /\ Gentle /\ mem' \in Memory
      /\ Near(u)' \subseteq Near(u) \cup linked'
  BY DEF Moves, Stands, SafeInv, Tree, Near
<1>2. SeenInv(u)'
  BY <1>1, SeenKept
<1>3. /\ Calls(u) /\ Held(u) \subseteq Near(u) /\ Removing(u) /\ Seeking(u) /\ TypeOK
  BY Mine
<1>4. pc[u] # "idle" => seen[u] \subseteq seen'[u] /\ call[u] # NoCall
  BY <1>3 DEF Calls, SeesOn
<1>5. SearchInv(u)'
  <2>1. ASSUME pc[u] = "find" PROVE Ahead(u, loc[u].cur)'
    <3>1. PICK n : n = loc[u].cur
      OBVIOUS
    <3>2. n \in Near(u)
      <4>1. n # NULL
        BY <1>3, <2>1, <3>1 DEF Removing
      <4> QED BY <3>1, <4>1, <1>3 DEF Held
    <3>3. Ahead(u, n)
      BY <2>1, <3>1 DEF SearchInv
    <3>4. Ahead(u, n)'
      BY <3>2, <3>3, <1>1, <1>4, <2>1, AheadKept
    <3> QED BY <3>1, <3>4, <1>1 DEF Ahead
  <2>2. ASSUME pc[u] = "seek", ~Injected(u) PROVE Ahead(u, loc[u].pL.addr)'
    <3>1. PICK n : n = loc[u].pL.addr
      OBVIOUS
    <3>2. n \in Near(u)
      BY <2>2, <3>1, ParentSide
    <3>3. Ahead(u, n)
      BY <2>2, <3>1 DEF SearchInv
    <3>4. Ahead(u, n)'
      BY <3>2, <3>3, <1>1, <1>4, <2>2, AheadKept
    <3> QED BY <3>1, <3>4, <1>1 DEF Ahead
  <2> QED BY <2>1, <2>2, <1>1 DEF SearchInv, Injected
<1>6. OwnLeaf(u)'
  <2> SUFFICES ASSUME Injected(u) PROVE OwnLeaf(u)'
    BY <1>1 DEF OwnLeaf, Injected
  <2>0. PICK a, n, k : a = loc[u].leaf /\ n = loc[u].pL.addr /\ k = call[u].key
    OBVIOUS
  <2>1. /\ a \in Near(u) /\ a \in Kept /\ (a \in linked' => a \in linked)
        /\ IsLeaf(mem'[a]) /\ mem'[a].key = call'[u].key /\ mem'[a].value = loc'[u].retval
        /\ Flagged(mem', linked', a)
    BY <1>1, <2>0, OwnKept
  <2>2. /\ mem[a].key = k
        /\ pc[u] = "seek" => /\ a \in linked => a \in Walk(mem, k, n)
                             /\ Flagged(mem, Walk(mem, k, n), a)
                             /\ n = a => loc[u].pL.flag
        /\ pc[u] \in {"mark", "read", "swing"} => Memo(u).addr = a
        /\ pc[u] \in {"retire", "return"} => a \notin linked
    BY <2>0 DEF OwnLeaf
  <2>3. ASSUME pc[u] = "seek"
        PROVE  /\ a \in linked' => a \in Walk(mem', k, n)
               /\ Flagged(mem', Walk(mem', k, n), a)
    <3>1. n \in Near(u)
      BY <2>0, <2>3, ParentSide
    <3>2. Flagged(mem', Walk(mem', k, n), a)
      BY <2>1, <2>2, <2>3, <3>1, WayFlagged
    <3>3. a \in linked' => a \in Walk(mem', k, n)
      BY <2>1, <2>2, <2>3, <3>1, LeafAhead
    <3> QED BY <3>2, <3>3
  <2>4. ASSUME pc[u] \in {"mark", "read", "swing"} PROVE Memo(u)'.addr = a
    <3>1. ~IsFree(Memo(u))
      BY <2>4, <1>3 DEF Removing, IsFree
    <3>2. Memo(u)'.addr = Memo(u).addr
      BY <1>1, <2>4, <3>1, StillSeeking
    <3> QED BY <3>2, <2>2, <2>4
  <2> QED BY <1>1, <2>0, <2>1, <2>2, <2>3, <2>4 DEF OwnLeaf, Walk
<1>7. Answers(u)'
  BY <1>1, <1>4 DEF Answers, Injected
<1> QED BY <1>2, <1>5, <1>6, <1>7


-----------------------------------------------------------------------------
(* Who owns a flagged leaf. *)
NoNewFlags ==
  \A n \in linked', s \in Sides :
    mem'[n][s].flag => \E p \in linked, r \in Sides : mem[p][r].flag /\ mem[p][r].addr = mem'[n][s].addr

(* A step that sets no bit does not flag another leaf. *)
LEMMA FlagsKept ==
  ASSUME SafeInv, SafeInv', NEW t \in Thread, Moves(t), ~SetsBits
  PROVE  NoNewFlags
<1> SUFFICES ASSUME NEW n \in linked', NEW s \in Sides, mem'[n][s].flag
             PROVE  \E p \in linked, r \in Sides : mem[p][r].flag /\ mem[p][r].addr = mem'[n][s].addr
  BY DEF NoNewFlags
<1>1. /\ mem \in Memory /\ Kept \in SUBSET Node /\ linked \subseteq Kept
      /\ Tree(mem', linked') /\ linked' \subseteq Node
  BY Keeps, TreeFacts DEF SafeInv, Tree, TypeOK
<1>2. mem'[n][s].addr \in linked'
  BY <1>1, TreeFacts DEF NullWord, Word
<1>3. CASE linked' \subseteq linked
  <2>1. mem'[n][s].addr \in Kept
    BY <1>1, <1>2, <1>3
  <2> QED BY <2>1, LinkedWords
<1>4. CASE Grows(t)
  <2>1. PICK p, k, v, a, i : GrowAt(mem, linked, p, k, v, a, i, mem') /\ linked' = linked \cup {a, i}
    <3>1. PICK a, i \in Node \ Kept :
            GrowAt(mem, linked, loc[t].parent, call[t].key, call[t].value, a, i, mem')
      BY <1>4 DEF Grows
    <3>2. linked' = linked \cup {a, i}
      BY <3>1, <1>4, GrowReach DEF Grows
    <3> QED BY <3>1, <3>2
  <2>2. Grew(mem, linked, p, k, v, a, i, mem')
    BY <2>1, GrownFacts
  <2> DEFINE d == SideOf(k, mem[p])
  <2>3. n # a
    <3>1. \A r \in Sides : mem'[a][r] = NullWord
      BY <2>2 DEF Grew
    <3> QED BY <3>1 DEF NullWord, Word
  <2>4. n # i
    <3>1. PICK r \in Sides : /\ mem'[i][r] = Word(a, FALSE, FALSE)
                             /\ mem'[i][Sibling(r)] = Word(Ahd(mem, k, p), FALSE, FALSE)
      BY <2>2 DEF Grew
    <3>2. mem'[i][r].flag = FALSE /\ mem'[i][Sibling(r)].flag = FALSE
      BY <3>1 DEF Word
    <3> QED BY <3>2, SideFacts
  <2>5. ~(n = p /\ s = d)
    <3>1. mem'[p][d] = Word(i, FALSE, FALSE)
      BY <2>2 DEF Grew
    <3> QED BY <3>1 DEF Word
  <2>6. n \in linked /\ n \in Node \ {a, i}
    BY <2>1, <2>3, <2>4, <1>1
  <2>7. mem'[n][s] = mem[n][s]
    <3>1. CASE n # p
      BY <3>1, <2>2, <2>6 DEF Grew
    <3>2. CASE n = p
      <4>1. d \in Sides /\ mem'[p][Sibling(d)] = mem[p][Sibling(d)]
        BY <2>2 DEF Grew
      <4>2. s = Sibling(d)
        BY <3>2, <4>1, <2>5, SideFacts
      <4> QED BY <3>2, <4>1, <4>2
    <3> QED BY <3>1, <3>2
  <2> QED BY <2>6, <2>7
<1>5. CASE Cuts(t)
  <2>1. PICK r \in Sides :
          CutAt(mem, linked, loc[t].lum, Side(t, loc[t].lum), loc[t].parent, r, mem')
    BY <1>5 DEF Cuts
  <2>2. linked' \subseteq linked
    BY <2>1, <1>5, CutBasics DEF Cuts
  <2> QED BY <2>2, <1>3
<1> QED BY <1>3, <1>4, <1>5 DEF Moves

(* The owners of flagged leaves stay, if a thread forgets its leaf only    *)
(* when it is cut off.                                                     *)
LEMMA OwnersKept ==
  ASSUME SafeInv, NEW t \in Thread, Owners, NoNewFlags,
         \A u \in Thread \ {t} : loc'[u].leaf = loc[u].leaf,
         loc'[t].leaf = loc[t].leaf \/ (loc'[t].leaf = NULL /\ loc[t].leaf \notin linked)
  PROVE  Owners'
<1>1. ASSUME NEW u \in Thread, NEW x \in Thread, Injected(u)', Injected(x)', u # x
      PROVE  loc'[u].leaf # loc'[x].leaf
  <2>1. loc'[u].leaf = loc[u].leaf /\ loc'[x].leaf = loc[x].leaf /\ Injected(u) /\ Injected(x)
    BY <1>1 DEF Injected
  <2> QED BY <1>1, <2>1 DEF Owners
<1>2. ASSUME NEW n \in linked', NEW s \in Sides, mem'[n][s].flag
      PROVE  \E u \in Thread : loc'[u].leaf = mem'[n][s].addr
  <2>1. PICK p \in linked, r \in Sides : mem[p][r].flag /\ mem[p][r].addr = mem'[n][s].addr
    BY <1>2 DEF NoNewFlags
  <2>2. PICK u \in Thread : loc[u].leaf = mem[p][r].addr
    BY <2>1 DEF Owners
  <2>3. mem[p][r].addr \in linked
    <3>1. Tree(mem, linked)
      BY DEF SafeInv
    <3>2. p \in Node
      BY <3>1, TreeFacts
    <3> QED BY <2>1, <3>1, <3>2, TreeFacts DEF NullWord, Word
  <2>4. loc'[u].leaf = loc[u].leaf
    BY <2>2, <2>3
  <2> QED BY <2>1, <2>2, <2>4
<1> QED BY <1>1, <1>2 DEF Owners

(* A step that does not change what callers see. *)
Stutters ==
  /\ UNCHANGED <<dict, call, seen, answer>>
  /\ \A u \in Thread : Effect(u)' = Effect(u)

(* The parts of DictInv after a step of t. *)
LEMMA DictStep ==
  ASSUME SafeInv, SafeInv', NEW t \in Thread, Moves(t), DictInv, dict' = Contents(mem'),
         \A u \in Thread \ {t} : SeesOn(u),
         SeenInv(t)', SearchInv(t)', OwnLeaf(t)', Answers(t)', Owners'
  PROVE  DictInv'
<1>1. \A u \in Thread : SeenInv(u) /\ SearchInv(u) /\ OwnLeaf(u) /\ Answers(u)
  BY DEF DictInv
<1>2. \A u \in Thread \ {t} : SeenInv(u)' /\ SearchInv(u)' /\ OwnLeaf(u)' /\ Answers(u)'
  BY <1>1, OthersDict
<1> QED BY <1>2 DEF DictInv

(* A step that callers do not see and that keeps the nodes of the tree. *)
LEMMA QuietStep ==
  ASSUME SafeInv, SafeInv', NEW t \in Thread, Moves(t), DictInv, linked' = linked,
         UNCHANGED <<dict, call, seen, answer>>, pinned'[t] \subseteq pinned[t],
         SearchInv(t)', OwnLeaf(t)', Answers(t)', Owners', Effect(t)' = Effect(t)
  PROVE  DictInv' /\ Stutters
<1>1. dict' = dict /\ call' = call /\ seen' = seen /\ answer' = answer
  OBVIOUS
<1>2. Gentle /\ \A u \in Thread \ {t} : Stands(u)
  BY DEF Moves
<1>3. dict = Contents(mem) /\ \A u \in Thread : SeenInv(u)
  BY DEF DictInv
<1>4. dict' = Contents(mem')
  BY <1>1, <1>2, <1>3, DictSame
<1>5. \A u \in Thread : SeesOn(u)
  BY <1>1, <1>3, SeesSame
<1>6. SeenInv(t)'
  <2>1. Near(t)' \subseteq Near(t) \cup linked'
    BY DEF Near
  <2> QED BY <2>1, <1>1, <1>2, <1>3, <1>4, <1>5, SeenKept
<1>7. DictInv'
  BY <1>4, <1>5, <1>6, DictStep
<1>8. \A u \in Thread \ {t} : Effect(u)' = Effect(u)
  BY <1>1, <1>2 DEF Effect, Stands, Injected
<1> QED BY <1>1, <1>7, <1>8 DEF Stutters

(* The same, if the step writes to no node. *)
LEMMA ReadStep ==
  ASSUME SafeInv, SafeInv', NEW t \in Thread, Moves(t), DictInv, mem' = mem, linked' = linked,
         UNCHANGED <<dict, call, seen, answer>>, pinned'[t] \subseteq pinned[t],
         loc'[t].leaf = loc[t].leaf \/ (loc'[t].leaf = NULL /\ loc[t].leaf \notin linked),
         SearchInv(t)', OwnLeaf(t)', Answers(t)', Effect(t)' = Effect(t)
  PROVE  DictInv' /\ Stutters
<1>1. NoNewFlags
  BY DEF NoNewFlags
<1>2. \A u \in Thread \ {t} : loc'[u].leaf = loc[u].leaf
  BY DEF Moves, Stands
<1>3. Owners'
  BY <1>1, <1>2, OwnersKept DEF DictInv
<1> QED BY <1>3, QuietStep


-----------------------------------------------------------------------------
(* What the call of t has done to the dictionary. *)
Inserted(t) == pc[t] = "return" /\ call[t].op = "insertIfAbsent" /\ loc[t].retval = NoValue
Erased(t) == Injected(t) /\ loc[t].leaf \notin linked

(* The three cases of Effect. *)
LEMMA EffectIs ==
  ASSUME NEW t
  PROVE  /\ Erased(t) => Effect(t) = {loc[t].retval}
         /\ ~Erased(t) /\ Inserted(t) => Effect(t) = {NoValue}
         /\ ~Erased(t) /\ ~Inserted(t) => Effect(t) = {}
BY DEF Effect, Erased, Inserted

(* The three cases of Effect, after a step. *)
LEMMA EffectNext ==
  ASSUME NEW t
  PROVE  /\ Erased(t)' => Effect(t)' = {loc'[t].retval}
         /\ ~Erased(t)' /\ Inserted(t)' => Effect(t)' = {NoValue}
         /\ ~Erased(t)' /\ ~Inserted(t)' => Effect(t)' = {}
BY DEF Effect, Erased, Inserted

(* A thread whose leaf stays where it is, and that does not end an insert, *)
(* has the same effect.                                                    *)
LEMMA EffectSame ==
  ASSUME NEW t, linked' = linked, loc'[t].leaf = loc[t].leaf, loc'[t].retval = loc[t].retval,
         ~Inserted(t), ~Inserted(t)'
  PROVE  Effect(t)' = Effect(t)
<1>1. Erased(t)' = Erased(t)
  BY DEF Erased, Injected
<1> QED BY <1>1, EffectIs, EffectNext

(* The search for a key that is in the tree finds it from the root's left. *)
LEMMA RootAhead ==
  ASSUME NEW m, NEW L, Tree(m, L), NEW k \in Key
  PROVE  /\ m[Root].left.addr \in L
         /\ \A a \in L : IsLeaf(m[a]) /\ m[a].key = k => a \in Walk(m, k, m[Root].left.addr)
         /\ Walk(m, k, m[Root].left.addr) \subseteq L
<1>1. /\ m \in Memory /\ Root \in L /\ Root \in Node /\ ~IsLeaf(m[Root])
      /\ m[Root].key = MaxKey + 2 /\ MaxKey \in Nat
  BY TreeFacts, NodeFacts, BstAssumption DEF Tree, Sentinels
<1>2. Ahd(m, k, Root) = m[Root].left.addr
  BY <1>1 DEF Ahd, SideOf, Key
<1>3. m[Root].left.addr # NULL
  BY <1>1 DEF IsLeaf
<1>4. m[Root].left.addr \in L
  <2>1. m[Root].left = m[Root]["left"]
    OBVIOUS
  <2> QED BY <2>1, <1>1, <1>3, TreeFacts, SideFacts
<1>5. ASSUME NEW a \in L, IsLeaf(m[a]), m[a].key = k PROVE a \in Walk(m, k, m[Root].left.addr)
  <2>1. a \in Walk(m, k, Root)
    BY <1>5, ContentsLeaf, PathIsWalk
  <2>2. a # Root
    BY <1>1, <1>5
  <2> QED BY <2>1, <2>2, <1>1, <1>2, WalkStep
<1>6. Walk(m, k, m[Root].left.addr) \subseteq L
  BY <1>4, WalkInTree
<1> QED BY <1>4, <1>5, <1>6

(* A search starts with its key ahead, or seen absent. *)
LEMMA AheadRoot ==
  ASSUME SafeInv, DictInv, NEW t \in Thread, call[t] # NoCall
  PROVE  Ahead(t, mem[Root].left.addr)
<1>0. PICK k : k = call[t].key
  OBVIOUS
<1>1. /\ TypeOK /\ Tree(mem, linked) /\ dict = Contents(mem) /\ k \in Key /\ dict[k] \in seen[t]
  <2>1. TypeOK /\ Tree(mem, linked) /\ dict = Contents(mem) /\ SeenInv(t)
    BY DEF SafeInv, DictInv
  <2> QED BY <1>0, <2>1, KeyOf DEF SeenInv
<1>2. CASE dict[k] = NoValue
  BY <1>1, <1>2 DEF Ahead
<1>3. CASE dict[k] # NoValue
  <2>1. PICK a \in linked : IsLeaf(mem[a]) /\ mem[a].key = k
    BY <1>1, <1>3, ContentsNone
  <2>2. a \in Walk(mem, k, mem[Root].left.addr)
    BY <1>1, <2>1, RootAhead
  <2> QED BY <1>0, <2>1, <2>2 DEF Ahead
<1> QED BY <1>2, <1>3

(* A search that goes down keeps its key ahead. *)
LEMMA AheadDown ==
  ASSUME NEW t, NEW n \in Node, mem \in Memory, Ahead(t, n), ~IsLeaf(mem[n])
  PROVE  Ahead(t, Ahd(mem, call[t].key, n))
<1>1. CASE NoValue \in seen[t]
  BY <1>1 DEF Ahead
<1>2. CASE NoValue \notin seen[t]
  <2>1. PICK a \in Walk(mem, call[t].key, n) : IsLeaf(mem[a]) /\ mem[a].key = call[t].key
    BY <1>2 DEF Ahead
  <2>2. a # n
    BY <2>1
  <2>3. a \in Walk(mem, call[t].key, Ahd(mem, call[t].key, n))
    BY <2>1, <2>2, WalkStep
  <2> QED BY <2>1, <2>3 DEF Ahead
<1> QED BY <1>1, <1>2

(* A search that has come to a leaf knows whether the key was there. *)
LEMMA AheadEnds ==
  ASSUME SafeInv, DictInv, NEW t \in Thread, call[t] # NoCall, NEW n \in Near(t), IsLeaf(mem[n]), Ahead(t, n)
  PROVE  IF mem[n].key = call[t].key THEN mem[n].value \in seen[t] \ {NoValue} ELSE NoValue \in seen[t]
<1>1. /\ mem \in Memory /\ Shape(mem) /\ n \in Node /\ SeenInv(t)
  BY WalkNear DEF SafeInv, Tree, DictInv
<1>2. CASE mem[n].key = call[t].key
  BY <1>1, <1>2 DEF SeenInv
<1>3. CASE mem[n].key # call[t].key
  <2>1. Walk(mem, call[t].key, n) = {n}
    BY <1>1, LeafWalk
  <2> QED BY <2>1, <1>3 DEF Ahead
<1> QED BY <1>2, <1>3

(* search starts. *)
LEMMA FindRootDict ==
  ASSUME SafeInv, SafeInv', NEW t \in Thread, Moves(t), DictInv, FindRoot(t)
  PROVE  DictInv' /\ Stutters
<1>1. /\ pc[t] = "root" /\ loc' = [loc EXCEPT ![t].cur = mem[Root].left.addr]
      /\ mem' = mem /\ linked' = linked /\ pinned' = pinned /\ UNCHANGED <<dict, call, seen, answer>>
      /\ call[t] # NoCall /\ call[t].op = "find"
  BY DEF FindRoot, GoTo, Quiet, shared
<1>2. TypeOK /\ Calls(t)
  BY Mine
<1>3. /\ pc'[t] = "find" /\ loc'[t].cur = mem[Root].left.addr
      /\ loc'[t].leaf = loc[t].leaf /\ loc'[t].retval = loc[t].retval
  BY <1>1, <1>2 DEF FindRoot, GoTo, TypeOK, Locals
<1>4. ~Injected(t) /\ ~Injected(t)'
  BY <1>1, <1>2, <1>3 DEF Calls, Injected
<1>5. SearchInv(t)'
  <2>1. PICK n : n = mem[Root].left.addr
    OBVIOUS
  <2>2. Ahead(t, n)
    BY <1>1, <2>1, AheadRoot
  <2>3. Ahead(t, n)'
    BY <1>1, <2>2 DEF Ahead, Walk
  <2> QED BY <2>1, <2>3, <1>1, <1>3 DEF SearchInv, Ahead
<1>6. OwnLeaf(t)' /\ Answers(t)'
  BY <1>3, <1>4 DEF OwnLeaf, Answers
<1>7. Effect(t)' = Effect(t)
  BY <1>1, <1>3, EffectSame DEF Inserted
<1> QED BY <1>1, <1>3, <1>5, <1>6, <1>7, ReadStep

(* An operation ends with an answer that its callers may get. *)
LEMMA AnswerDict ==
  ASSUME SafeInv, SafeInv', NEW t \in Thread, Moves(t), DictInv, NEW from, NEW v, Answer(t, from, v),
         pc[t] # "return", call[t] # NoCall, call[t] \in Call,
         ~Injected(t) => /\ call[t].op = "find" => v \in seen[t]
                         /\ call[t].op = "insertIfAbsent" => v \in seen[t] \ {NoValue}
                         /\ call[t].op = "erase" => v = NoValue /\ NoValue \in seen[t],
         Injected(t) => v = loc[t].retval /\ loc[t].leaf \notin linked
  PROVE  DictInv' /\ Stutters
<1> DEFINE l == [NoLocals EXCEPT !.leaf = loc[t].leaf, !.retval = v]
<1>1. /\ loc' = [loc EXCEPT ![t] = l]
      /\ mem' = mem /\ linked' = linked /\ pinned' = pinned /\ UNCHANGED <<dict, call, seen, answer>>
      /\ pc' = [pc EXCEPT ![t] = "return"]
  BY DEF Answer, GoTo, Quiet, shared
<1>2. TypeOK /\ Calls(t)
  BY Mine
<1>3. l.leaf = loc[t].leaf /\ l.retval = v
  BY DEF NoLocals
<1> HIDE DEF l
<1>4. pc'[t] = "return" /\ loc'[t].leaf = loc[t].leaf /\ loc'[t].retval = v
  BY <1>1, <1>2, <1>3 DEF TypeOK
<1>5. SearchInv(t)'
  BY <1>4 DEF SearchInv
<1>6. call[t].op \in {"find", "insertIfAbsent", "erase"}
  BY DEF Call
<1>7. OwnLeaf(t)'
  <2>1. CASE ~Injected(t)
    BY <2>1, <1>4 DEF OwnLeaf, Injected
  <2>2. CASE Injected(t)
    <3>1. OwnLeaf(t) /\ loc'[t].retval = loc[t].retval /\ loc[t].leaf \notin linked
      BY <2>2, <1>4 DEF DictInv
    <3>2. /\ IsLeaf(mem'[loc[t].leaf]) /\ mem'[loc[t].leaf].key = call'[t].key
          /\ mem'[loc[t].leaf].value = loc'[t].retval
          /\ Flagged(mem', linked', loc[t].leaf)
      BY <3>1, <2>2, <1>1, <1>4, OwnKept
    <3> QED BY <3>1, <3>2, <1>1, <1>4 DEF OwnLeaf
  <2> QED BY <2>1, <2>2
<1>8. Answers(t)'
  <2>1. Injected(t)' <=> Injected(t)
    BY <1>4 DEF Injected
  <2>2. Injected(t) => call[t].op = "erase"
    BY <1>2 DEF Calls
  <2> QED BY <2>1, <2>2, <1>1, <1>4, <1>6 DEF Answers
<1>9. Effect(t)' = Effect(t)
  <2>1. ~Inserted(t)
    BY DEF Inserted
  <2>2. CASE Injected(t)
    <3>1. Erased(t) /\ Erased(t)' /\ loc'[t].retval = loc[t].retval
      BY <2>2, <1>1, <1>4 DEF Erased, Injected
    <3> QED BY <3>1, EffectIs, EffectNext
  <2>3. CASE ~Injected(t)
    <3>1. ~Erased(t) /\ ~Erased(t)' /\ ~Inserted(t)'
      BY <2>3, <1>1, <1>4, <1>6 DEF Erased, Injected, Inserted
    <3> QED BY <2>1, <3>1, EffectIs, EffectNext
  <2> QED BY <2>2, <2>3
<1> QED BY <1>1, <1>4, <1>5, <1>7, <1>8, <1>9, ReadStep


(* search goes down or ends at a leaf, maybe of a part that was cut off. *)
LEMMA FindDownDict ==
  ASSUME SafeInv, SafeInv', NEW t \in Thread, Moves(t), DictInv, FindDown(t)
  PROVE  DictInv' /\ Stutters
<1>0. PICK n : n = loc[t].cur
  OBVIOUS
<1> DEFINE next == mem[n][Side(t, n)].addr
<1>1. /\ pc[t] = "find"
      /\ next # NULL => /\ loc' = [loc EXCEPT ![t].cur = next] /\ pc' = pc
                        /\ mem' = mem /\ linked' = linked /\ pinned' = pinned
                        /\ UNCHANGED <<dict, call, seen, answer>>
      /\ next = NULL => Answer(t, "find", IF mem[n].key = call[t].key THEN mem[n].value ELSE NoValue)
  BY <1>0 DEF FindDown, Quiet, shared
<1>2. /\ TypeOK /\ Calls(t) /\ mem \in Memory /\ Tree(mem, linked) /\ Near(t) \subseteq Kept
      /\ Kept \in SUBSET Node
  BY Mine
<1>3. call[t] # NoCall /\ call[t].op = "find" /\ ~Injected(t)
  BY <1>1, <1>2 DEF Calls
<1>4. call[t] \in Call /\ call[t].key \in Key
  BY <1>2, <1>3, KeyOf
<1>5. n \in Near(t) /\ n \in Node
  <2>1. n # NULL /\ Held(t) \subseteq Near(t)
    BY <1>0, <1>1, Mine DEF Removing
  <2> QED BY <2>1, <1>0, <1>2 DEF Held
<1>6. Ahead(t, n)
  BY <1>0, <1>1 DEF DictInv, SearchInv
<1>7. Side(t, n) \in Sides /\ next = Ahd(mem, call[t].key, n)
  BY SideFacts DEF Side, Ahd
<1>8. IsLeaf(mem[n]) <=> next = NULL
  BY <1>2, <1>5, <1>7, TreeFacts DEF NullWord, Word
<1>9. CASE next = NULL
  <2>1. IF mem[n].key = call[t].key THEN mem[n].value \in seen[t] \ {NoValue} ELSE NoValue \in seen[t]
    BY <1>3, <1>5, <1>6, <1>8, <1>9, AheadEnds
  <2> DEFINE v == IF mem[n].key = call[t].key THEN mem[n].value ELSE NoValue
  <2>2. v \in seen[t] /\ Answer(t, "find", v)
    BY <2>1, <1>1, <1>9
  <2> HIDE DEF v
  <2> QED BY <2>2, <1>1, <1>3, <1>4, AnswerDict
<1>10. CASE next # NULL
  <2>1. PICK x : x = next
    OBVIOUS
  <2>2. /\ loc' = [loc EXCEPT ![t].cur = x] /\ pc' = pc
        /\ mem' = mem /\ linked' = linked /\ pinned' = pinned
        /\ UNCHANGED <<dict, call, seen, answer>>
    BY <1>1, <1>10, <2>1
  <2>3. /\ pc'[t] = "find" /\ loc'[t].cur = x
        /\ loc'[t].leaf = loc[t].leaf /\ loc'[t].retval = loc[t].retval
    BY <1>1, <1>2, <2>2 DEF TypeOK, Locals
  <2>4. Ahead(t, x)
    BY <1>2, <1>5, <1>6, <1>7, <1>8, <1>10, <2>1, AheadDown
  <2>5. Ahead(t, x)'
    BY <2>2, <2>4 DEF Ahead, Walk
  <2>6. SearchInv(t)'
    BY <2>3, <2>5 DEF SearchInv, Ahead
  <2>7. OwnLeaf(t)' /\ Answers(t)'
    BY <1>3, <2>3 DEF OwnLeaf, Answers, Injected
  <2>8. Effect(t)' = Effect(t)
    BY <1>1, <2>2, <2>3, EffectSame DEF Inserted
  <2> QED BY <2>2, <2>3, <2>6, <2>7, <2>8, ReadStep
<1> QED BY <1>9, <1>10

(* OwnLeaf for a thread that seeks its own leaf. *)
LEMMA OwnSeek ==
  ASSUME NEW t, NEW n, NEW k, NEW a, pc'[t] = "seek",
         call'[t].key = k, loc'[t].pL.addr = n, loc'[t].leaf = a,
         IsLeaf(mem'[a]), mem'[a].key = k, mem'[a].value = loc'[t].retval, Flagged(mem', linked', a),
         a \in linked' => a \in Walk(mem', k, n), Flagged(mem', Walk(mem', k, n), a),
         n = a => loc'[t].pL.flag
  PROVE  OwnLeaf(t)'
BY DEF OwnLeaf, Walk

(* A seek starts; the leaf of a deletion that is still in the tree is on   *)
(* its way.                                                                *)
LEMMA SeekRootDict ==
  ASSUME SafeInv, SafeInv', NEW t \in Thread, Moves(t), DictInv, SeekRoot(t)
  PROVE  DictInv' /\ Stutters
<1> DEFINE l == [NoLocals EXCEPT
       !.parent = Root, !.pL = mem[Root].left, !.leaf = loc[t].leaf, !.retval = loc[t].retval]
<1>1. /\ pc[t] = "root" /\ loc' = [loc EXCEPT ![t] = l] /\ pc' = [pc EXCEPT ![t] = "seek"]
      /\ mem' = mem /\ linked' = linked /\ pinned' = pinned /\ UNCHANGED <<dict, call, seen, answer>>
      /\ call[t] # NoCall
  BY DEF SeekRoot, GoTo, Quiet, shared
<1>2. TypeOK /\ Tree(mem, linked)
  BY Mine
<1>3. l.pL = mem[Root].left /\ l.leaf = loc[t].leaf /\ l.retval = loc[t].retval
  BY DEF NoLocals
<1> HIDE DEF l
<1>4. /\ pc'[t] = "seek" /\ loc'[t].pL = mem[Root].left
      /\ loc'[t].leaf = loc[t].leaf /\ loc'[t].retval = loc[t].retval
  BY <1>1, <1>2, <1>3 DEF TypeOK
<1>5. PICK n, k : n = mem[Root].left.addr /\ k = call[t].key
  OBVIOUS
<1>6. k \in Key
  BY <1>1, <1>2, <1>5, KeyOf
<1>7. SearchInv(t)'
  <2>1. Ahead(t, n)
    BY <1>1, <1>5, AheadRoot
  <2>2. Ahead(t, n)'
    BY <1>1, <2>1 DEF Ahead, Walk
  <2> QED BY <2>2, <1>4, <1>5 DEF SearchInv, Ahead
<1>8. OwnLeaf(t)'
  <2> SUFFICES ASSUME Injected(t) PROVE OwnLeaf(t)'
    BY <1>4 DEF OwnLeaf, Injected
  <2>1. PICK a : a = loc[t].leaf
    OBVIOUS
  <2>2. /\ IsLeaf(mem[a]) /\ mem[a].key = k /\ mem[a].value = loc[t].retval /\ Flagged(mem, linked, a)
    BY <1>5, <2>1 DEF DictInv, OwnLeaf
  <2>3. /\ a \in linked => a \in Walk(mem, k, n)
        /\ Walk(mem, k, n) \subseteq linked
    BY <1>2, <1>5, <1>6, <2>2, RootAhead
  <2>4. Flagged(mem, Walk(mem, k, n), a)
    BY <2>2, <2>3 DEF Flagged
  <2>5. n = a => mem[Root].left.flag
    <3>1. Root \in linked /\ mem[Root].left = mem[Root]["left"]
      BY <1>2, TreeFacts
    <3> QED BY <3>1, <1>5, <2>2, SideFacts DEF Flagged
  <2>6. /\ IsLeaf(mem'[a]) /\ mem'[a].key = k /\ mem'[a].value = loc'[t].retval
        /\ Flagged(mem', linked', a) /\ Flagged(mem', Walk(mem', k, n), a)
        /\ a \in linked' => a \in Walk(mem', k, n)
    BY <1>1, <1>4, <2>2, <2>3, <2>4
  <2>7. call'[t].key = k /\ loc'[t].pL.addr = n /\ loc'[t].leaf = a /\ (n = a => loc'[t].pL.flag)
    BY <1>1, <1>4, <1>5, <2>1, <2>5
  <2> QED BY <1>4, <2>6, <2>7, OwnSeek
<1>9. Answers(t)'
  BY <1>4 DEF Answers
<1>10. Effect(t)' = Effect(t)
  BY <1>1, <1>4, EffectSame DEF Inserted
<1> QED BY <1>1, <1>4, <1>7, <1>8, <1>9, <1>10, ReadStep

(* A seek goes down. *)
LEMMA SeekDownDict ==
  ASSUME SafeInv, SafeInv', NEW t \in Thread, Moves(t), DictInv, SeekDown(t)
  PROVE  DictInv' /\ Stutters
<1>0. PICK n, k, next : n = loc[t].pL.addr /\ k = call[t].key /\ next = mem[n][Side(t, n)]
  OBVIOUS
<1> DEFINE l == [loc[t] EXCEPT !.parent = n, !.pL = next,
                               !.lum = IF loc[t].pL.mark THEN @ ELSE loc[t].parent,
                               !.lumC = IF loc[t].pL.mark THEN @ ELSE loc[t].pL]
<1>1. /\ pc[t] = "seek" /\ loc' = [loc EXCEPT ![t] = l] /\ pc' = [pc EXCEPT ![t] = "seek"]
      /\ mem' = mem /\ linked' = linked /\ pinned' = pinned /\ UNCHANGED <<dict, call, seen, answer>>
      /\ next.addr # NULL
  BY <1>0 DEF SeekDown, GoTo, Quiet, shared
<1>2. /\ TypeOK /\ Tree(mem, linked) /\ mem \in Memory /\ loc[t] \in Locals
      /\ Near(t) \subseteq Kept /\ Kept \in SUBSET Node
  BY Mine, Types
<1>3. l.pL = next /\ l.leaf = loc[t].leaf /\ l.retval = loc[t].retval
  BY <1>2 DEF Locals
<1> HIDE DEF l
<1>4. /\ pc'[t] = "seek" /\ loc'[t].pL = next
      /\ loc'[t].leaf = loc[t].leaf /\ loc'[t].retval = loc[t].retval
  BY <1>1, <1>2, <1>3 DEF TypeOK
<1>5. n \in Near(t) /\ n \in Node
  BY <1>0, <1>1, <1>2, ParentSide
<1>6. /\ Side(t, n) \in Sides /\ next.addr = Ahd(mem, k, n) /\ next = mem[n][Side(t, n)]
      /\ ~IsLeaf(mem[n])
  <2>1. Side(t, n) \in Sides /\ next.addr = Ahd(mem, k, n)
    BY <1>0, SideFacts DEF Side, Ahd
  <2> QED BY <2>1, <1>0, <1>1, <1>2, <1>5, TreeFacts DEF NullWord, Word
<1>7. SearchInv(t)'
  <2> SUFFICES ASSUME ~Injected(t) PROVE Ahead(t, next.addr)'
    BY <1>4 DEF SearchInv, Ahead, Injected
  <2>1. Ahead(t, n)
    BY <1>0, <1>1 DEF DictInv, SearchInv
  <2>2. Ahead(t, next.addr)
    BY <2>1, <1>0, <1>2, <1>5, <1>6, AheadDown
  <2> QED BY <2>2, <1>1 DEF Ahead, Walk
<1>8. OwnLeaf(t)'
  <2> SUFFICES ASSUME Injected(t) PROVE OwnLeaf(t)'
    BY <1>4 DEF OwnLeaf, Injected
  <2>1. PICK a : a = loc[t].leaf
    OBVIOUS
  <2>2. /\ IsLeaf(mem[a]) /\ mem[a].key = k /\ mem[a].value = loc[t].retval /\ Flagged(mem, linked, a)
        /\ a \in linked => a \in Walk(mem, k, n)
        /\ Flagged(mem, Walk(mem, k, n), a)
    BY <1>0, <1>1, <2>1 DEF DictInv, OwnLeaf
  <2>3. a \in linked => a \in Walk(mem, k, next.addr)
    <3>1. a # n
      BY <2>2, <1>6
    <3> QED BY <3>1, <2>2, <1>2, <1>5, <1>6, WalkStep
  <2>4. n \in Walk(mem, k, n) /\ next.addr \in Walk(mem, k, n)
    BY <1>1, <1>2, <1>5, <1>6, WalkLeast
  <2>5. Walk(mem, k, next.addr) \subseteq Walk(mem, k, n)
    BY <1>2, <1>5, <2>4, WalkSub
  <2>6. Flagged(mem, Walk(mem, k, next.addr), a)
    BY <2>2, <2>5 DEF Flagged
  <2>7. next.addr = a => next.flag
    BY <2>2, <2>4, <1>6 DEF Flagged
  <2>8. /\ IsLeaf(mem'[a]) /\ mem'[a].key = k /\ mem'[a].value = loc'[t].retval
        /\ Flagged(mem', linked', a) /\ Flagged(mem', Walk(mem', k, next.addr), a)
        /\ a \in linked' => a \in Walk(mem', k, next.addr)
    BY <1>1, <1>4, <2>2, <2>3, <2>6
  <2>9. call'[t].key = k /\ loc'[t].pL.addr = next.addr /\ loc'[t].leaf = a
        /\ (next.addr = a => loc'[t].pL.flag)
    BY <1>0, <1>1, <1>4, <2>1, <2>7
  <2> QED BY <1>4, <2>8, <2>9, OwnSeek
<1>9. Answers(t)'
  BY <1>4 DEF Answers
<1>10. Effect(t)' = Effect(t)
  BY <1>1, <1>4, EffectSame DEF Inserted
<1> QED BY <1>1, <1>4, <1>7, <1>8, <1>9, <1>10, ReadStep

(* A seek that has come to a leaf. *)
LEMMA LeafFacts ==
  ASSUME SafeInv, DictInv, NEW t \in Thread, AtLeaf(t)
  PROVE  /\ pc[t] = "seek" /\ IsLeaf(mem[loc[t].pL.addr])
         /\ loc[t].pL.addr \in Near(t) /\ loc[t].pL.addr \in Node
         /\ call[t] # NoCall /\ call[t] \in Call /\ call[t].op \in {"insertIfAbsent", "erase"}
         /\ ~Injected(t) => IF KeyFound(t) THEN mem[loc[t].pL.addr].value \in seen[t] \ {NoValue}
                            ELSE NoValue \in seen[t]
<1>1. pc[t] = "seek" /\ IsLeaf(mem[loc[t].pL.addr])
  BY DEF AtLeaf
<1>2. /\ TypeOK /\ Calls(t) /\ loc[t].pL.addr \in Near(t) /\ Near(t) \subseteq Kept /\ Kept \in SUBSET Node
  BY <1>1, Mine, ParentSide
<1>3. call[t] # NoCall /\ call[t].op # "find" /\ call[t] \in Call
  BY <1>1, <1>2, KeyOf DEF Calls
<1>4. call[t].op \in {"insertIfAbsent", "erase"}
  BY <1>3 DEF Call
<1>5. ASSUME ~Injected(t)
      PROVE  IF KeyFound(t) THEN mem[loc[t].pL.addr].value \in seen[t] \ {NoValue}
             ELSE NoValue \in seen[t]
  <2>1. Ahead(t, loc[t].pL.addr)
    BY <1>1, <1>5 DEF DictInv, SearchInv
  <2> QED BY <2>1, <1>1, <1>2, <1>3, AheadEnds DEF KeyFound
<1> QED BY <1>1, <1>2, <1>3, <1>4, <1>5

(* insertIfAbsent answers with a value that the key has had. *)
LEMMA InsertFoundDict ==
  ASSUME SafeInv, SafeInv', NEW t \in Thread, Moves(t), DictInv, InsertFound(t)
  PROVE  DictInv' /\ Stutters
<1>1. /\ AtLeaf(t) /\ call[t].op = "insertIfAbsent" /\ KeyFound(t)
      /\ Answer(t, "seek", mem[loc[t].pL.addr].value)
  BY DEF InsertFound
<1>2. ~Injected(t)
  BY <1>1, Mine DEF Calls
<1>3. /\ pc[t] = "seek" /\ call[t] # NoCall /\ call[t] \in Call
      /\ mem[loc[t].pL.addr].value \in seen[t] \ {NoValue}
  BY <1>1, <1>2, LeafFacts
<1> QED BY <1>1, <1>2, <1>3, AnswerDict

(* erase answers that the key was absent, and it was. *)
LEMMA EraseAbsentDict ==
  ASSUME SafeInv, SafeInv', NEW t \in Thread, Moves(t), DictInv, EraseAbsent(t)
  PROVE  DictInv' /\ Stutters
<1>1. AtLeaf(t) /\ call[t].op = "erase" /\ ~Injected(t) /\ ~KeyFound(t) /\ Answer(t, "seek", NoValue)
  BY DEF EraseAbsent
<1>2. pc[t] = "seek" /\ call[t] # NoCall /\ call[t] \in Call /\ NoValue \in seen[t]
  BY <1>1, LeafFacts
<1> QED BY <1>1, <1>2, AnswerDict

(* secondary_seek does not find the leaf: it has been cut off, and the     *)
(* deletion has had its effect.                                            *)
LEMMA SecondaryGoneDict ==
  ASSUME SafeInv, SafeInv', NEW t \in Thread, Moves(t), DictInv, SecondaryGone(t)
  PROVE  DictInv' /\ Stutters
<1>1. /\ AtLeaf(t) /\ Injected(t) /\ (~loc[t].pL.flag \/ loc[t].pL.addr # loc[t].leaf)
      /\ Answer(t, "seek", loc[t].retval)
  BY DEF SecondaryGone
<1>2. /\ pc[t] = "seek" /\ IsLeaf(mem[loc[t].pL.addr]) /\ loc[t].pL.addr \in Node
      /\ call[t] # NoCall /\ call[t] \in Call
  BY <1>1, LeafFacts
<1>3. loc[t].leaf \notin linked
  <2>1. /\ loc[t].leaf \in linked => loc[t].leaf \in Walk(mem, call[t].key, loc[t].pL.addr)
        /\ loc[t].pL.addr = loc[t].leaf => loc[t].pL.flag
    BY <1>1, <1>2 DEF DictInv, OwnLeaf
  <2>2. Walk(mem, call[t].key, loc[t].pL.addr) = {loc[t].pL.addr}
    <3>1. mem \in Memory /\ Shape(mem)
      BY DEF SafeInv, Tree
    <3> QED BY <3>1, <1>2, LeafWalk
  <2> QED BY <2>1, <2>2, <1>1
<1> QED BY <1>1, <1>2, <1>3, AnswerDict


(* What is known of the leaf of t if t does not seek it any more. *)
LEMMA OwnOff ==
  ASSUME NEW t, OwnLeaf(t), mem' = mem, linked' = linked, call'[t] = call[t],
         loc'[t].leaf = loc[t].leaf, loc'[t].retval = loc[t].retval,
         pc'[t] \notin {"seek", "mark", "read", "swing"},
         Injected(t) /\ pc'[t] \in {"retire", "return"} => loc[t].leaf \notin linked
  PROVE  OwnLeaf(t)'
<1> SUFFICES ASSUME Injected(t) PROVE OwnLeaf(t)'
  BY DEF OwnLeaf, Injected
<1>1. /\ IsLeaf(mem'[loc[t].leaf]) /\ mem'[loc[t].leaf].key = call'[t].key
      /\ mem'[loc[t].leaf].value = loc'[t].retval /\ Flagged(mem', linked', loc[t].leaf)
  BY DEF OwnLeaf
<1> QED BY <1>1 DEF OwnLeaf

(* The read of the sibling's word. *)
LEMMA ReadSiblingDict ==
  ASSUME SafeInv, SafeInv', NEW t \in Thread, Moves(t), DictInv, ReadSibling(t)
  PROVE  DictInv' /\ Stutters
<1>0. PICK w : w = mem[loc[t].parent][Sibling(Side(t, loc[t].parent))]
  OBVIOUS
<1>1. /\ pc[t] = "read" /\ pc' = [pc EXCEPT ![t] = "swing"] /\ loc' = [loc EXCEPT ![t].pS = w]
      /\ mem' = mem /\ linked' = linked /\ pinned' = pinned /\ UNCHANGED <<dict, call, seen, answer>>
  BY <1>0 DEF ReadSibling, GoTo, Quiet, shared
<1>2. TypeOK
  BY Mine
<1>3. /\ pc'[t] = "swing" /\ loc'[t].parent = loc[t].parent
      /\ loc'[t].leaf = loc[t].leaf /\ loc'[t].retval = loc[t].retval
  BY <1>1, <1>2 DEF TypeOK, Locals
<1>4. SearchInv(t)' /\ Answers(t)'
  BY <1>3 DEF SearchInv, Answers
<1>5. OwnLeaf(t)'
  <2> SUFFICES ASSUME Injected(t) PROVE OwnLeaf(t)'
    BY <1>3 DEF OwnLeaf, Injected
  <2>1. PICK a : a = loc[t].leaf
    OBVIOUS
  <2>2. /\ IsLeaf(mem[a]) /\ mem[a].key = call[t].key /\ mem[a].value = loc[t].retval
        /\ Flagged(mem, linked, a) /\ Memo(t).addr = a
    BY <1>1, <2>1 DEF DictInv, OwnLeaf
  <2>3. /\ IsLeaf(mem'[a]) /\ mem'[a].key = call'[t].key /\ mem'[a].value = loc'[t].retval
        /\ Flagged(mem', linked', a)
    BY <1>1, <1>3, <2>2
  <2>4. Memo(t)'.addr = a
    BY <1>1, <1>3, <2>2 DEF Memo, Side
  <2> QED BY <1>3, <2>1, <2>3, <2>4 DEF OwnLeaf
<1>6. Effect(t)' = Effect(t)
  BY <1>1, <1>3, EffectSame DEF Inserted
<1> QED BY <1>1, <1>3, <1>4, <1>5, <1>6, ReadStep

(* The loop goes round. *)
LEMMA RetryDict ==
  ASSUME SafeInv, SafeInv', NEW t \in Thread, Moves(t), DictInv, NEW from, Retry(t, from),
         ~Injected(t), pc[t] # "return", UNCHANGED <<mem, linked, dict>>
  PROVE  DictInv' /\ Stutters
<1>1. /\ loc' = [loc EXCEPT ![t] = NoLocals] /\ pinned' = [pinned EXCEPT ![t] = {}]
      /\ pc' = [pc EXCEPT ![t] = "root"] /\ UNCHANGED <<call, seen, answer>>
  BY DEF Retry, GoTo
<1>2. TypeOK
  BY Mine
<1>3. pc'[t] = "root" /\ loc'[t] = NoLocals /\ pinned'[t] = {}
  BY <1>1, <1>2 DEF TypeOK
<1>4. loc'[t].leaf = NULL /\ loc[t].leaf = NULL
  BY <1>3 DEF Injected, NoLocals
<1>5. SearchInv(t)' /\ Answers(t)' /\ OwnLeaf(t)'
  BY <1>3, <1>4 DEF SearchInv, Answers, OwnLeaf, Injected
<1>6. Effect(t)' = Effect(t)
  <2>1. ~Erased(t) /\ ~Inserted(t) /\ ~Erased(t)' /\ ~Inserted(t)'
    BY <1>3, <1>4 DEF Erased, Inserted, Injected
  <2> QED BY <2>1, EffectIs, EffectNext
<1> QED BY <1>1, <1>3, <1>4, <1>5, <1>6, ReadStep

(* A CAS that fails. *)
LEMMA SwingFailsDict ==
  ASSUME SafeInv, SafeInv', NEW t \in Thread, Moves(t), DictInv, NEW from, NEW pS,
         pc[t] \in {"seek", "swing"}, Swing(t, from, pS), mem[loc[t].lum][Side(t, loc[t].lum)] # loc[t].lumC
  PROVE  DictInv' /\ Stutters
<1>1. UNCHANGED shared
  BY DEF Swing
<1>2. CASE ~Injected(t)
  <2>1. Retry(t, from)
    BY <1>2 DEF Swing
  <2> QED BY <1>1, <1>2, <2>1, RetryDict DEF shared
<1>3. CASE Injected(t)
  <2> DEFINE l == [NoLocals EXCEPT !.leaf = loc[t].leaf, !.retval = loc[t].retval]
  <2>1. /\ pc' = [pc EXCEPT ![t] = "root"] /\ loc' = [loc EXCEPT ![t] = l]
        /\ mem' = mem /\ linked' = linked /\ pinned' = pinned /\ UNCHANGED <<dict, call, seen, answer>>
    BY <1>1, <1>3 DEF Swing, GoTo, Quiet, shared
  <2>2. TypeOK
    BY Mine
  <2>3. l.leaf = loc[t].leaf /\ l.retval = loc[t].retval
    BY DEF NoLocals
  <2> HIDE DEF l
  <2>4. pc'[t] = "root" /\ loc'[t].leaf = loc[t].leaf /\ loc'[t].retval = loc[t].retval
    BY <2>1, <2>2, <2>3 DEF TypeOK
  <2>5. OwnLeaf(t)'
    <3>1. OwnLeaf(t) /\ call'[t] = call[t]
      BY <2>1 DEF DictInv
    <3> QED BY <3>1, <2>1, <2>4, OwnOff
  <2>6. SearchInv(t)' /\ Answers(t)'
    BY <2>4 DEF SearchInv, Answers
  <2>7. Effect(t)' = Effect(t)
    BY <2>1, <2>4, EffectSame DEF Inserted
  <2> QED BY <2>1, <2>4, <2>5, <2>6, <2>7, ReadStep
<1> QED BY <1>2, <1>3

(* A call of retireDeletedNodes; the last one ends the deletion. *)
LEMMA RetireDict ==
  ASSUME SafeInv, SafeInv', NEW t \in Thread, Moves(t), DictInv, RetireDeletedNodes(t)
  PROVE  DictInv' /\ Stutters
<1>1. /\ pc[t] = "retire" /\ UNCHANGED <<mem, linked, dict>>
      /\ \/ \E todo : loc' = [loc EXCEPT ![t].todo = todo] /\ pc' = pc /\ Quiet
         \/ /\ Injected(t) /\ pc' = [pc EXCEPT ![t] = "return"] /\ Quiet
            /\ loc' = [loc EXCEPT ![t] = [NoLocals EXCEPT !.leaf = loc[t].leaf, !.retval = loc[t].retval]]
         \/ ~Injected(t) /\ Retry(t, "retire")
  BY DEF RetireDeletedNodes, GoTo
<1>2. TypeOK /\ Calls(t) /\ OwnLeaf(t)
  BY Mine DEF DictInv
<1>3. CASE ~Injected(t) /\ Retry(t, "retire")
  BY <1>1, <1>3, RetryDict
<1>4. ASSUME Quiet, pc'[t] \in {"retire", "return"}, pc'[t] = "return" => Injected(t),
             loc'[t].leaf = loc[t].leaf, loc'[t].retval = loc[t].retval
      PROVE  DictInv' /\ Stutters
  <2>1. /\ mem' = mem /\ linked' = linked /\ pinned' = pinned /\ UNCHANGED <<dict, call, seen, answer>>
    BY <1>1, <1>4 DEF Quiet
  <2>2. Injected(t) => loc[t].leaf \notin linked /\ call[t].op = "erase"
    BY <1>1, <1>2 DEF OwnLeaf, Calls
  <2>3. OwnLeaf(t)'
    BY <1>2, <1>4, <2>1, <2>2, OwnOff
  <2>4. SearchInv(t)' /\ Answers(t)'
    BY <1>4, <2>1, <2>2 DEF SearchInv, Answers, Injected
  <2>5. Effect(t)' = Effect(t)
    <3>1. ~Inserted(t) /\ ~Inserted(t)'
      BY <1>1, <1>4, <2>1, <2>2 DEF Inserted
    <3> QED BY <3>1, <1>4, <2>1, EffectSame
  <2> QED BY <1>4, <2>1, <2>3, <2>4, <2>5, ReadStep
<1>5. CASE \E todo : loc' = [loc EXCEPT ![t].todo = todo] /\ pc' = pc /\ Quiet
  <2>1. pc'[t] = "retire" /\ loc'[t].leaf = loc[t].leaf /\ loc'[t].retval = loc[t].retval
    BY <1>1, <1>2, <1>5 DEF TypeOK, Locals
  <2> QED BY <1>4, <1>5, <2>1
<1>6. CASE /\ Injected(t) /\ pc' = [pc EXCEPT ![t] = "return"] /\ Quiet
           /\ loc' = [loc EXCEPT ![t] = [NoLocals EXCEPT !.leaf = loc[t].leaf, !.retval = loc[t].retval]]
  <2>1. pc'[t] = "return" /\ loc'[t].leaf = loc[t].leaf /\ loc'[t].retval = loc[t].retval
    BY <1>2, <1>6 DEF TypeOK, NoLocals
  <2> QED BY <1>4, <1>6, <2>1
<1> QED BY <1>1, <1>3, <1>5, <1>6

(* A mark is nothing that callers see. *)
LEMMA MarkDict ==
  ASSUME SafeInv, SafeInv', NEW t \in Thread, Moves(t), DictInv, Mark(t)
  PROVE  DictInv' /\ Stutters
<1>1. PICK p, d : p = loc[t].parent /\ d = Sibling(Side(t, p))
  OBVIOUS
<1>2. /\ pc[t] \in {"seek", "mark"} /\ (pc[t] = "seek" => loc[t].pL.flag)
      /\ pc[t] = "seek" /\ Injected(t) => loc[t].pL.addr = loc[t].leaf
      /\ pc' = [pc EXCEPT ![t] = "read"]
      /\ mem' = [mem EXCEPT ![p][d].mark = TRUE]
      /\ linked' = linked /\ loc' = loc /\ pinned' = pinned /\ UNCHANGED <<dict, call, seen, answer>>
  BY <1>1 DEF Mark, Conflict, AtLeaf, Quiet
<1>3. TypeOK /\ mem \in Memory /\ mem' \in Memory /\ Seeking(t) /\ Removing(t) /\ Gentle
  BY Mine DEF SafeInv, Tree, Moves
<1>4. pc'[t] = "read"
  BY <1>2, <1>3 DEF TypeOK
<1>5. SearchInv(t)' /\ Answers(t)'
  BY <1>4 DEF SearchInv, Answers
<1>6. Owners'
  <2>1. \A n \in Node, s \in Sides : mem'[n][s].addr = mem[n][s].addr /\ mem'[n][s].flag = mem[n][s].flag
    <3> TAKE n \in Node, s \in Sides
    <3>1. mem[n][s] \in WordType
      BY <1>3, WordOf
    <3> QED BY <3>1, <1>2, <1>3 DEF Memory, WordType, Sides
  <2>2. linked' \subseteq Node
    BY <1>2, <1>3 DEF TypeOK
  <2>3. NoNewFlags
    BY <2>1, <2>2, <1>2 DEF NoNewFlags
  <2> QED BY <2>3, <1>2, OwnersKept DEF DictInv
<1>7. OwnLeaf(t)'
  <2> SUFFICES ASSUME Injected(t) PROVE OwnLeaf(t)'
    BY <1>2 DEF OwnLeaf, Injected
  <2>1. PICK a : a = loc[t].leaf
    OBVIOUS
  <2>2. /\ IsLeaf(mem'[a]) /\ mem'[a].key = call'[t].key /\ mem'[a].value = loc'[t].retval
        /\ Flagged(mem', linked', a)
    BY <2>1, <1>2, OwnKept DEF DictInv
  <2>3. Memo(t).addr = a /\ Memo(t).flag
    <3>1. CASE pc[t] = "mark"
      BY <3>1, <2>1, <1>3 DEF DictInv, OwnLeaf, Removing
    <3>2. CASE pc[t] = "seek"
      BY <3>2, <2>1, <1>2, <1>3 DEF Seeking, IsFree
    <3> QED BY <3>1, <3>2, <1>2
  <2>4. Memo(t)'.addr = a
    BY <1>2, <1>3, <2>3, StillSeeking DEF IsFree
  <2> QED BY <1>2, <1>4, <2>1, <2>2, <2>4 DEF OwnLeaf
<1>8. Effect(t)' = Effect(t)
  BY <1>2, <1>4, EffectSame DEF Inserted
<1> QED BY <1>2, <1>5, <1>6, <1>7, <1>8, QuietStep


(* inject makes t the one owner of the leaf; the key is still there. *)
LEMMA InjectDict ==
  ASSUME SafeInv, SafeInv', NEW t \in Thread, Moves(t), DictInv, Inject(t)
  PROVE  DictInv' /\ Stutters
<1>1. PICK p, d, a : p = loc[t].parent /\ d = Side(t, p) /\ a = loc[t].pL.addr
  OBVIOUS
<1>2. /\ pc[t] = "seek" /\ IsLeaf(mem[a]) /\ mem[a].key = call[t].key /\ call[t].op = "erase"
      /\ IsFree(loc[t].pL) /\ ~Injected(t)
  BY <1>1 DEF Inject, AtLeaf, KeyFound
<1>3. CASE mem[p][d] # loc[t].pL
  <2>1. Retry(t, "seek") /\ UNCHANGED shared
    BY <1>1, <1>3 DEF Inject
  <2> QED BY <1>2, <2>1, RetryDict DEF shared
<1>4. CASE mem[p][d] = loc[t].pL
  <2>1. /\ pc' = [pc EXCEPT ![t] = "mark"] /\ mem' = [mem EXCEPT ![p][d] = Word(a, FALSE, TRUE)]
        /\ loc' = [loc EXCEPT ![t].leaf = a, ![t].retval = mem[a].value]
        /\ linked' = linked /\ pinned' = pinned /\ UNCHANGED <<dict, call, seen, answer>>
    BY <1>1, <1>4 DEF Inject, GoTo, Quiet
  <2>2. /\ TypeOK /\ mem \in Memory /\ Tree(mem, linked) /\ Gentle /\ Kept \in SUBSET Node
        /\ linked \subseteq Node /\ Near(t) \subseteq Kept
    BY Mine, TreeFacts DEF Moves
  <2>3. /\ p \in Kept /\ p \in Near(t) /\ ~IsLeaf(mem[p]) /\ d \in Sides /\ a \in Kept /\ a # NULL
    BY <1>1, <1>2, ParentSide
  <2>4. mem[p][d].addr = a /\ IsFree(mem[p][d]) /\ mem[p][d].flag = FALSE
    BY <1>1, <1>2, <1>4, <2>2, <2>3, WordOf DEF IsFree
  <2>5. p \in linked /\ a \in linked
    <3>1. p \in linked
      BY <2>3, <2>4, FreeInTree
    <3> QED BY <3>1, <2>2, <2>3, <2>4, TreeFacts
  <2>6. /\ pc'[t] = "mark" /\ loc'[t].leaf = a /\ loc'[t].retval = mem[a].value
        /\ loc'[t].parent = loc[t].parent
    BY <2>1, <2>2 DEF TypeOK, Locals
  <2>7. \A n \in Node, s \in Sides : mem'[n][s] = IF n = p /\ s = d THEN Word(a, FALSE, TRUE) ELSE mem[n][s]
    <3>1. Word(a, FALSE, TRUE) \in WordType
      BY <2>2, <2>3 DEF Word, WordType
    <3>2. p \in Node
      BY <2>2, <2>3
    <3>3. PICK w \in WordType : w = Word(a, FALSE, TRUE)
      BY <3>1
    <3>4. mem' = [mem EXCEPT ![p][d] = w]
      BY <2>1, <3>3
    <3>5. OneWord(mem, mem', p, d, w)
      BY <3>2, <3>4, <2>2, <2>3, PutWord
    <3> QED BY <3>3, <3>5 DEF OneWord
  <2>8. mem'[p][d].addr = a /\ mem'[p][d].flag = TRUE
    <3>1. mem'[p][d] = Word(a, FALSE, TRUE)
      BY <2>2, <2>3, <2>7
    <3> QED BY <3>1 DEF Word
  <2>9. \A n \in linked, s \in Sides : mem[n][s].addr = a => n = p /\ s = d
    BY <2>2, <2>3, <2>4, <2>5, TreeFacts
  <2>10. SearchInv(t)' /\ Answers(t)'
    BY <2>6 DEF SearchInv, Answers
  <2>11. \A u \in Thread \ {t} : loc'[u] = loc[u]
    BY <2>1, <2>2 DEF TypeOK
  <2>12. Owners'
    <3>1. ASSUME NEW u \in Thread \ {t}, Injected(u) PROVE loc[u].leaf # a
      <4>1. Flagged(mem, linked, loc[u].leaf)
        BY <3>1 DEF DictInv, OwnLeaf
      <4> QED BY <4>1, <2>3, <2>4, <2>5 DEF Flagged
    <3>2. ASSUME NEW u \in Thread, NEW x \in Thread, Injected(u)', Injected(x)', u # x
          PROVE  loc'[u].leaf # loc'[x].leaf
      <4>1. CASE u = t
        BY <4>1, <3>1, <3>2, <2>6, <2>11 DEF Injected
      <4>2. CASE x = t
        BY <4>2, <3>1, <3>2, <2>6, <2>11 DEF Injected
      <4>3. CASE u # t /\ x # t
        BY <4>3, <3>2, <2>11 DEF Injected, DictInv, Owners
      <4> QED BY <4>1, <4>2, <4>3
    <3>3. ASSUME NEW n \in linked, NEW s \in Sides, mem'[n][s].flag
          PROVE  \E u \in Thread : loc'[u].leaf = mem'[n][s].addr
      <4>1. CASE n = p /\ s = d
        BY <4>1, <2>6, <2>8
      <4>2. CASE ~(n = p /\ s = d)
        <5>1. mem'[n][s] = mem[n][s]
          BY <4>2, <2>2, <2>7
        <5>2. PICK u \in Thread : loc[u].leaf = mem[n][s].addr
          BY <3>3, <5>1 DEF DictInv, Owners
        <5>3. mem[n][s].addr # NULL
          BY <3>3, <5>1, <2>2, TreeFacts DEF NullWord, Word
        <5>4. u # t
          BY <5>2, <5>3, <1>2 DEF Injected
        <5> QED BY <5>1, <5>2, <5>4, <2>11
      <4> QED BY <4>1, <4>2
    <3> QED BY <3>2, <3>3, <2>1 DEF Owners
  <2>13. OwnLeaf(t)'
    <3>1. IsLeaf(mem'[a]) /\ mem'[a].key = call'[t].key /\ mem'[a].value = loc'[t].retval
      BY <1>2, <2>1, <2>2, <2>3, <2>6 DEF Gentle, Calm
    <3>2. Flagged(mem', linked', a)
      <4> SUFFICES ASSUME NEW n \in linked, NEW s \in Sides, mem'[n][s].addr = a PROVE mem'[n][s].flag
        BY <2>1 DEF Flagged
      <4>1. CASE n = p /\ s = d
        BY <4>1, <2>8
      <4>2. CASE ~(n = p /\ s = d)
        BY <4>2, <2>2, <2>7, <2>9
      <4> QED BY <4>1, <4>2
    <3>3. Memo(t)'.addr = a
      <4>1. mem'[p].key = mem[p].key
        BY <2>2, <2>3 DEF Gentle, Calm
      <4>2. Side(t, p)' = d
        BY <4>1, <1>1, <2>1 DEF Side, SideOf
      <4>3. Memo(t)' = mem'[p][d]
        BY <4>2, <1>1, <2>6 DEF Memo
      <4> QED BY <4>3, <2>8
    <3> QED BY <3>1, <3>2, <3>3, <2>6 DEF OwnLeaf
  <2>14. Effect(t)' = Effect(t)
    <3>1. ~Erased(t) /\ ~Inserted(t) /\ ~Erased(t)' /\ ~Inserted(t)'
      BY <1>2, <2>1, <2>5, <2>6 DEF Erased, Inserted
    <3> QED BY <3>1, EffectIs, EffectNext
  <2> QED BY <2>1, <2>10, <2>12, <2>13, <2>14, QuietStep
<1> QED BY <1>3, <1>4


-----------------------------------------------------------------------------
(* The steps that callers see. *)

(* The effects of the others, by what happens to their leaves. *)
LEMMA OthersEffect ==
  ASSUME SafeInv, NEW t \in Thread, Moves(t), NEW u \in Thread \ {t}
  PROVE  Effect(u)' = IF Injected(u) /\ loc[u].leaf \in linked \ linked'
                      THEN {loc[u].retval} ELSE Effect(u)
<1>1. /\ pc'[u] = pc[u] /\ call'[u] = call[u] /\ loc'[u] = loc[u]
      /\ \A n \in linked' : n \in linked \/ n \notin Kept
  BY DEF Moves, Stands, Gentle
<1>2. Injected(u) => loc[u].leaf \in Kept
  <2>1. Held(u) \subseteq Near(u) /\ Near(u) \subseteq Kept
    BY Mine
  <2> QED BY <2>1 DEF Held, Injected
<1>3. Erased(u)' <=> Injected(u) /\ loc[u].leaf \notin linked'
  BY <1>1 DEF Erased, Injected
<1>4. Inserted(u)' <=> Inserted(u)
  BY <1>1 DEF Inserted
<1>5. CASE Injected(u) /\ loc[u].leaf \in linked \ linked'
  BY <1>1, <1>3, <1>5, EffectNext
<1>6. CASE ~(Injected(u) /\ loc[u].leaf \in linked \ linked')
  <2>1. Erased(u)' <=> Erased(u)
    BY <1>1, <1>2, <1>3, <1>6 DEF Erased
  <2> QED BY <1>1, <1>4, <1>6, <2>1, EffectIs, EffectNext
<1> QED BY <1>5, <1>6

(* A call begins. *)
LEMMA InvokeDict ==
  ASSUME SafeInv, SafeInv', NEW t \in Thread, Moves(t), DictInv, NEW c \in Call, Invoke(t, c)
  PROVE  DictInv' /\ Abstract!Invoke(t, c)
<1>1. /\ pc[t] = "idle" /\ pc' = [pc EXCEPT ![t] = "root"]
      /\ call' = [call EXCEPT ![t] = c] /\ seen' = [seen EXCEPT ![t] = {dict[c.key]}]
      /\ mem' = mem /\ linked' = linked /\ dict' = dict /\ loc' = loc /\ pinned' = pinned
      /\ answer' = answer
  BY DEF Invoke, GoTo, shared
<1>2. /\ TypeOK /\ Calls(t) /\ Pins(t) /\ Tree(mem, linked) /\ Gentle
      /\ dict = Contents(mem)
  BY Mine DEF DictInv, Moves
<1>3. /\ pc'[t] = "root" /\ call'[t] = c /\ seen'[t] = {dict[c.key]}
      /\ \A u \in Thread \ {t} : seen'[u] = seen[u]
  BY <1>1, <1>2 DEF TypeOK
<1>4. call[t] = NoCall /\ loc[t] = NoLocals /\ pinned[t] = {}
  BY <1>1, <1>2 DEF Calls, Pins
<1>5. loc[t].leaf = NULL
  BY <1>4 DEF NoLocals
<1>6. c \in Call /\ c # NoCall /\ c.key \in Key
  BY DEF Call, NoCall
<1>7. dict' = Contents(mem')
  BY <1>1, <1>2
<1>8. \A u \in Thread \ {t} : SeesOn(u)
  BY <1>1, <1>3, SeesSame DEF DictInv
<1>9. SeenInv(t)'
  <2>1. \A a \in linked : IsLeaf(mem[a]) /\ mem[a].key = c.key =>
          mem[a].value = dict[c.key] /\ mem[a].value \in Value
    BY <1>2, <1>6, ContentsLeaf
  <2>2. Near(t)' = linked
    BY <1>1, <1>4 DEF Near
  <2> QED BY <2>1, <2>2, <1>1, <1>3, <1>6, BstAssumption DEF SeenInv
<1>10. SearchInv(t)' /\ OwnLeaf(t)' /\ Answers(t)'
  BY <1>1, <1>3, <1>5 DEF SearchInv, OwnLeaf, Answers, Injected
<1>11. Owners'
  <2>1. NoNewFlags
    BY <1>1 DEF NoNewFlags
  <2> QED BY <2>1, <1>1, OwnersKept DEF DictInv
<1>12. DictInv'
  BY <1>7, <1>8, <1>9, <1>10, <1>11, DictStep
<1>13. \A u \in Thread : Effect(u)' = Effect(u)
  <2>1. \A u \in Thread \ {t} : Effect(u)' = Effect(u)
    BY <1>1, OthersEffect
  <2>2. ~Erased(t) /\ ~Inserted(t) /\ ~Erased(t)' /\ ~Inserted(t)'
    BY <1>1, <1>3, <1>5 DEF Erased, Inserted, Injected
  <2> QED BY <2>1, <2>2, EffectIs, EffectNext
<1>14. Abstract!Invoke(t, c)
  BY <1>1, <1>4, <1>13 DEF Abstract!Invoke, NoCall, Abstract!NoCall
<1> QED BY <1>12, <1>14

(* A call returns: a deletion has had its effect, and anybody else answers *)
(* with a value that was seen.                                             *)
LEMMA ReturnDict ==
  ASSUME SafeInv, SafeInv', NEW t \in Thread, Moves(t), DictInv, Return(t)
  PROVE  DictInv' /\ \E v \in Value \cup {NoValue} : Abstract!Return(t, v)
<1>0. PICK v : v = loc[t].retval
  OBVIOUS
<1>1. /\ pc[t] = "return" /\ pc' = [pc EXCEPT ![t] = "idle"] /\ answer' = [answer EXCEPT ![t] = v]
      /\ call' = [call EXCEPT ![t] = NoCall] /\ loc' = [loc EXCEPT ![t] = NoLocals]
      /\ pinned' = [pinned EXCEPT ![t] = {}] /\ seen' = [seen EXCEPT ![t] = {}]
      /\ mem' = mem /\ linked' = linked /\ dict' = dict
  BY <1>0 DEF Return, GoTo, shared
<1>2. /\ TypeOK /\ Calls(t) /\ Tree(mem, linked) /\ dict = Contents(mem) /\ linked \subseteq Node
      /\ SeenInv(t) /\ OwnLeaf(t) /\ Answers(t)
  BY Mine, TreeFacts DEF DictInv
<1>3. /\ pc'[t] = "idle" /\ call'[t] = NoCall /\ loc'[t] = NoLocals /\ seen'[t] = {}
      /\ \A u \in Thread \ {t} : seen'[u] = seen[u] /\ loc'[u] = loc[u]
  BY <1>1, <1>2 DEF TypeOK
<1>4. loc'[t].leaf = NULL /\ ~Injected(t)'
  BY <1>3 DEF NoLocals, Injected
<1>5. call[t] # NoCall
  BY <1>1, <1>2 DEF Calls
<1>6. call[t] \in Call /\ call[t].op \in {"find", "insertIfAbsent", "erase"}
  BY <1>2, <1>5, KeyOf DEF Call
<1>7. dict' = Contents(mem')
  BY <1>1, <1>2
<1>8. \A u \in Thread \ {t} : SeesOn(u)
  BY <1>1, <1>3, SeesSame DEF DictInv
<1>9. SeenInv(t)'
  BY <1>3 DEF SeenInv
<1>10. SearchInv(t)' /\ OwnLeaf(t)' /\ Answers(t)'
  BY <1>3, <1>4 DEF SearchInv, OwnLeaf, Answers
<1>11. Owners'
  <2>1. NoNewFlags
    BY <1>1 DEF NoNewFlags
  <2>2. loc[t].leaf \notin linked
    BY <1>1, <1>2, NodeFacts DEF OwnLeaf, Injected
  <2> QED BY <2>1, <2>2, <1>3, <1>4, OwnersKept DEF DictInv
<1>12. DictInv'
  BY <1>7, <1>8, <1>9, <1>10, <1>11, DictStep
<1>13. Effect(t)' = {} /\ \A u \in Thread \ {t} : Effect(u)' = Effect(u)
  <2>1. \A u \in Thread \ {t} : Effect(u)' = Effect(u)
    BY <1>1, OthersEffect
  <2>2. ~Erased(t)' /\ ~Inserted(t)'
    BY <1>3, <1>4 DEF Erased, Inserted
  <2> QED BY <2>1, <2>2, EffectNext
<1>14. v \in IF Effect(t) = {} THEN Abstract!Unchanged(t) ELSE Effect(t)
  <2>1. CASE Injected(t)
    <3>1. Erased(t)
      BY <2>1, <1>1, <1>2 DEF Erased, OwnLeaf
    <3> QED BY <3>1, <1>0, EffectIs
  <2>2. CASE ~Injected(t)
    <3>1. ~Erased(t)
      BY <2>2 DEF Erased
    <3>2. CASE call[t].op = "find"
      <4>1. ~Inserted(t) /\ v \in seen[t]
        BY <3>2, <1>0, <1>1, <1>2 DEF Inserted, Answers
      <4>2. Effect(t) = {}
        BY <3>1, <4>1, EffectIs
      <4> QED BY <3>2, <4>1, <4>2 DEF Abstract!Unchanged
    <3>3. CASE call[t].op = "insertIfAbsent" /\ v = NoValue
      <4>1. Inserted(t)
        BY <3>3, <1>0, <1>1 DEF Inserted
      <4> QED BY <3>1, <3>3, <4>1, EffectIs
    <3>4. CASE call[t].op = "insertIfAbsent" /\ v # NoValue
      <4>1. ~Inserted(t) /\ v \in seen[t] \ {NoValue}
        BY <3>4, <1>0, <1>1, <1>2 DEF Inserted, Answers
      <4>2. Effect(t) = {}
        BY <3>1, <4>1, EffectIs
      <4> QED BY <3>4, <4>1, <4>2 DEF Abstract!Unchanged
    <3>5. CASE call[t].op = "erase"
      <4>1. ~Inserted(t) /\ v = NoValue /\ NoValue \in seen[t]
        BY <2>2, <3>5, <1>0, <1>1, <1>2 DEF Inserted, Answers
      <4>2. Effect(t) = {}
        BY <3>1, <4>1, EffectIs
      <4> QED BY <3>5, <4>1, <4>2 DEF Abstract!Unchanged
    <3> QED BY <1>6, <3>2, <3>3, <3>4, <3>5
  <2> QED BY <2>1, <2>2
<1>15. Abstract!Return(t, v)
  <2>1. [u \in Thread |-> Effect(u)]' = [[u \in Thread |-> Effect(u)] EXCEPT ![t] = {}]
    BY <1>13
  <2> QED BY <2>1, <1>1, <1>5, <1>14 DEF Abstract!Return, NoCall, Abstract!NoCall
<1>16. v \in Value \cup {NoValue}
  BY <1>0, <1>2 DEF TypeOK, Locals
<1> QED BY <1>12, <1>15, <1>16

(* A step that gives the tree a new shape shows everybody the new contents. *)
LEMMA ReshapeSees ==
  ASSUME NEW t, NEW m, Reshape(t, m)
  PROVE  /\ dict' = Contents(mem') /\ seen' = Abstract!SeenAlso(dict')
         /\ \A u \in Thread : SeesOn(u)
<1>1. /\ dict' = Contents(mem')
      /\ seen' = [u \in Thread |-> IF call[u] = NoCall THEN {} ELSE seen[u] \cup {dict'[call[u].key]}]
  BY DEF Reshape
<1>2. seen' = Abstract!SeenAlso(dict')
  BY <1>1 DEF Abstract!SeenAlso, NoCall, Abstract!NoCall
<1> QED BY <1>1, <1>2 DEF SeesOn

(* An insert gives a key that had none a value, and no other key.          *)
LEMMA GrowContents ==
  ASSUME NEW m, NEW L, NEW p, NEW k, NEW v, NEW a, NEW i, NEW m2, GrowAt(m, L, p, k, v, a, i, m2)
  PROVE  Contents(m)[k] = NoValue /\ Contents(m2) = [Contents(m) EXCEPT ![k] = v]
<1> DEFINE e == Ahd(m, k, p)
           L2 == L \cup {a, i}
<1>1. /\ Tree(m, L) /\ m \in Memory /\ Shape(m) /\ L \in SUBSET Node /\ Root \in Node /\ k \in Key
      /\ a \in Node \ L /\ i \in Node \ L /\ a # i /\ p \in Walk(m, k, Root) /\ v \in Value
      /\ IsLeaf(m[e]) /\ m[e].key # k
  BY TreeFacts, NodeFacts, PathIsWalk DEF GrowAt, Tree
<1>2. Tree(m2, L2) /\ m2 \in Memory
  BY GrowTree DEF Tree
<1>3. /\ IsLeaf(m2[a]) /\ ~IsLeaf(m2[i]) /\ m2[a].key = k /\ m2[a].value = v
      /\ \A n \in Node \ {a, i} : IsLeaf(m2[n]) <=> IsLeaf(m[n])
      /\ \A n \in Node \ {a, i} : m2[n].key = m[n].key /\ m2[n].value = m[n].value
  BY GrowLeaves
<1>4. e # NULL
  BY GrownFacts DEF Grew
<1> HIDE DEF e, L2
<1>5. e \in Walk(m, k, Root)
  BY <1>1, <1>4, WalkLeast DEF e
<1>6. \A b \in L : ~(IsLeaf(m[b]) /\ m[b].key = k)
  <2> SUFFICES ASSUME NEW b \in L, IsLeaf(m[b]), m[b].key = k PROVE FALSE
    OBVIOUS
  <2>1. b \in Walk(m, k, Root)
    BY <1>1, ContentsLeaf, PathIsWalk
  <2> QED BY <2>1, <1>1, <1>5, OneLeaf
<1>7. Contents(m)[k] = NoValue
  BY <1>1, <1>6, ContentsNone
<1>8. Contents(m2)[k] = v
  <2>1. a \in L2
    BY DEF L2
  <2> QED BY <2>1, <1>1, <1>2, <1>3, ContentsLeaf
<1>9. ASSUME NEW c \in Key, c # k PROVE Contents(m2)[c] = Contents(m)[c]
  <2>1. \A b \in L : IsLeaf(m[b]) /\ m[b].key = c =>
          b \in L2 /\ IsLeaf(m2[b]) /\ m2[b].key = c /\ m2[b].value = m[b].value
    BY <1>1, <1>3 DEF L2
  <2>2. \A b \in L2 : IsLeaf(m2[b]) /\ m2[b].key = c => b \in L /\ IsLeaf(m[b]) /\ m[b].key = c
    BY <1>1, <1>3, <1>9 DEF L2
  <2> QED BY <2>1, <2>2, <1>1, <1>2, ContentsAt
<1>10. /\ Contents(m) \in [Key -> Value \cup {NoValue}]
       /\ Contents(m2) \in [Key -> Value \cup {NoValue}]
  BY <1>1, <1>2, ContentsType
<1> QED BY <1>1, <1>7, <1>8, <1>9, <1>10

(* The insert takes effect with its CAS. *)
LEMMA InsertWindowDict ==
  ASSUME SafeInv, SafeInv', NEW t \in Thread, Heading(t), Moves(t), DictInv, InsertWindow(t)
  PROVE  DictInv' /\ (Stutters \/ Abstract!Insert(t))
<1>0. PICK p, k, v : p = loc[t].parent /\ k = call[t].key /\ v = call[t].value
  OBVIOUS
<1>1. /\ pc[t] = "seek" /\ IsLeaf(mem[loc[t].pL.addr]) /\ mem[loc[t].pL.addr].key # k
      /\ call[t].op = "insertIfAbsent" /\ IsFree(loc[t].pL) /\ Calls(t) /\ TypeOK
  BY <1>0, Mine DEF InsertWindow, AtLeaf, KeyFound
<1>2. ~Injected(t) /\ call[t] # NoCall /\ call[t].op # "erase"
  BY <1>1 DEF Calls
<1>3. CASE mem[p][Side(t, p)] # loc[t].pL
  <2>1. Retry(t, "seek") /\ UNCHANGED shared
    BY <1>0, <1>3 DEF InsertWindow
  <2> QED BY <1>1, <1>2, <2>1, RetryDict DEF shared
<1>4. CASE mem[p][Side(t, p)] = loc[t].pL
  <2>1. PICK i \in Available : \E a \in Available \ {i} : Reshape(t, Grown(mem, p, k, v, a, i))
    BY <1>0, <1>4 DEF InsertWindow
  <2>2. PICK a \in Available \ {i} : Reshape(t, Grown(mem, p, k, v, a, i))
    BY <2>1
  <2>3. /\ pc' = [pc EXCEPT ![t] = "return"] /\ loc' = [loc EXCEPT ![t] = NoLocals]
        /\ UNCHANGED <<call, answer, script>>
    BY <1>0, <1>4 DEF InsertWindow, GoTo
  <2>4. Memo(t) = loc[t].pL
    BY <1>0, <1>4 DEF Memo
  <2>5. mem' = Grown(mem, p, k, v, a, i) /\ linked' = Reachable(mem')
    BY <2>2 DEF Reshape
  <2>6. GrowAt(mem, linked, p, k, v, a, i, mem') /\ a \notin Kept /\ i \notin Kept
    BY <1>0, <1>1, <2>4, <2>5, InsertGrows
  <2>7. linked' = linked \cup {a, i}
    BY <2>5, <2>6, GrowReach
  <2>8. dict' = Contents(mem') /\ seen' = Abstract!SeenAlso(dict') /\ \A u \in Thread : SeesOn(u)
    BY <2>2, ReshapeSees
  <2>9. dict = Contents(mem) /\ SeenInv(t)
    BY DEF DictInv
  <2>10. dict[k] = NoValue /\ dict' = [dict EXCEPT ![k] = v]
    BY <2>6, <2>8, <2>9, GrowContents
  <2>11. /\ pc'[t] = "return" /\ loc'[t] = NoLocals
         /\ \A u \in Thread \ {t} : loc'[u] = loc[u]
    BY <1>1, <2>3 DEF TypeOK
  <2>12. loc'[t].leaf = NULL /\ loc[t].leaf = NULL /\ loc'[t].retval = NoValue
    BY <1>2, <2>11 DEF NoLocals, Injected
  <2>13. Near(t)' \subseteq Near(t) \cup linked'
    <3>1. pinned'[t] \subseteq pinned[t] \cup linked
      BY <2>2 DEF Reshape
    <3> QED BY <3>1, <2>7 DEF Near
  <2>14. SeenInv(t)'
    BY <2>3, <2>8, <2>9, <2>13, SeenKept DEF Moves
  <2>15. SearchInv(t)' /\ OwnLeaf(t)' /\ Answers(t)'
    BY <1>1, <2>3, <2>11, <2>12 DEF SearchInv, OwnLeaf, Answers, Injected
  <2>16. Owners'
    <3>1. ~SetsBits
      <4>1. linked \subseteq Kept
        BY Mine
      <4> QED BY <4>1, <2>6, <2>7 DEF SetsBits
    <3>2. NoNewFlags
      BY <3>1, FlagsKept
    <3> QED BY <3>2, <2>11, <2>12, OwnersKept DEF DictInv
  <2>17. DictInv'
    BY <2>8, <2>14, <2>15, <2>16, DictStep
  <2>18. Effect(t) = {} /\ Effect(t)' = {NoValue}
    <3>1. ~Erased(t) /\ ~Inserted(t) /\ ~Erased(t)' /\ Inserted(t)'
      BY <1>1, <1>2, <2>3, <2>11, <2>12 DEF Erased, Inserted, Injected
    <3> QED BY <3>1, EffectIs, EffectNext
  <2>19. \A u \in Thread \ {t} : Effect(u)' = Effect(u)
    <3>1. linked \ linked' = {}
      BY <2>7
    <3> QED BY <3>1, OthersEffect
  <2>20. [u \in Thread |-> Effect(u)]' = [[u \in Thread |-> Effect(u)] EXCEPT ![t] = {dict[k]}]
    BY <2>10, <2>18, <2>19
  <2>21. Abstract!Insert(t)
    BY <1>0, <1>1, <1>2, <2>3, <2>8, <2>10, <2>18, <2>20 DEF Abstract!Insert, NoCall, Abstract!NoCall
  <2> QED BY <2>17, <2>21
<1> QED BY <1>3, <1>4

(* A key whose leaf is cut off has no value any more; the others keep      *)
(* theirs.                                                                 *)
LEMMA CutContents ==
  ASSUME NEW m, NEW L, NEW lum, NEW d, NEW parent, NEW s, NEW m2,
         CutAt(m, L, lum, d, parent, s, m2), NEW k \in Key
  PROVE  Contents(m2)[k] = IF \E a \in L \ Reachable(m2) : IsLeaf(m[a]) /\ m[a].key = k
                           THEN NoValue ELSE Contents(m)[k]
<1> DEFINE L2 == Reachable(m2)
<1>1. Tree(m, L) /\ L \in SUBSET Node /\ L2 \subseteq L
  BY CutBasics, TreeFacts DEF CutAt
<1>2. Tree(m2, L2) /\ \A n \in Node : IsLeaf(m2[n]) <=> IsLeaf(m[n])
  BY CutTree
<1>3. \A n \in Node : m2[n].key = m[n].key /\ m2[n].value = m[n].value
  BY DEF CutAt, OneWord
<1> HIDE DEF L2
<1>4. CASE \E a \in L \ L2 : IsLeaf(m[a]) /\ m[a].key = k
  <2>1. PICK a \in L \ L2 : IsLeaf(m[a]) /\ m[a].key = k
    BY <1>4
  <2>2. \A b \in L : IsLeaf(m[b]) /\ m[b].key = k => b = a
    BY <2>1, <1>1, ContentsLeaf
  <2>3. \A b \in L2 : ~(IsLeaf(m2[b]) /\ m2[b].key = k)
    BY <2>1, <2>2, <1>1, <1>2, <1>3
  <2>4. Contents(m2)[k] = NoValue
    BY <2>3, <1>2, ContentsNone
  <2> QED BY <2>4, <1>4 DEF L2
<1>5. CASE \A a \in L \ L2 : ~(IsLeaf(m[a]) /\ m[a].key = k)
  <2>1. \A a \in L : IsLeaf(m[a]) /\ m[a].key = k =>
          a \in L2 /\ IsLeaf(m2[a]) /\ m2[a].key = k /\ m2[a].value = m[a].value
    BY <1>1, <1>2, <1>3, <1>5
  <2>2. \A a \in L2 : IsLeaf(m2[a]) /\ m2[a].key = k => a \in L /\ IsLeaf(m[a]) /\ m[a].key = k
    BY <1>1, <1>2, <1>3
  <2>3. Contents(m2)[k] = Contents(m)[k]
    BY <2>1, <2>2, <1>1, <1>2, ContentsAt
  <2> QED BY <2>3, <1>5 DEF L2
<1> QED BY <1>4, <1>5

(* A leaf that is cut off is the leaf of a deletion.                       *)
LEMMA CutOwned ==
  ASSUME DictInv, NEW lum, NEW d, NEW parent, NEW s, NEW m2,
         CutAt(mem, linked, lum, d, parent, s, m2),
         NEW n \in linked \ Reachable(m2), IsLeaf(mem[n])
  PROVE  \E u \in Thread : Injected(u) /\ loc[u].leaf = n
<1>1. PICK p \in linked, r \in Sides : mem[p][r].flag /\ mem[p][r].addr = n
  BY CutGone
<1>2. PICK u \in Thread : loc[u].leaf = n
  BY <1>1 DEF DictInv, Owners
<1>3. n # NULL
  BY TreeFacts, NodeFacts DEF CutAt
<1> QED BY <1>2, <1>3 DEF Injected

(* The leaf beside the sibling that takes its parent's place goes.         *)
LEMMA BesideCut ==
  ASSUME NEW m, NEW L, NEW lum, NEW d, NEW parent, NEW s, NEW m2,
         CutAt(m, L, lum, d, parent, s, m2)
  PROVE  m[parent][Sibling(s)].addr \notin Reachable(m2)
<1>1. Tree(m, L) /\ s \in Sides
  BY DEF CutAt
<1>2. /\ parent \in L \ Reachable(m2) /\ ~IsLeaf(m[parent])
      /\ \A r \in Sides : m[parent][r].addr # NULL =>
            m[parent][r].addr \in (L \ Reachable(m2)) \cup {m[parent][s].addr}
  BY CutParts, CutBasics
<1>3. Sibling(s) \in Sides /\ Sibling(s) # s
  BY <1>1, SideFacts
<1>4. m[parent][Sibling(s)].addr # NULL /\ m[parent][s].addr # NULL
  BY <1>1, <1>2, <1>3, TreeFacts
<1>5. m[parent][Sibling(s)].addr # m[parent][s].addr
  BY <1>1, <1>2, <1>3, <1>4, TreeFacts
<1> QED BY <1>2, <1>3, <1>4, <1>5

(* The deletions whose leaves a step cuts off.                             *)
Victims == {u \in Thread : Injected(u) /\ loc[u].leaf \in linked \ linked'}

(* All of them take effect with the step, and nothing else happens.        *)
LEMMA CutErases ==
  ASSUME SafeInv, SafeInv', NEW t \in Thread, Moves(t), Cuts(t), DictInv,
         \A u \in Thread : Effect(u)' = IF u \in Victims THEN {loc[u].retval} ELSE Effect(u),
         dict' = Contents(mem'), seen' = Abstract!SeenAlso(dict'), UNCHANGED <<call, answer>>
  PROVE  Stutters \/ \E T \in SUBSET Thread : Abstract!Erase(T)
<1>1. PICK lum, d, parent, s : CutAt(mem, linked, lum, d, parent, s, mem') /\ linked' = Reachable(mem')
  BY DEF Cuts
<1>2. /\ TypeOK /\ Tree(mem, linked) /\ dict = Contents(mem) /\ mem' \in Memory
  BY Mine DEF DictInv, CutAt, SafeInv, Tree
<1>3. ASSUME NEW u \in Victims
      PROVE  /\ u \in Thread /\ call[u].op = "erase" /\ call[u].key \in Key
             /\ loc[u].leaf \in linked \ linked' /\ IsLeaf(mem[loc[u].leaf])
             /\ mem[loc[u].leaf].key = call[u].key
             /\ dict[call[u].key] = loc[u].retval /\ dict[call[u].key] # NoValue
             /\ call[u] # NoCall /\ Effect(u) = {}
  <2>1. u \in Thread /\ Injected(u) /\ loc[u].leaf \in linked \ linked'
    BY DEF Victims
  <2>2. /\ IsLeaf(mem[loc[u].leaf]) /\ mem[loc[u].leaf].key = call[u].key
        /\ mem[loc[u].leaf].value = loc[u].retval
    BY <2>1 DEF DictInv, OwnLeaf
  <2>3. call[u].op = "erase"
    BY <2>1, Mine DEF Calls
  <2>4. call[u] # NoCall
    BY <2>3 DEF NoCall
  <2>5. call[u].key \in Key
    BY <2>1, <2>4, <1>2, KeyOf
  <2>6. dict[call[u].key] = loc[u].retval /\ dict[call[u].key] \in Value
    BY <2>1, <2>2, <2>5, <1>2, ContentsLeaf
  <2>7. ~Erased(u) /\ ~Inserted(u)
    BY <2>1, <2>3 DEF Erased, Inserted
  <2> QED BY <2>1, <2>2, <2>3, <2>4, <2>5, <2>6, <2>7, EffectIs, BstAssumption
<1>4. ASSUME NEW k \in Key
      PROVE  dict'[k] = IF \E u \in Victims : call[u].key = k THEN NoValue ELSE dict[k]
  <2>1. dict'[k] = IF \E a \in linked \ linked' : IsLeaf(mem[a]) /\ mem[a].key = k
                   THEN NoValue ELSE dict[k]
    BY <1>1, <1>2, CutContents
  <2>2. ASSUME NEW a \in linked \ linked', IsLeaf(mem[a]), mem[a].key = k
        PROVE  \E u \in Victims : call[u].key = k
    <3>1. PICK u \in Thread : Injected(u) /\ loc[u].leaf = a
      BY <2>2, <1>1, CutOwned
    <3>2. u \in Victims
      BY <3>1 DEF Victims
    <3> QED BY <3>1, <3>2, <2>2, <1>3
  <2>3. ASSUME NEW u \in Victims, call[u].key = k
        PROVE  \E a \in linked \ linked' : IsLeaf(mem[a]) /\ mem[a].key = k
    BY <2>3, <1>3
  <2> QED BY <2>1, <2>2, <2>3
<1>5. dict \in [Key -> Value \cup {NoValue}] /\ dict' \in [Key -> Value \cup {NoValue}]
  BY <1>2, ContentsType DEF TypeOK
<1>6. CASE Victims = {}
  <2>1. dict' = dict
    BY <1>4, <1>5, <1>6
  <2>2. seen' = seen
    <3>1. ASSUME NEW u \in Thread
          PROVE  (IF call[u] = NoCall THEN {} ELSE seen[u] \cup {dict'[call[u].key]}) = seen[u]
      BY <2>1 DEF DictInv, SeenInv
    <3>2. seen' = [u \in Thread |-> IF call[u] = NoCall THEN {} ELSE seen[u] \cup {dict'[call[u].key]}]
      BY DEF Abstract!SeenAlso, NoCall, Abstract!NoCall
    <3> QED BY <3>1, <3>2, <1>2 DEF TypeOK
  <2> QED BY <2>1, <2>2, <1>6 DEF Stutters
<1>7. CASE Victims # {}
  <2>0. PICK T \in SUBSET Thread : T = Victims
    BY DEF Victims
  <2>1. ASSUME NEW u \in T, NEW w \in T \ {u} PROVE call[w].key # call[u].key
    <3>1. loc[w].leaf # loc[u].leaf
      <4>1. u \in Thread /\ w \in Thread /\ Injected(u) /\ Injected(w) /\ u # w
        BY <2>0 DEF Victims
      <4> QED BY <4>1 DEF DictInv, Owners
    <3>2. /\ loc[u].leaf \in linked /\ IsLeaf(mem[loc[u].leaf]) /\ mem[loc[u].leaf].key = call[u].key
          /\ loc[w].leaf \in linked /\ IsLeaf(mem[loc[w].leaf]) /\ mem[loc[w].leaf].key = call[w].key
          /\ call[u].key \in Key
      BY <2>0, <1>3
    <3> QED BY <3>1, <3>2, <1>2, ContentsLeaf
  <2>2. dict' = [k \in Key |-> IF \E u \in T : call[u].key = k THEN NoValue ELSE dict[k]]
    BY <2>0, <1>4, <1>5
  <2>3. [u \in Thread |-> Effect(u)]' = [u \in Thread |-> IF u \in T THEN {dict[call[u].key]} ELSE Effect(u)]
    BY <2>0, <1>3
  <2>4. Abstract!Erase(T)
    BY <2>0, <2>1, <2>2, <2>3, <1>3, <1>7 DEF Abstract!Erase, NoCall, Abstract!NoCall
  <2> QED BY <2>4
<1> QED BY <1>6, <1>7

(* Deletions take effect with the CAS that cuts off their leaves. *)
LEMMA SwingWorksDict ==
  ASSUME SafeInv, SafeInv', NEW t \in Thread, Moves(t), DictInv,
         pc[t] \in {"seek", "swing"}, NEW from, NEW pS, Swing(t, from, pS),
         NEW s \in Sides, mem[loc[t].parent][s].mark,
         pS.addr = mem[loc[t].parent][s].addr, pS.flag = mem[loc[t].parent][s].flag,
         Injected(t) => mem[loc[t].parent][Sibling(s)].addr = loc[t].leaf,
         mem[loc[t].lum][Side(t, loc[t].lum)] = loc[t].lumC
  PROVE  DictInv' /\ (Stutters \/ \E T \in SUBSET Thread : Abstract!Erase(T))
<1>0. PICK x, d, a : x = loc[t].lum /\ d = Side(t, x) /\ a = loc[t].leaf
  OBVIOUS
<1> DEFINE w == [NoLocals EXCEPT !.pS = pS, !.leaf = loc[t].leaf, !.retval = loc[t].retval,
                                 !.todo = <<[node |-> loc[t].lumC.addr, flagged |-> FALSE]>>]
<1>1. /\ Reshape(t, [mem EXCEPT ![x][d] = Promoted(pS)])
      /\ pc' = [pc EXCEPT ![t] = "retire"] /\ loc' = [loc EXCEPT ![t] = w]
      /\ UNCHANGED <<call, answer, script>>
  BY <1>0 DEF Swing, GoTo
<1>2. w.leaf = loc[t].leaf /\ w.retval = loc[t].retval
  BY DEF NoLocals
<1> HIDE DEF w
<1>3. TypeOK /\ Calls(t) /\ OwnLeaf(t) /\ SeenInv(t) /\ Gentle
  BY Mine DEF DictInv, Moves
<1>4. /\ pc'[t] = "retire" /\ loc'[t].leaf = a /\ loc'[t].retval = loc[t].retval
      /\ \A u \in Thread \ {t} : loc'[u] = loc[u]
  BY <1>0, <1>1, <1>2, <1>3 DEF TypeOK
<1>5. /\ mem' = [mem EXCEPT ![x][d] = Promoted(pS)] /\ linked' = Reachable(mem')
      /\ pinned'[t] \subseteq pinned[t] \cup linked
  BY <1>1 DEF Reshape
<1>6. CutAt(mem, linked, x, d, loc[t].parent, s, mem')
  BY <1>0, <1>5, SwingCuts
<1>7. Cuts(t)
  BY <1>0, <1>5, <1>6 DEF Cuts
<1>8. dict' = Contents(mem') /\ seen' = Abstract!SeenAlso(dict') /\ \A u \in Thread : SeesOn(u)
  BY <1>1, ReshapeSees
<1>9. SeenInv(t)'
  <2>1. Near(t)' \subseteq Near(t) \cup linked'
    BY <1>5 DEF Near
  <2> QED BY <2>1, <1>1, <1>3, <1>8, SeenKept
<1>10. SearchInv(t)' /\ Answers(t)'
  BY <1>4 DEF SearchInv, Answers
<1>11. Injected(t) => a \notin linked'
  BY <1>0, <1>5, <1>6, BesideCut
<1>12. OwnLeaf(t)'
  <2> SUFFICES ASSUME Injected(t) PROVE OwnLeaf(t)'
    BY <1>0, <1>4 DEF OwnLeaf, Injected
  <2>1. /\ IsLeaf(mem'[a]) /\ mem'[a].key = call'[t].key /\ mem'[a].value = loc'[t].retval
        /\ Flagged(mem', linked', a)
    BY <1>0, <1>1, <1>3, <1>4, OwnKept
  <2> QED BY <2>1, <1>4, <1>11 DEF OwnLeaf
<1>13. Owners'
  <2>1. ~SetsBits
    BY <1>5, <1>6, CutParts DEF SetsBits
  <2>2. NoNewFlags
    BY <2>1, FlagsKept
  <2> QED BY <2>2, <1>0, <1>4, OwnersKept DEF DictInv
<1>14. DictInv'
  BY <1>8, <1>9, <1>10, <1>12, <1>13, DictStep
<1>15. ASSUME NEW u \in Thread
       PROVE  Effect(u)' = IF u \in Victims THEN {loc[u].retval} ELSE Effect(u)
  <2>1. CASE u # t
    BY <2>1, OthersEffect DEF Victims
  <2>2. CASE u = t /\ Injected(t)
    <3>1. Erased(t)'
      BY <2>2, <1>0, <1>4, <1>11 DEF Erased, Injected
    <3>2. Effect(t)' = {loc[t].retval}
      BY <3>1, <1>4, EffectNext
    <3>3. CASE a \in linked
      BY <3>2, <3>3, <2>2, <1>0, <1>11 DEF Victims
    <3>4. CASE a \notin linked
      <4>1. Effect(t) = {loc[t].retval}
        BY <3>4, <2>2, <1>0, EffectIs DEF Erased
      <4> QED BY <3>2, <4>1, <2>2
    <3> QED BY <3>3, <3>4
  <2>3. CASE u = t /\ ~Injected(t)
    <3>1. ~Erased(t) /\ ~Inserted(t) /\ ~Erased(t)' /\ ~Inserted(t)'
      BY <2>3, <1>0, <1>4 DEF Erased, Inserted, Injected
    <3>2. Effect(t)' = Effect(t)
      BY <3>1, EffectIs, EffectNext
    <3> QED BY <3>2, <2>3 DEF Victims
  <2> QED BY <2>1, <2>2, <2>3
<1>16. Stutters \/ \E T \in SUBSET Thread : Abstract!Erase(T)
  BY <1>1, <1>7, <1>8, <1>15, CutErases
<1> QED BY <1>14, <1>16

(* The CAS of a thread that has marked the sibling's word, as callers see  *)
(* it.                                                                     *)
LEMMA SwingToSiblingDict ==
  ASSUME SafeInv, SafeInv', NEW t \in Thread, Moves(t), DictInv, SwingToSibling(t)
  PROVE  DictInv' /\ (Stutters \/ \E T \in SUBSET Thread : Abstract!Erase(T))
<1>0. PICK r, s : r = Side(t, loc[t].parent) /\ s = Sibling(r)
  OBVIOUS
<1>1. pc[t] = "swing" /\ Swing(t, "swing", loc[t].pS)
  BY DEF SwingToSibling
<1>2. Removing(t) /\ r \in Sides /\ s \in Sides /\ Sibling(s) = r
  BY <1>0, <1>1, Mine, ParentSide, SideFacts
<1>3. mem[loc[t].parent][s] = Other(t) /\ mem[loc[t].parent][r] = Memo(t)
  BY <1>0 DEF Other, Memo
<1>4. /\ mem[loc[t].parent][s].mark
      /\ loc[t].pS.addr = mem[loc[t].parent][s].addr /\ loc[t].pS.flag = mem[loc[t].parent][s].flag
  BY <1>1, <1>2, <1>3 DEF Removing
<1>5. Injected(t) => mem[loc[t].parent][Sibling(s)].addr = loc[t].leaf
  BY <1>1, <1>2, <1>3 DEF DictInv, OwnLeaf
<1>6. CASE mem[loc[t].lum][Side(t, loc[t].lum)] = loc[t].lumC
  BY <1>1, <1>2, <1>4, <1>5, <1>6, SwingWorksDict
<1>7. CASE mem[loc[t].lum][Side(t, loc[t].lum)] # loc[t].lumC
  BY <1>1, <1>7, SwingFailsDict
<1> QED BY <1>6, <1>7

(* The CAS of a helper, as callers see it. *)
LEMMA HelpMarkedDict ==
  ASSUME SafeInv, SafeInv', NEW t \in Thread, Moves(t), DictInv, HelpMarked(t)
  PROVE  DictInv' /\ (Stutters \/ \E T \in SUBSET Thread : Abstract!Erase(T))
<1>0. PICK s : s = Side(t, loc[t].parent)
  OBVIOUS
<1>1. pc[t] = "seek" /\ loc[t].pL.mark /\ Swing(t, "seek", loc[t].pL) /\ ~Injected(t)
  BY DEF HelpMarked, Conflict, AtLeaf
<1>2. Seeking(t) /\ s \in Sides
  BY <1>0, <1>1, Mine, ParentSide
<1>3. mem[loc[t].parent][s] = Memo(t)
  BY <1>0 DEF Memo
<1>4. /\ mem[loc[t].parent][s].mark
      /\ loc[t].pL.addr = mem[loc[t].parent][s].addr /\ loc[t].pL.flag = mem[loc[t].parent][s].flag
  BY <1>1, <1>2, <1>3 DEF Seeking, IsFree
<1>5. CASE mem[loc[t].lum][Side(t, loc[t].lum)] = loc[t].lumC
  BY <1>1, <1>2, <1>4, <1>5, SwingWorksDict
<1>6. CASE mem[loc[t].lum][Side(t, loc[t].lum)] # loc[t].lumC
  BY <1>1, <1>6, SwingFailsDict
<1> QED BY <1>5, <1>6

-----------------------------------------------------------------------------
(* Every step of a thread is a step of the dictionary, or changes nothing  *)
(* that callers see.                                                       *)
LEMMA DictActions ==
  ASSUME TreeInv, DictInv, NEW t \in Thread, Step(t) \/ \E c \in Call : Invoke(t, c)
  PROVE  DictInv' /\ (Stutters \/ Abstract!Next)
<1>1. SafeInv /\ SafeInv' /\ Heading(t) /\ Moves(t)
  BY TreeInvStep DEF TreeInv
<1>2. CASE \E c \in Call : Invoke(t, c)
  <2>1. PICK c \in Call : Invoke(t, c)
    BY <1>2
  <2>2. DictInv' /\ Abstract!Invoke(t, c)
    BY <1>1, <2>1, InvokeDict
  <2>3. c \in Abstract!Call
    BY DEF Call, Abstract!Call
  <2> QED BY <2>2, <2>3 DEF Abstract!Next
<1>3. CASE Return(t)
  <2>1. DictInv' /\ \E v \in Value \cup {NoValue} : Abstract!Return(t, v)
    BY <1>1, <1>3, ReturnDict
  <2> QED BY <2>1 DEF Abstract!Next
<1>4. CASE InsertWindow(t)
  <2>1. DictInv' /\ (Stutters \/ Abstract!Insert(t))
    BY <1>1, <1>4, InsertWindowDict
  <2> QED BY <2>1 DEF Abstract!Next
<1>5. CASE SwingToSibling(t) \/ HelpMarked(t)
  <2>1. DictInv' /\ (Stutters \/ \E T \in SUBSET Thread : Abstract!Erase(T))
    BY <1>1, <1>5, SwingToSiblingDict, HelpMarkedDict
  <2> QED BY <2>1 DEF Abstract!Next
<1>6. CASE FindRoot(t) \/ FindDown(t) \/ SeekRoot(t) \/ SeekDown(t)
  BY <1>1, <1>6, FindRootDict, FindDownDict, SeekRootDict, SeekDownDict
<1>7. CASE InsertFound(t) \/ EraseAbsent(t) \/ Inject(t) \/ SecondaryGone(t)
  BY <1>1, <1>7, InsertFoundDict, EraseAbsentDict, InjectDict, SecondaryGoneDict
<1>8. CASE Mark(t) \/ ReadSibling(t) \/ RetireDeletedNodes(t)
  BY <1>1, <1>8, MarkDict, ReadSiblingDict, RetireDict
<1> QED BY <1>2, <1>3, <1>4, <1>5, <1>6, <1>7, <1>8 DEF Step

(* The initial states are those of the dictionary. *)
LEMMA DictInit == Init => DictInv /\ Abstract!Init
<1> SUFFICES ASSUME Init PROVE DictInv /\ Abstract!Init
  OBVIOUS
<1>1. PICK v \in Value : mem = Prefilled(v)
  BY DEF Init
<1>2. Tree(mem, linked) /\ \A n \in Node, s \in Sides : IsFree(mem[n][s])
  BY <1>1, PrefilledPlanted DEF Planted, Init
<1>3. mem \in Memory /\ linked \in SUBSET Node
  BY <1>2, TreeFacts
<1>4. dict = Contents(mem) /\ dict \in [Key -> Value \cup {NoValue}]
  BY <1>3, ContentsType DEF Init
<1>5. ASSUME NEW t \in Thread
      PROVE  /\ pc[t] = "idle" /\ call[t] = NoCall /\ loc[t].leaf = NULL /\ seen[t] = {}
             /\ SeenInv(t) /\ SearchInv(t) /\ OwnLeaf(t) /\ Answers(t)
             /\ Effect(t) = {}
  <2>1. pc[t] = "idle" /\ call[t] = NoCall /\ loc[t] = NoLocals /\ seen[t] = {}
    BY DEF Init
  <2>2. ~Injected(t) /\ loc[t].leaf = NULL
    BY <2>1 DEF Injected, NoLocals
  <2>3. ~Erased(t) /\ ~Inserted(t)
    BY <2>1, <2>2 DEF Erased, Inserted
  <2> QED BY <2>1, <2>2, <2>3, EffectIs DEF SeenInv, SearchInv, OwnLeaf, Answers
<1>6. Owners
  BY <1>2, <1>3, <1>5 DEF Owners, Injected, IsFree
<1>7. DictInv
  BY <1>4, <1>5, <1>6 DEF DictInv
<1>8. Abstract!Init
  <2>1. [t \in Thread |-> Effect(t)] = [t \in Thread |-> {}]
    BY <1>5
  <2> QED BY <2>1, <1>4 DEF Abstract!Init, Init, NoCall, Abstract!NoCall
<1> QED BY <1>7, <1>8

(* Every step is a step of the dictionary or changes nothing of it. *)
LEMMA DictNext == TreeInv /\ DictInv /\ [Next]_vars => DictInv' /\ [Abstract!Next]_(Abstract!vars)
<1> SUFFICES ASSUME TreeInv, DictInv, [Next]_vars PROVE DictInv' /\ [Abstract!Next]_(Abstract!vars)
  OBVIOUS
<1>1. CASE Next
  <2>1. PICK t \in Thread : Step(t) \/ \E c \in Call : Invoke(t, c)
    BY <1>1 DEF Next
  <2>2. DictInv' /\ (Stutters \/ Abstract!Next)
    BY <2>1, DictActions
  <2>3. ASSUME Stutters PROVE UNCHANGED Abstract!vars
    <3>1. [u \in Thread |-> Effect(u)]' = [u \in Thread |-> Effect(u)]
      BY <2>3 DEF Stutters
    <3> QED BY <2>3, <3>1 DEF Stutters, Abstract!vars
  <2> QED BY <2>2, <2>3
<1>2. CASE UNCHANGED vars
  <2>1. /\ mem' = mem /\ pc' = pc /\ call' = call /\ loc' = loc /\ linked' = linked /\ dict' = dict
        /\ owed' = owed /\ pinned' = pinned /\ seen' = seen /\ answer' = answer /\ script' = script
    BY <1>2 DEF vars
  <2>2. dict' = Contents(mem')
    BY <2>1 DEF DictInv
  <2>3. ASSUME NEW t \in Thread PROVE SeenInv(t)' /\ SearchInv(t)' /\ OwnLeaf(t)' /\ Answers(t)'
    <3>1. SeenInv(t) /\ SearchInv(t) /\ OwnLeaf(t) /\ Answers(t)
      BY DEF DictInv
    <3>2. SeenInv(t)' /\ Answers(t)'
      BY <2>1, <3>1 DEF SeenInv, Near, Answers, Injected
    <3>3. SearchInv(t)'
      BY <2>1, <3>1 DEF SearchInv, Ahead, Walk, Injected
    <3>4. OwnLeaf(t)'
      BY <2>1, <3>1 DEF OwnLeaf, Injected, Flagged, Walk, Memo, Side
    <3> QED BY <3>2, <3>3, <3>4
  <2>4. Owners'
    BY <2>1 DEF DictInv, Owners, Injected
  <2>5. DictInv'
    BY <2>2, <2>3, <2>4 DEF DictInv
  <2>6. [u \in Thread |-> Effect(u)]' = [u \in Thread |-> Effect(u)]
    BY <2>1 DEF Effect, Injected
  <2>7. UNCHANGED Abstract!vars
    BY <2>1, <2>6 DEF Abstract!vars
  <2> QED BY <2>5, <2>7
<1> QED BY <1>1, <1>2

(* The tree implements the dictionary.  A find, an insertIfAbsent and an   *)
(* erase take effect once, between call and return, and answer that way,   *)
(* though a find may go on in nodes that were cut off long ago, a deletion *)
(* is ended by whoever meets it, and a CAS may end several at once.        *)
THEOREM DictionaryImplemented == Spec => DictionarySpec
<1>1. Spec => []TreeInv
  BY Invariance
<1>2. Init => DictInv /\ Abstract!Init
  BY DictInit
<1>3. TreeInv /\ DictInv /\ [Next]_vars => DictInv' /\ [Abstract!Next]_(Abstract!vars)
  BY DictNext
<1> QED BY <1>1, <1>2, <1>3, PTL DEF Spec, DictionarySpec, Abstract!Spec
=============================================================================
