# SetBench mini: verification project

The repository holds three concurrent search trees, each with a benchmark driver
(`ds/*/minimal_example.cpp`), and the libraries they stand on (`common/`). This
directory holds TLA+ modules that model the trees and the libraries, the TLC configurations that
check them on small instances, and TLAPS proofs of what holds for every number of threads.

Run `tlc -config X.cfg M.tla` with the module and configuration of the table of runs
below, and `tlapm M.tla` for a module of proofs.

## 1. Inventory

| part | state | operations | used by |
|---|---|---|---|
| DEBRA (`common/recordmgr/reclaimer_debra.h`) | global `epoch`; per thread: announced epoch and quiescent bit, three limbo bags, `index`, `currentBag`, deamortized frees, progress of the scan | `initThread`, `startOp`, `endOp`, `retire`, `deinitThread` | every tree, through `record_manager` |
| `record_manager` | per thread: an `init` flag | forwards to reclaimer, pool and allocator; `getGuard`; a full fence at the end of `startOp` | every tree |
| pool none, allocator new, block bags | block lists | `get`, `add`, `addMoveAll`; `blockbag::add`, `remove`, `appendMoveFullBlocks` | DEBRA |
| debracap, DEBRA+ with `recovery_manager.h`, ebr_token, ebr_tree, ebr_tree_q | epochs, announcements in an array, a ring or a tree; bags; signals | as DEBRA; DEBRA+ also `qProtect`, `qUnprotectAll` and the signal handler | library: selected by no build here |
| hazard pointers (`reclaimer_hazardptr.h`, `arraylist.h`) | a list of announcements and a bag per thread | `protect`, `unprotect`, `retire` with its scan | library |
| pool_perthread_and_shared | free bags, block pools, a shared stack of full blocks | `get`, `add`, `addMoveFullBlocks`, `addMoveAll` | library |
| LLX/SCX (`common/scx_provider.h`, `common/descriptors/`) | per node: `marked`, `scxPtr`; per thread: one descriptor with a sequence number, a state and an `allFrozen` bit | `llx`, `scxInit`, `scxAddNode`, `scxExecute`, `help` | ABtree |
| KCAS (`common/kcas/`), DCSS (`common/dcss/`) | words that hold a value or a tag; a descriptor per thread, reused | `execute`, `readPtr`; `dcssPtr`, `dcsspPtr`, `dcssRead`; helping | library; DCSSP by `rq_dcssp` |
| range queries (`common/rq/`) | timestamp, announcements of deletions, timestamps of nodes | `linearize_update_at_*`, `announce_physical_deletion`, `traversal_*` | library |
| snap collector (`common/rq/snapcollector/`) | list of nodes with tail and blocker, reports per thread | `AddNode`, `BlockFurtherNodes`, `Report`, `Prepare`, `GetNext` | `rq_snapcollector` |
| RCU (`common/urcu/`) | a counter per thread | `readLock`, `readUnlock`, `synchronize` | library |
| locks (`common/rwlock.h`) | one word | read and write lock and unlock, upgrade | `rq_rwlock` |
| ABtree (`ds/brown_ext_abtree_lf/`) | internal nodes with weights, immutable leaves | `find`, `doInsert`, `erase`, `fixWeightViolation`, `fixDegreeViolation` | driver |
| external BST (`ds/natarajan_ext_bst_lf/`, stage 2) | edges with flag and mark bits | `find`, `insertIfAbsent`, `erase`; helping of injected deletes; retirement of removed chains | driver |
| AVL tree (`ds/bronson_pext_bst_occ/ccavl_impl.h`) | nodes with a version number, a lock, a height, an optional value | `get`, `put`, `remove` with optimistic validation, unlink, rotations | driver |
| drivers | phases of threads with the same thread ids | create, run a share of operations, join, next phase | `main` |
| RLU, multi-counter, HTM variants, statistics, workload generation, platform support, `atomic_ops` | | | measurement, third-party, or in need of hardware transactions |

How they interact: an operation of a tree opens a guard (`startOp`), searches, allocates
nodes, installs them with an SCX (ABtree), with CASes (BST) or under locks (AVL),
retires what it has unlinked, and closes the guard (`endOp`). DEBRA must not let the
allocator have a retired node while an operation that may hold a pointer to it runs.
The trees share nothing with each other. The range query providers wrap the updates of a tree and read
the bags of a reclaimer; no tree of this repository does so, and they are modelled over a word per key.

What is hard:
- **Reclaimers**: a thread's announcement races with the scans of others, each of which is spread
  over many operations; bags and epochs are tied together only by counting rotations;
  threads come, go, and come back under the same id.
- **LLX/SCX, KCAS, DCSS**: any thread may run any step of another thread's operation, at any time, from a copy
  of a descriptor that is reused; nodes or words are taken one at a time.
- **Range queries**: a query traverses while updates go on, and must find the keys of one moment: what it misses has to be
  found in announcements, bags or reports, each written before or after the update itself.
- **Trees**: searches without locks that read nodes being replaced; rebalancing steps of different
  threads that meet; deletions that are finished by others.

Correctness of each part:
- Reclaimers and pool: nothing is freed while it may be in use, nothing is freed twice, what is retired is freed in
  the end, the epoch moves on, scans stay in bounds.
- LLX/SCX, KCAS, DCSS: an operation is one atomic step that happens only if nothing compared or linked has changed; finalized nodes are
  final; calls return, whatever other threads do; operations do not only abort each other.
- Range queries: the keys returned are those of one moment between call and return.
- RCU: `synchronize` outlasts the sections that were open. Locks: a writer is alone.
- Trees: they implement a dictionary; each unlinked node is retired exactly once; balance violations disappear.

`PROJECT.json` lists the parts with their files, and under "hazards" what a test would hardly reach, line by line.

## 2. Plan

Done:
1. `Reclamation`, `Debra`, `DebraProofs`: the invariant and the refinement of DEBRA.
2. `AtomicScx`, `Scx`, `ScxProofs`: the invariant and the refinement of LLX and SCX.
3. `Dictionary` and the three trees `NatarajanBst`, `AbTree`, `CcAvl`; `NatarajanBstProofs`: the invariant and the refinement of the first.
4. The libraries: locks, hazard pointers, RCU, five more epoch reclaimers, the pool, KCAS, DCSS, three range query providers,
   and the proofs `LockProofs` (locks and RCU), `EpochProofs` (debracap and the token), `DebraPlusProofs` (DEBRA+ and hazard pointers), `DcssProofs`, `KcasProofs`.

Left: `BlocksOwnedOnce` of `Pool`, which needs its recursive list of blocks to be a function first.

`Reclamation` is the abstract specification of all epoch reclaimers, `AtomicScx` that of LLX/SCX, `AtomicWords` that of KCAS and DCSS, and `Dictionary`
that of the three trees. A tree is composed with the abstract specification of what it calls, not with its
implementation: this keeps instances small and is what the refinements are for.

## 3. Modules

### Reclamation: what a reclaimer promises
An object is owned by the allocator (`available`), linked, unlinked but not yet retired (`pending[t]`), or retired.
`window[t]` is the set of objects linked at some moment of `t`'s current operation: the only ones it can hold a pointer
to. `Reclaim` gives retired objects back, and its guard is the promise: none of them is in a window.

### Debra: `reclaimer_debra.h`
State: the fields of `ThreadData` and `epoch` under their own names. The epoch is counted in units of
`EPOCH_INCREMENT`, and an announcement is a record of an epoch and the quiescent bit. A block bag is its head block and
the union of the full blocks behind it, because `appendMoveFullBlocks` moves just the latter.
`startOp` is split at its accesses to memory that others see:

| action | lines of `startOp` |
|---|---|
| `StartOp` | reads `epoch`, rotates the bags if it has changed |
| `FreeOne` | one deamortized free |
| `AnnounceEpoch` | the announcement becomes visible |
| `SkipScan`, `Scan` | counts the operation, or reads one announcement |
| `AdvanceEpoch` | the CAS on `epoch` |

`EndOp`, `Retire`, `InitThread` and `DeinitThread` are one action each: they touch memory of their own thread
and the allocator. `Link` and `Unlink` stand for what a tree does between `startOp` and `endOp`: it publishes an
allocated node, and makes one unreachable, which the same operation then retires. `EndOp` waits for
`pending[t]` to be empty because every tree retires what it unlinked before its guard closes. `window` and `opEpoch`
are history.

Memory order: an announcement is a relaxed store; the fence of `record_manager` after `startOp` and the CAS on
the epoch make it visible before the tree is read and before the epoch can advance. In between a thread
may read another announcement while its own is not visible yet. What is checked does not depend on which of these two
comes first, as its own announcement matters to others only once they get past it in their scans; the model takes the
program order.

Three specifications differ in when `deinitThread` may happen: `Spec` requires what the warning in the source
states, that all threads are done; `PhasedSpec` lets the threads come back for another phase; `DriverSpec` is what the drivers do.

### Scx and AtomicScx: `scx_provider.h`
A node is its `marked` bit, its `scxPtr` and its fields. A tag is `<<owner, sequence number>>`; the
descriptor's mutable word is a record `mutables[t]`, its other fields are `desc[t]`. Each shared access of `llx`,
`helpOther`, `help` and `scxExecute` is an action; `help` is the same for owner and helpers, except that helpers start at the
second node and that the owner's result counts. The copy of a descriptor (`HelpOtherCopy`) is one action though `memcpy`
is not: a copy that overlaps with its owner's writing is discarded by `HelpOtherCheck`, since the owner changes the sequence number before
it writes. `ScxPrepare` gathers `scxInit`, the `scxAddNode`s and the first lines of `scxExecute`, which write only to the
descriptor while its sequence number is even, and the read of the field by the caller, after its last `llx`.
The callers follow the trees: nodes are linked from the top down, the field belongs to the first node, a subset of the others is finalized,
and an unsuccessful `llx` starts the update over. The trees pass no `dest` to `llx` and read the fields themselves afterwards; the model copies
them inside `llx`, the case in which `llx` itself answers for them, and reads the field to change after it.
A new value is the tag of the scx that writes it: it points to a node allocated for this scx, and DEBRA keeps the
address from being reused while it may be compared.

`AtomicScx` has one step for a successful `llx` and one, `Commit`, for the effect of an scx. The refinement mapping: a node is finalized
when it is marked and the scx that froze it has written its field; an scx is done when it is in `applied`. `applied` (the scxs that have written their
field) and `held` (the tags that a node's `scxPtr` has been) are history. A link is made when the second read of `scxPtr` finds it unchanged (`Linked`), an scx is invoked when its sequence number becomes odd,
and it takes effect with the first CAS on its field that succeeds, whoever does it.

### NatarajanBst and Dictionary: `natarajan_ext_bst_lf_stage2_impl.h`
A node is a record of key, value and two words; a word is an address, a mark and a flag. The side of a word follows from the
key, so `isLeftL` and `isLeftUM` are not stored. Each access to a word is an action:

| action | code |
|---|---|
| `FindRoot`, `FindDown` | `search` |
| `SeekRoot`, `SeekDown` | `insseek`, `delseek`, `secondary_seek`: they take the same path and differ in what they do at the leaf |
| `InsertFound`, `InsertWindow` | `insertIfAbsent`, `perform_one_insert_window_operation` |
| `EraseAbsent`, `Inject`, `SecondaryGone` | `delete_node`, `inject`, the end of `secondary_seek` |
| `Mark`, `ReadSibling`, `SwingToSibling` | `perform_one_delete_window_operation`, and the first half of `help_conflicting_operation` |
| `HelpMarked` | the second half of `help_conflicting_operation` |
| `RetireDeletedNodes` | one call of that recursive function; `todo` is the stack of the calls still to be made |

The words of a leaf never change, so the read that shows that a node is a leaf is part of the next step. The allocations of an
insert are part of its CAS: the two nodes are private before it, and are given back at once if it fails. Nodes are allocated
again as `Reclamation` allows: a node is `Available` when it has been retired and no operation in progress began before it was unlinked
(`pinned`). A round of the loops closes its guard and opens another (`Retry`), which unpins.

`linked`, `dict`, `owed`, `pinned` and `seen` are history. `dict` is what a search on its own would find, computed from the words at the two actions that
change an address. What is reachable, and the path of a search, are least sets closed under a step (`Reach`); the definition collects them in `NumNodes` rounds, which TLC can evaluate and
from which the proofs take nothing but that they are the least. `Grown` is the window of an insert, used by `InsertWindow` and by `Prefilled`, the tree of sequential inserts from which an instance starts; their keys are distinct and there are nodes for them
(`BstAssumption`). The refinement mapping to `Dictionary` takes an insert to happen at its CAS, and a deletion when its flagged leaf is
cut off, by whichever thread: one CAS may cut off the leaves of several deletions, and `Dictionary` has `Erase` for sets of threads.
A call that changes nothing answers for a moment of its execution that may be over when it reaches the leaf; `seen` keeps the values its key has had.

### AbTree: `brown_ext_abtree_lf_impl.h`
A node is a record with the fields of `Node`; `keys` and `ptrs` are sequences as long as the part of the arrays in use, so `size` is the length
of `ptrs`, and the pointers of a leaf are its values. Positions count from 1.

| action | code |
|---|---|
| `SearchRoot`, `SearchDown` | the search loops of `find`, `doInsert`, `erase` and, with the `searchKey` of a violation, of the two fix procedures |
| `AnswerFromLeaf` | the end of `find`, and the returns of updates that change nothing |
| `LinkParent` | `llx(p)` and the comparison with `l` |
| `ReplaceValue`, `InsertPair`, `Overflow`, `ErasePair` | the four updates of `doInsert` and `erase`: new nodes, `scxExecute`, `retire` |
| `FixCheck` | the tests at the start of `fixWeightViolation` and `fixDegreeViolation` |
| `HandOver`, `ParentFirst`, `ReadSibling` | not found; weight violations that have to be fixed before |
| `LinkGrandparent`, `LinkNextParent`, `LinkSelf`, `LinkLeft`, `LinkRight` | the `llx`s of the fix procedures |
| `Absorb`, `Split` | `fixWeightViolation` |
| `AbsorbSibling`, `RootAbsorb`, `Distribute` | `fixDegreeViolation` |
| `UpdateFails`, `FixFails` | an scx that returns false: an update starts over in a new guard, a fix in the same one |

`loc[t].todo` is the stack of invocations of the fix procedures: the recursive calls after an scx come before the rest, a call from within the loop
comes before the invocation that goes round. Invocations for nodes without a violation in their own fields return at once and are not stacked.
An scx is atomic, as `AtomicScx` allows: it takes effect if the nodes that were linked are neither finalized nor changed. Construction of
the new nodes and retirement of the old ones are part of it: before the scx nobody else sees the new nodes, and the retired ones stay pinned until the
operation that retires them ends. Reads of a linked node between its llx and the scx return what the llx saw, or the scx fails. With `Spurious` an llx or scx may also fail for no reason,
which covers every way in which the real ones meet another's scx.

`ViolationsOwned` is the protocol that the comment at the head of the file describes, as an invariant: each violation in the tree has an
invocation somewhere that will come to it. It implies that the tree is balanced when no operation runs.

### CcAvl: `ccavl_impl.h`
A node is a record with the fields of the code; `changeOVL` has three bits (unlinked, growing, shrinking) and two counts.
Searches (`get`, `attemptUpdate`) take no locks: they read a child, the version of the child, and validate the version of the parent. Updates and rotations lock from the
top down. A thread that holds locks and has decided what to write writes one word per step, in the order of the code, because that order is what searches
depend on: a rotation is a list of writes (`RotateWrites`), with the versions marked as changing before the first and counted up by the last; the height of the parent, or the next node to repair, comes after it. What a thread reads under the lock
of the node it reads from is read with the step that locks it or decides. `waitUntilChangeCompleted` is waiting for the version to change.
Nodes are not allocated again in the instance; `retired` and `pinned` say which ones a reclaimer may give back, and `SearchedNodesPinned` that nobody stands on such a node.
`QuiescentTree`: when no call runs, the tree is a search tree of exactly the linked nodes, with parent pointers that are right and no routing node with fewer than two children. Balance is not claimed: a thread may stop before its repair, and the code
guards against what others have left.

### Kcas, Dcss and AtomicWords: `kcas_reuse_impl.h`, `dcss_impl.h`, `dcss_plus_impl.h`
A word holds a value or a tag `[kind, owner, sequence number]`. `Kcas` follows `execute`, `help`, the RDCSS below it and `readPtr`: a thread that meets a tag helps,
and may meet another one meanwhile (`frames` is the stack of these calls). The snapshot of a descriptor (`getSnapshot`) is one step and fails if the sequence number has moved on.
`Dcss` is one descriptor per thread with its state word; `DcssAtomic` adds threads that call it and write the words that it compares, and `RqDcssp` extends the same module, because
`dcsspPtr` differs by its payload alone. `AtomicWords` compares and writes all words of an operation in one step. As the write of a DCSS comes after the comparison, it may reserve the word in between;
nobody reads or writes a reserved word. `WordsHold` says that the abstract value of a word is what its readers get.

### RqDcssp, RqRwlock, SnapCollector: `common/rq/`
The data structure is a word per key that holds the key's node or nothing, and the traversal of a query reads the words one after the other. In `RqDcssp` an update changes its word by a
DCSSP that compares the timestamp, and sets the node's timestamp afterwards; a query counts the timestamp up, traverses, then looks at the announced deletions and at the bags of
all threads, and asks the descriptors of the others about a node without timestamp. `RqRwlock` puts the update and the timestamp under the lock for readers, the increment under the lock for writers.
In `SnapCollector` deletions are logical first; queries at the same time share a collector; updates and searches report to it; a query blocks further nodes and reports, sorts, and
merges. 
`RangeQueryAtomic` compares the keys that a query returns with `asOf`, what the words held when the query took effect (history). For the snap collector that moment is the deactivation of the collector, and
the property has two parts: every node that was in the data structure is returned (`owed`), and, if no other query shares the collector, no other node is (`denied`), in the order of the keys. Two cases are
left out of the second part, see section 6.

### The other reclaimers: EbrToken, EbrTree, EbrTreeQ, DebraCap, DebraPlus, HazardPtr
Each has `linked`, `pending`, `available`, `window` of `Reclamation`, changed by the same steps, and implements `Reclamation` if what it frees is in no window.
- `EbrToken`: a token goes round. A thread that finds it in `startOp` passes it on, frees the full blocks of its older bag and exchanges the two bags.
- `EbrTree`, `EbrTreeQ`: epochs in a binary tree with a leaf per thread; one action per access to a node. `EbrTreeQ` has a quiescent bit and a count of changes in each node.
- `DebraCap`: DEBRA with three bags under an index, and a second, complete scan in `retire` when the current bag is too large.
- `DebraPlus`: DEBRA with neutralising: a thread whose bag is too large sends a signal to the threads that hold up the epoch. A signal is handled before the next step of its target, unless blocked; the handler makes it
  quiescent and jumps to the recovery code, which may still use what it has protected.
- `HazardPtr`: an announcement is entered into an array list whose size and entries are read one by one by `retire`'s scan; a thread holds an object after it has read again that it is linked. Objects are
  unprotected in any order: nothing in the repository calls `unprotect`, and nothing in the reclaimer prescribes an order. `erase` of the list moves the last entry into the gap, and leaves a copy in the last slot until the next `add`. So a scan
  that has passed the gap still finds the object, because it goes on to the length that it read first (the mutant `PastLength` reads the length again and misses it), unless the copy has been overwritten. The history variables `moved` and
  `lost` record exactly this, while a scan reads the list, and `HeldNotFreed` says that nothing else is freed while it is held. `Protect` is for an object that the thread has not protected already, as the assertion says that is commented out
  (`reclaimer_hazardptr.h:70`).

### Pool, Urcu, RWLock
`Pool` has the memory of the blocks with their `next` pointers, the bags of each thread as lists of blocks, and the head of the shared stack with its version number; each access to the head is an action. Objects are counted per block only.
`Urcu` is the version with counters: `synchronize` copies all counters and waits for those that are odd to change, thread by thread. `RWLock` has both implementations; `Favored` chooses. The upgrade exists where readers are favoured.

### MCLibraries and MCProgress
A behaviour of either is one of a single library, chosen in the initial state; the libraries share variables. So one run asks the same kind of question of all of them: safety in `MCLibraries`, which extends `Debra`, progress in `MCProgress`, which
extends `RWLock`.

## 4. Runs

| run | what is checked | shows |
|---|---|---|
| `libraries` | `SafeReclaim`, `EpochLag`, `CheckedInRange`, `OwnedOnce`, `ReclamationSpec` of DEBRA; `PromiseKept` of the other epoch reclaimers; `HeldNotFreed` of hazard pointers and DEBRA+; `BlocksOwnedOnce`, `BagsInShape` of the pool and of the bags of hazard pointers; `GracePeriod` of RCU; `RangeQueryAtomic` of three providers; `WordsAtomic` of KCAS, DCSS, LLX and SCX | 15 libraries, 2.7 million states |
| `progress` | `EpochAdvances`, `AllEnd`; `WriterAlone`, `UpgradeKeepsOut` of both locks | epochs advance, retired objects are reclaimed, calls of LLX and SCX return whatever the other thread does, DEBRA+ gets past a thread that has stopped; 580,000 states |
| `scx` | `TypeOK`, `HelpDecides`, `NotAllFail`, `MarkedIsFinal`, `AtomicScxSpec` | 2 threads on a chain of two nodes, a descriptor reused while others hold its old tag: 2.3 million states |
| `bst` | `TypeOK`, `NodesReclaimed`, `FrozenWords`, `DictionarySpec`, `LockFree` | keys removed and inserted again, in the nodes just removed, while another thread is anywhere; chains of half-done deletions removed by a third thread |
| `abtree` | `TypeOK`, `RelaxedTree`, `ViolationsOwned`, `NodesReclaimed`, `FixAssertions`, `DictionarySpec`, `RebalancingEnds` | a root that overflows and is absorbed again; absorbing and distributing at two levels; nodes of weight 0 that another thread has left |
| `ccavl` | `TypeOK`, `QuiescentTree`, `AssertionsHold`, `SearchedNodesPinned`, `UnlinkedIsFinal`, `DictionarySpec`, `EveryCallReturns`, no deadlock | all four rotations, unlinking, routing nodes, racing inserts, repairs left half-way by threads that have stopped |
| `debra_phased`, `debra_driver` | `SafeReclaim` (violated) | findings 1, 2 |
| `abtree_sibling` | `ParentHasSibling` (violated) | finding 3 |
| `rq_help` | `RangeQueryAtomic` (violated) | finding 4 |
| `kcas_stuck` | `SortedProgress` (violated) | finding 5 |
| `ebr_tree_q` | `ActiveToRoot` (violated) | finding 6 |

Instances and bounds.
- DEBRA in `libraries`: 2 threads, one object, blocks of one, a scan in every operation, `MaxEpoch` 4: the epoch in which no operation starts any more. A bag is reused every third epoch. The instance is small because
  the same properties are proved for all. In `progress`: a scan in every second operation, `MaxEpoch` 3. The two runs of findings: 2 interchangeable objects, `MaxEpoch` 5.
- `EbrToken`, `EbrTree`: 3 threads, one object; `EbrTree` with `MaxEpoch` 4, and without objects up to epoch 5 in `progress`, where only the epoch matters. `EbrTreeQ`: 2 threads with 4 and 1 operations; in the run of finding 6,
  3 threads with 1, 1 and 5. `DebraCap`: 2 threads, one object, a scan step in every second operation, a bag too large from one block on, `MaxEpoch` 4. `DebraPlus`: 2 threads, of which one reads and one writes, 2 objects, `MaxEpoch` 4 (3 in `progress`).
- Hazard pointers: a reader with room for two announcements, a writer, 4 objects, a scan at 3 retired ones, so that the reader can be entering the fourth, and overwrite what `erase` has left. Pool: 2 threads, blocks of one object, addresses of 16 blocks, three scripts in which a block taken from the shared stack comes
  back, or is deleted and allocated again. RCU: 2 readers and an updater, counters up to 5. Locks: 3 threads, unbounded.
- KCAS: 3 threads, two words, scripts in which operations overlap in either word and a descriptor is reused; `MaxRdcss` bounds the descriptors of RDCSS used. DCSS: 3 threads, one reuse. Range queries: 3 threads, two keys of which one is
  present; insert, delete, put, a search, and one or two queries. `Scripts` is always the set of workloads of which a behaviour follows one.
- `Scx`: `MaxScx[t]` calls of `scxExecute`: one reuse of one descriptor is enough for an old tag to meet a new sequence number. In `libraries` one node with two fields, whose copies could be torn; in `scx` two nodes with one field;
  in `progress` one scx per thread.
- `bst`: `Prefill` `<<3, 2, 1>>` makes a path of three internal nodes, the shape in which deletions of neighbours meet; then any calls, two by one thread and one by another, or three threads of which two delete neighbours. `NumNodes` 11
  leaves room for one insert beside a removed pair that is still pinned.
- `abtree`: `DEGREE` 3, the smallest that the tree works for, where a leaf overflows with the fourth key; a is 2, as it is for the `FAT_NODE_DEGREE` of 11 that the adapter uses. A thread `t0` fills the tree first, so that every instance starts
  from a tree that the code builds. `NumNodes` is large enough for every allocation, and the lowest free node is taken, which makes reuse as early as it can be. `MaxDepth` bounds the trees that `RelaxedTree` walks. The erases are chosen so that no
  two of them by one thread meet the half-done `AbsorbSibling` of another: what happens then is finding 3.
- `ccavl`: keys 1 to 8, 9 nodes, twelve scripts; `GrowCounts` 2 is the modulus of the count of grows, so that it wraps.

The runs stop at their bounds and therefore do not look for deadlock, except `ccavl`, where an action `Stop` says when all calls are made.

Fairness. In `progress` each thread that is inside an operation, or between two, goes on (`GoesOn`), and what it links or unlinks is not forced. Of the two threads of Scx, and of DEBRA+, only one goes on: the other may stop anywhere, which is what
lock freedom allows for. In `bst` and `abtree` some thread inside a call runs, not any particular one. In `ccavl`, whose threads wait for locks, every thread inside a call runs, beside those that a script stops before their repair.
`RebalancingEnds` is about the instance without spurious failures: that an llx or scx does not keep failing while nobody else succeeds is what `NotAllFail` and `AllEnd` say of Scx.

## 5. Findings

1. `initThread` sets `currentBag` to `epochbags[0]` and leaves `index` alone (`reclaimer_debra.h:378`), where the comments call `index` the
   index of `currentBag` and the oldest bag number `(index+1)%NUMBER_OF_EPOCH_BAGS`. The drivers run phases with the same
   thread ids. If a phase ends with `index` 2, objects that the next phase retires before its first rotation are freed
   by that rotation, one epoch after they were retired. `debra_phased` shows an object freed that a running operation may hold.
2. The comment in `deinitThread` says that it is only safe when all threads have finished. Each driver thread calls
   it when its own share is done. `debra_driver` shows an object freed that an operation of another thread may hold.
3. `fixDegreeViolation` notes that `p->size >= a >= 2` once it has seen no weight violation, and reads `p->ptrs[1]` as the sibling of a first child before that. An
   `AbsorbSibling` may leave a parent with one child, which its thread fixes next; if the child becomes too small in the meantime, another
   thread's `fixDegreeViolation` reads a pointer that was never written. `abtree_sibling` reaches this with three erases.
4. The lock-free range query provider helps an operation whose tag it has seen, but looks the tag up again in the descriptor (`rq_dcssp.h:530`), which may by then belong to an operation that is not in place yet. That one is
   decided with an old timestamp and takes effect later: `rq_help` shows a second query that misses a key.
5. A KCAS helper that puts the tag of a finished operation into a word and then finds the descriptor in use again returns without taking the tag away (`kcas_reuse_impl.h:419`). `kcas_stuck` shows a word that keeps the
   tag, and a read that tries for ever.
6. In the quiescent tree a node may become quiescent above a thread in an operation (`reclaimer_ebr_tree_q.h:122`): `ebr_tree_q`. With three threads and more operations the epoch then passes the operation and what it holds is freed.

## 6. Observations

What came up while reading, without a run of its own:
- Snap collector: `compareCRI` (`reportitem.h:49-56`) puts the report of removing a node before that of adding it, and `GetNext` keeps the last (`snapcollector.h:376, 429`): a node that was reported both ways is returned. Searches look at
  `IsActive` before the mark of the node (`rq_snapcollector.h:137-138, 151-152`). These are the two cases that `RangeQueryAtomic` leaves out, and its comment says so.
- AVL tree: `rebalanceToRight_nl` reads the height of the inner grandchild before it locks it (`ccavl_impl.h:1144`). The heights that it writes may be wrong by then; the thread that changed the height repairs it afterwards. No property covers this.
  `waitUntilChangeCompleted` never counts its tries (481).
- `rq_rwlock.h` as it stands, with `COLLECT_ANNOUNCEMENTS_FAST` commented out (21), may wait at 310 after a physical deletion that has failed (the TODO at 424 names it); with it, an entry may be read as NULL where 412 asserts that it is not.
- `reclaimer_ebr_tree.h`: a thread alone never reclaims anything; the announcement is a plain store without a fence (133-134).
- `reclaimer_ebr_tree_q.h`: `endOp` is not idempotent, though `reclaimer_interface.h:66-67` asks for it.
- `reclaimer_debracap.h`: `timesBagTooLargeSinceRotation` is not reset by a rotation, though 231-232 says so.
- `reclaimer_hazardptr.h:212-220` with `arraylist.h:51-56`: a scan may miss an announcement that `erase` moves, and the object is freed although a thread holds it ("no hazard pointers point to the item", 224). A reader holds `p` and `q`, in slots 1 and 2, and `q` is
  retired. The scan has read the length 2 and slot 1 when the reader unprotects `p`, which moves `q` to slot 1, and begins to protect `r`, which overwrites slot 2. `HeldNotFreed` without `\ lost[t]` is violated by this behaviour on the
  instance of `libraries`. No structure of the repository calls `unprotect`; `endOp` drops all entries.
- `urcu_impl.h`: the version with counters has no fence in `synchronize`; the one with time stamps has (90-93).
- `pool_numa.h` uses a stack without a version number (`lockfreeblockstack.h`).

## 7. Proofs

| module | theorems | assumptions |
|---|---|---|
| `DebraProofs` | type correctness, `SafeReclaim`, `EpochLag`, `CheckedInRange`, `OwnedOnce`, and that `Debra` implements `Reclamation` | `DebraAssumption` |
| `ScxProofs` | type correctness, `HelpDecides`, `MarkedIsFinal`, `NotAllFail`, and that `Scx` implements `AtomicScx` | `ScxAssumption`, `NoneAssumption` |
| `NatarajanBstProofs` | type correctness, `NodesReclaimed`, `FrozenWords`, and that `NatarajanBst` implements `Dictionary` | `BstAssumption` |
| `EpochProofs` | `ScanInRange`, and that `DebraCap` implements `Reclamation` | the number of threads is in `Nat` |
| | `EbrToken` implements `Reclamation` | at least one thread |
| `DebraPlusProofs` | `HeldNotFreed` | the number of threads and the length of the lists are in `Nat` |
| | `HeldNotFreed` of `HazardPtr` | `PtrUsage`: the number of threads is in `Nat`, there is room for an announcement, readers and writers are threads |
| `DcssProofs` | `DcssAtomic` implements `AtomicWords` | `Usage`: no operation changes a word that another one compares, plain writes go to compared words only |
| `KcasProofs` | `WordsHold`, and that `Kcas` implements `AtomicWords` | `Usage`: no word is in two entries of an operation (`help` finds its own tag at the second and takes that for done), sorting the entries permutes them, `None` is none of the values it stands in for |
| `LockProofs` | `WriterAlone`, `UpgradeKeepsOut`, for either lock | the set of threads is finite |
| | `GracePeriod` of `Urcu` | at least one thread |

Each is for every value of the constants: any number of threads, objects, nodes, keys, fields, any block size, scan interval, threshold or bound. In `MCLibraries`, `MCProgress`, `MCScx` and `MCNatarajanBst` the same definitions are checked on small instances; those of
`DebraCap`, `DebraPlus`, `EbrToken`, `HazardPtr`, `Urcu`, `DcssAtomic` and `Kcas` as parts of `PromiseKept`, `HeldNotFreed`, `GracePeriod` and `WordsAtomic`.

**DEBRA.** The invariant `IInv` is needed because none of the properties is inductive. A thread that is active was announced
in the epoch in which it began, or before (`Copies`). A scan stops at an active thread with an older announcement, so a thread whose own epoch began during
the operation of `t` has not got past `t` (`NotPassed`); a scan that has got past everybody belongs to a CAS that has
not failed yet, or the epoch has already moved on and `checked` will be reset (`FullScan`). Hence no CAS takes the
epoch further than one beyond the epoch in which a running operation began (`EpochLag`). A bag that holds an object of a window
has been rotated at most as often as epochs have passed (`Aged`), so it is not the oldest one when
its owner rotates, and what is rotated out is in no window (`SafeReclaim`). `Phases` ties the program counter to announcement and window; `Fresh`
covers threads whose first announcement is still to come, for which `startOp` rotates once without a change of epoch.

**LLX and SCX.** `ScxInv` has the parts `Types`, `Descriptors`, `Tags`, `StaysFrozen`, `MarkedBy`, `Links`, `Prepared`, `Plans`, `SamePlan`, `LlxPhases` and `HelpPhases`. `held[n]`, the tags that `scxPtr[n]` has been, carries the argument: `scxPtr[n]` never
returns to a tag that it has been: a freezing CAS expects the tag that the owner's llx has read, and a node that has had the new tag has lost the old one for good (`Freezing`). So a freezing CAS for a tag succeeds at most once on each node, and a node whose `scxPtr` is neither the
expected one nor the tag dooms the scx. An undecided scx keeps the nodes it has frozen (`StaysFrozen`), because nobody's llx succeeds on them (`LlxPhases`); what its llx saw is therefore still in their fields (`Untouched`). An scx is
decided only if it is doomed or has written its field (`Outcome`), which it does after all nodes have been frozen and those to finalize marked (`Applied`); these make up its plan (`Plans`). A helper works from a copy of the descriptor that agrees with the plan of its tag as long as its sequence number is current (`SamePlan`),
and its program counter says what must have been done for the tag already (`HelpPhases`); a late helper can only repeat what has been done, or freeze a node for an scx that has been decided, which nobody waits for.

The refinement follows action by action. `Commit` of `AtomicScx` is the first successful CAS on the field, by any helper: at that point all nodes are frozen, unchanged since the owner's llxs (`Untouched`) and not finalized, and it is the owner's call that takes effect. A helper's
later steps do not change what `AtomicScx` sees, because a node is finalized when it is marked and its scx has written (`Finalized`), not when a bit is set. An llx that succeeds has read all fields between two reads of `scxPtr` that agree, so they are those of the last moment (`LinkImplements`). An scx fails only if it
is doomed: a node was frozen by another scx after the owner's llx; `AtomicScx` lets an scx fail at any time, so that not all do is a theorem of its own.

`NotAllFail` follows from two further invariants. Nodes are frozen from the top down (`Increasing`), and what dooms an scx is a node that it has not frozen and another has. As long as none has taken effect, those that have frozen the lowest frozen node are therefore
undecided (`LowestUndecided`): what would doom them is a frozen node that is lower still. And an scx that is over has taken effect, or has met a node that another has frozen (`SomeFrozen`). So if some are over, none has taken effect and none is being executed, there is a frozen node, hence a lowest (`Greatest`), and whoever froze it is
undecided and still being executed.

**Natarajan and Mittal's tree.** The invariant `TreeInv` has these parts, none of which can do without the others.
- `Tree`: what is reachable from the root has one parent each, the sentinels are in their places, and a leaf is where a search for its key gets to. `Words`: only words of leaves are flagged, and beside a marked word is a flagged one.
- `Pins`: what has been cut off since the guard of `t` opened leads to the same kind of nodes or into the tree, and none of its words is free. So a CAS, which expects a free word, works only in the tree (`FreeInTree`), and a thread that follows old words gets to nothing that may be allocated again.
- `Seeking`: marked words lead from the last unmarked word to the parent (`Chain`), and what the seek has read of a flagged or marked word is still there. With `Removing`, a CAS that swings puts a sibling in the place of exactly the nodes of this chain and their flagged leaves (`CutGone`, `CutParts`).
- `Debt`: the calls of `retireDeletedNodes` that are still to be made start at nodes that are owed, each once, and get to all that is owed without passing the node that stays. With the last call nothing is owed (`DebtPaid`).
- `Heading`: as long as it is in the tree, the node at which a seek stands is on the way to its key. Without it an insert could put its leaf where no search finds it, though its CAS works.

Three lemmas say what a write does to the tree: the CAS of a deletion cuts off and keeps all other paths (`CutTree`, `CutWalk`), the CAS of an insert adds two nodes (`GrowTree`, `GrowWalk`), a bit changes nothing that is reachable (`BitsTree`). Every action is one of these or writes nothing (`Moves`), and keeps the
part of every thread that does not move (`Others`); so there is one lemma per action about the thread that moves.

The refinement needs `DictInv` on top: `seen[t]` has every value that a leaf which `t` may still come to can answer with (`SeenInv`); if the key has been there all the time, the search gets to a leaf of it (`Ahead`); a flagged leaf belongs to one deletion (`Owners`), which finds its own leaf again as long as it is in the tree (`OwnLeaf`).
A CAS that cuts off a chain then is `Erase` of exactly the threads whose leaves go (`CutErases`), and a deletion whose `secondary_seek` does not find its leaf has had its effect.

Induction is over sets here: a set of numbers has a least member (`Least`, from `WellFoundedInduction`), hence that `Reach` is the least closed set (`ReachLeast`), and everything about paths and chains follows from closed sets that are large enough. No lemma needs the number of rounds.

**DebraCap, EbrToken** (`EpochProofs`, the names of the second part with `Token` in front). As for DEBRA, without the deamortized frees: `CapInv` is `TypeOK`, `OnePlace` (an object is in one place), `Phases`, `Behind` (no thread is ahead of the epoch), `FullScan` and `Aged` (whatever a thread can still hold is too young
to be freed before it ends its operation). The token has no epoch. There, `TokenAged` says that what `t` had retired when it passed the token on is in no window of a thread that the token has visited since (`Visited`, in the order of the ring), and `OneToken` that there
is one token: when `t` has it again, it has visited everybody else.

**DEBRA+.** `PlusInv` has the parts of `CapInv`, with two more reasons. A thread takes the epoch past an operation that has not announced it only after a signal to the thread of that operation, which then goes no further; so `Aged` speaks
of the threads without a pending signal, and `Phases` says that only threads in operations have one, so that none is left over for the next operation. What was protected when the bag became the one to free was held at that time, and nobody can protect it any more, because whoever still holds something of the bag has been signalled; so the scan
of the lists, which reads sizes and entries one at a time while others append and clear, has met each such entry or is still ahead of it (`Scanned`, `ScanPlace`).

**Hazard pointers** (in `DebraPlusProofs`, whose last part is about the instance `Hazard`, with `Ptr` in front of the names that both have). `HazardInv` says that every object that a thread holds is among its entries
(`Announced`: `erase` fills the gap before it drops the last slot, and the entry that it overwrites is of the object that is no longer held), and that for every object of the bag that `t` scans, held by `u` and not lost (`PtrScanned`): if `t` has read the list of `u`, it has
collected the object; if it is reading it, it has collected it or will still read a slot with it (`PtrAhead`). Such a slot is one of the entries that stay, or the copy that a move has left. A step of `u` changes only the slot of what it erases, which it does not hold, and the first slot
behind its entries; if the latter holds such a copy, the object is lost (`EntryStays`). What `u` newly holds was linked after it had been announced, so it is in no bag. No order of unprotecting is assumed.

**DCSS.** `Usage` is what `rq_dcssp` does: `addr1` is the timestamp, `addr2` a link of a node. The comparison of `addr1` and the decision are steps of possibly different threads with different results, so the refinement needs to know that no outcome is chosen which the words
have not justified. A tag is in place until its operation is decided (`InPlace`, `Stays`), since what takes it away is a helper that has reached `finish`, and only of a decided operation. A helper compares `addr1` while the tag is there, or else its sequence number is old (`View`): if it is to
write `SUCCEEDED`, `addr1` has held `old1` while `addr2` was kept from everybody (`matched`), and if `FAILED`, the operation has missed (`missed`). Any helper may decide, the first that does counts, and with either outcome it is right. What a late helper does with a copy whose descriptor has been used again
(it may even take the outcome of the later operation for that of its own) finds its tag in no word. `Evolves` says how the operation of a thread changes, and `WordChanges` what may happen to a word; every part of the invariant follows from these two.

The refinement: an operation reserves its `addr2` when it joins `matched`, and takes effect with the decision for `SUCCEEDED` (`Commit`), because the tag stands for the new value from then on; taking the tag away changes no value (`ValueKept`). A decision for `FAILED` and all help is invisible. `dcssRead` returns
a word only without a tag, and what is reserved has one (`TakenFacts`).

**KCAS.** Descriptors are used again, so no variable says what an old tag once stood for. `KcasInv` therefore says that there is a history `h` of all operations, entries and outcome of each tag ever issued, which the state agrees with (`Agrees`); a new operation and a decision extend or change it (`Moves`), no other step does.
- `Descriptors`: a descriptor holds the last operation of its thread, all earlier ones are decided. `Words`: a word without a tag has its value; one with the tag of an operation stands for the old value or for the new one as `h` says; a tag of an RDCSS is that of the current RDCSS of a thread. The tag of an undecided operation is in a word only if it is in the first.
- `Frames`: an invocation of `help`, at any depth of the recursion, has found the tag in place at all entries before its own, and it stays there until the operation is decided. So a helper at the end of the entries of an undecided operation may decide `SUCCEEDED`, and one that reads an unexpected value decides `FAILED` for an operation that has missed (`Missed`).
- `OfEntry`, `MetRdcss`, `Replaced`, `Copies`: the RDCSS of a thread is about its topmost entry; whoever has met its tag helps it with a copy that is right or out of date. A late RDCSS may put the tag of an operation into its word that has failed meanwhile, where it goes on to stand for the old value, even if nobody takes it away any more (finding 5); it never does for an operation
  that has succeeded, since the RDCSS could not be in a word then. This is where `rdcss` reads the state of the operation after its own tag is in the word.

The refinement: the decision for `SUCCEEDED` is `Commit`, for all words at once, because their tags stand for the new values from then on (`WordsStep`); the return of `help` to the caller is `Return`, and `readPtr` of a word without a tag is `ReadReturn`. All else, helping included, changes nothing that `AtomicWords` sees.
The entries of an operation are sorted by `kcasdesc_sort`, `SortSeq` in the model, for which the prover has no definition; that it permutes is in `Usage`, and `MCLibraries` evaluates it for all plans of up to three entries (`SortingPermutes`). That the entries are in the order of the addresses matters only for progress, of which nothing is proved.

**RCU.** `GraceInv`: what `synchronize` has read of the counter of a section that it has to wait for is what the counter still says (`Recorded`), and it has got past such a section only after its end (`Passed`).

**Locks.** `LockInv` equates the count of readers with the number of threads that have counted themselves in, and the writer bit with the presence of a writer; hence the finiteness.

Only model-checked:
- Liveness (`EpochAdvances`, `AllEnd`, `LockFree`, `RebalancingEnds`, `EveryCallReturns`): the prover has no rules for fairness.
- `AbTree` and `CcAvl`: an argument like that for `NatarajanBst`, with more kinds of steps that change the shape: rotations one write at a time, nodes that absorb, split and distribute. Their properties are checked on the instances of section 4.
- `EbrTree`: which leaves are below a node is a matter of powers of two, again induction over data.
- `Pool`, whose list of blocks is recursive, and the range queries: `RqDcssp` uses the steps of `Dcss` with help calls of its own, which `DcssAtomic` does not make.
- That `Kcas` is lock-free is not even true (`kcas_stuck`, section 6); what is proved holds of whatever returns.

## 8. Not modelled

- Variants: the validating KCAS, those with hardware transactions (`kcas_reuse_htm*`, `rq_htm_rwlock.h`), `rq_unsafe.h` (promises nothing), RCU with time stamps (depends on the clock), the pthread variant of the lock, `pool_numa.h`, earlier stages of Natarajan's tree, `hashlist.h` (used by one
  thread), `reclaimer_rcu.h` (a shell around an external library), `reclaimer_none.h`.
- Third-party and vendored code: `rlu` (no file includes it), `atomic_ops`.
- Statistics, timing, workload generation, thread binding: they take part in no property. They and the vendored code are a large part of the lines of the repository.
- Memory is sequentially consistent in the models; where the code relies on x86 ordering this is argued in section 3 or listed in section 6. Running out of memory (`new` throws, the trees exit) is not modelled, nor is
  the wrap-around of the epoch or of sequence numbers, which takes 2^48 operations of one thread or more.
