------------------------------ MODULE MCProgress ------------------------------
(***************************************************************************)
(* That what has begun ends, in LLX and SCX and in the reclaimers, one     *)
(* component at a time, on instances that are small enough for liveness.   *)
(* They share the variables x...; a component leaves those that it does    *)
(* not have None.  The reader-writer locks, which promise no progress,     *)
(* are checked here too: Favored is for the one with readers favoured.     *)
(***************************************************************************)
EXTENDS RWLock, TLC

CONSTANT None

VARIABLES
  library,  (* the one that takes steps *)
  xMarked, xScxPtr, xField, xHeld, xMutables, xDesc, xPc, xSrcNode, xSeenMarked,
  xDest, xTagptr, xSnap, xI, xResult, xLink, xAnswer, xApplied, xEpoch,
  xAnnouncedEpoch, xLocalvar_announcedEpoch, xEpochbags, xIndex, xCurrentBag,
  xDeamortizedFreeables, xChecked, xOpsSinceRead, xLinked, xPending,
  xAvailable, xWindow, xOpEpoch, xInOp, xToken, xCurr, xLast, xNodes, xBags,
  xTimer, xLocal, xAnnounced, xSignalled, xProtected

shared ==
  <<xMarked, xScxPtr, xField, xHeld, xMutables, xDesc, xPc, xSrcNode, xSeenMarked,
    xDest, xTagptr, xSnap, xI, xResult, xLink, xAnswer, xApplied, xEpoch,
    xAnnouncedEpoch, xLocalvar_announcedEpoch, xEpochbags, xIndex,
    xCurrentBag, xDeamortizedFreeables, xChecked, xOpsSinceRead, xLinked,
    xPending, xAvailable, xWindow, xOpEpoch, xInOp, xToken, xCurr, xLast,
    xNodes, xBags, xTimer, xLocal, xAnnounced, xSignalled, xProtected>>
vars == <<library, shared, lockVars>>

(* Two threads, each with one SCX on a chain of two nodes with one field. *)
S == INSTANCE Scx WITH
  Thread <- {1, 2}, NumNodes <- 2, Field <- {1}, MaxScx <- <<1, 1>>,
  marked <- xMarked, scxPtr <- xScxPtr, field <- xField, held <- xHeld,
  mutables <- xMutables, desc <- xDesc, pc <- xPc, srcNode <- xSrcNode,
  seenMarked <- xSeenMarked, dest <- xDest, tagptr <- xTagptr, snap <- xSnap,
  i <- xI, result <- xResult, link <- xLink, answer <- xAnswer,
  applied <- xApplied

D == INSTANCE Debra WITH
  NUM_PROCESSES <- 2, Obj <- {1}, BLOCK_SIZE <- 1, MIN_OPS_BEFORE_READ <- 2, MaxEpoch <- 3,
  pc <- xPc, epoch <- xEpoch, announcedEpoch <- xAnnouncedEpoch,
  localvar_announcedEpoch <- xLocalvar_announcedEpoch,
  epochbags <- xEpochbags, index <- xIndex, currentBag <- xCurrentBag,
  deamortizedFreeables <- xDeamortizedFreeables, checked <- xChecked,
  opsSinceRead <- xOpsSinceRead, linked <- xLinked, pending <- xPending,
  available <- xAvailable, window <- xWindow, opEpoch <- xOpEpoch

Token == INSTANCE EbrToken WITH
  NUM_PROCESSES <- 3, Obj <- {1}, BLOCK_SIZE <- 1,
  linked <- xLinked, pending <- xPending, available <- xAvailable,
  window <- xWindow, inOp <- xInOp, pc <- xPc, token <- xToken, curr <- xCurr,
  last <- xLast

(* No objects: only the epoch matters. *)
Tree == INSTANCE EbrTree WITH
  NUM_PROCESSES <- 3, Obj <- {}, BLOCK_SIZE <- 1, MIN_TIME_BEFORE_TRY_ADVANCE <- 1, MaxEpoch <- 5, Writer <- {},
  linked <- xLinked, pending <- xPending, available <- xAvailable,
  window <- xWindow, inOp <- xInOp, pc <- xPc, nodes <- xNodes, bags <- xBags,
  index <- xIndex, timer <- xTimer, local <- xLocal

Plus == INSTANCE DebraPlus WITH
  NUM_PROCESSES <- 2, Obj <- {1}, BLOCK_SIZE <- 1, NEUTRALIZE_THRESHOLD_IN_BLOCKS <- 2, ScanThreshold <- 2,
  MINIMUM_OPERATIONS_BEFORE_NEW_EPOCH_CR <- 2, MAX_PROTECT_EVEN_IF_QUIESCENT <- 1, MaxEpoch <- 3,
  Reader <- {1}, Writer <- {0},
  linked <- xLinked, pending <- xPending, available <- xAvailable,
  window <- xWindow, pc <- xPc, epoch <- xEpoch, announced <- xAnnounced,
  signalled <- xSignalled, protected <- xProtected, bags <- xBags,
  index <- xIndex, checked <- xChecked, local <- xLocal

Writers == INSTANCE RWLock WITH Favored <- "writers"

-----------------------------------------------------------------------------
Locks == {"rwlock.readers", "rwlock.writers"}

ProgressInit ==
  /\ library \in {"scx", "debra", "ebr_token", "ebr_tree", "debraplus"} \cup Locks
  /\ LockInit
  /\ library = "scx" => S!Init
  /\ library = "debra" => D!Init
  /\ library = "ebr_token" => Token!Init
  /\ library = "ebr_tree" => Tree!Init
  /\ library = "debraplus" => Plus!Init
  /\ library # "scx" =>
       xMarked = None /\ xScxPtr = None /\ xField = None /\ xHeld = None /\
       xMutables = None /\ xDesc = None /\ xSrcNode = None /\
       xSeenMarked = None /\ xDest = None /\ xTagptr = None /\ xSnap = None /\
       xI = None /\ xResult = None /\ xLink = None /\ xAnswer = None /\
       xApplied = None
  /\ library \notin {"debra", "debraplus"} =>
       xEpoch = None /\ xChecked = None
  /\ library # "debra" =>
       xAnnouncedEpoch = None /\ xLocalvar_announcedEpoch = None /\
       xEpochbags = None /\ xCurrentBag = None /\
       xDeamortizedFreeables = None /\ xOpsSinceRead = None /\ xOpEpoch = None
  /\ library \notin {"debra", "ebr_tree", "debraplus"} => xIndex = None
  /\ library \in Locks => xPc = None
  /\ library \in Locks \cup {"scx"} =>
       xLinked = None /\ xPending = None /\ xAvailable = None /\
       xWindow = None
  /\ library \notin {"ebr_token", "ebr_tree"} => xInOp = None
  /\ library # "ebr_token" =>
       xToken = None /\ xCurr = None /\ xLast = None
  /\ library # "ebr_tree" => xNodes = None /\ xTimer = None
  /\ library \notin {"ebr_tree", "debraplus"} =>
       xBags = None /\ xLocal = None
  /\ library # "debraplus" =>
       xAnnounced = None /\ xSignalled = None /\ xProtected = None

(* What the component that takes steps does not have. *)
Others ==
  /\ UNCHANGED library
  /\ library # "scx" =>
       UNCHANGED <<xMarked, xScxPtr, xField, xHeld, xMutables, xDesc, xSrcNode, xSeenMarked,
         xDest, xTagptr, xSnap, xI, xResult, xLink, xAnswer, xApplied>>
  /\ library \notin {"debra", "debraplus"} => UNCHANGED <<xEpoch, xChecked>>
  /\ library # "debra" =>
       UNCHANGED <<xAnnouncedEpoch, xLocalvar_announcedEpoch, xEpochbags, xCurrentBag,
         xDeamortizedFreeables, xOpsSinceRead, xOpEpoch>>
  /\ library \notin {"debra", "ebr_tree", "debraplus"} => UNCHANGED xIndex
  /\ library \in Locks => UNCHANGED xPc
  /\ library \in Locks \cup {"scx"} => UNCHANGED <<xLinked, xPending, xAvailable, xWindow>>
  /\ library \notin {"ebr_token", "ebr_tree"} => UNCHANGED xInOp
  /\ library # "ebr_token" => UNCHANGED <<xToken, xCurr, xLast>>
  /\ library # "ebr_tree" => UNCHANGED <<xNodes, xTimer>>
  /\ library \notin {"ebr_tree", "debraplus"} => UNCHANGED <<xBags, xLocal>>
  /\ library # "debraplus" => UNCHANGED <<xAnnounced, xSignalled, xProtected>>
  /\ library \notin Locks => UNCHANGED lockVars

ProgressNext ==
  /\ \/ library = "scx" /\ S!Next
     \/ library = "debra" /\ D!Next
     \/ library = "ebr_token" /\ Token!Next
     \/ library = "ebr_tree" /\ Tree!Next
     \/ library = "debraplus" /\ Plus!Next
     \/ library = "rwlock.readers" /\ LockNext
     \/ library = "rwlock.writers" /\ Writers!LockNext
  /\ Others

(* A thread goes on until it returns from its operation, and begins        *)
(* another one or is done; whether and what it links and unlinks is its    *)
(* own choice.  Of the threads of Scx, and of DEBRA+, only one goes on.    *)
GoesOn(t) ==
  /\ \/ library = "scx" /\ t = 1 /\ S!Step(t)
     \/ library = "debra" /\ t < 2 /\
          (\/ D!InitThread(t) \/ D!StartOp(t)
           \/ D!FreeOne(t) \/ D!AnnounceEpoch(t) \/ D!SkipScan(t) \/ D!Scan(t) \/ D!AdvanceEpoch(t)
           \/ D!Retire(t, 1) \/ D!EndOp(t) \/ D!Finish(t)
           \/ D!AllDone /\ D!DeinitThread(t))
     \/ library = "ebr_token" /\
          (Token!Starting(t) \/ Token!Retire(t, 1) \/ Token!EndOp(t) \/ Token!DeinitThread(t))
     \/ library = "ebr_tree" /\ (Tree!Starting(t) \/ Tree!EndOp(t))
     \/ library = "debraplus" /\ t = 0 /\ (Plus!Running(t) \/ Plus!Retire(t, 1) \/ Plus!EndOp(t))
  /\ Others

ProgressSpec == ProgressInit /\ [][ProgressNext]_vars /\ \A t \in 0 .. 2 : WF_vars(GoesOn(t))

-----------------------------------------------------------------------------
(* The epoch goes on.  Threads of DEBRA that are quiescent or inside an    *)
(* operation delay it but do not stop it, and two threads that announce an *)
(* epoch to the tree at the same time do not both leave it to the other to *)
(* move it up.                                                             *)
EpochAdvances ==
  <>(/\ library = "debra" => xEpoch = 3 \/ D!AllDone
     /\ library = "ebr_tree" => Tree!Epoch = 5)

(* Every call of LLX and SCX returns, whatever the other thread does or    *)
(* fails to do.  The two are alike: this is said of one.                   *)
Calling == library = "scx" /\ xPc[1] # "idle"
Returned == library = "scx" /\ xPc[1] = "idle"

(* Every retired object reaches the allocator: of DEBRA by a deamortized   *)
(* free or at the latest by deinitThread; with the token, unless a thread  *)
(* has finished, which stops the others if it holds the token.             *)
Retired ==
  \/ library = "debra" /\ \E t \in 0 .. 1 : 1 \in D!Limbo(t)
  \/ library = "ebr_token" /\ 1 \in Token!Promise!Retired
Reclaimed ==
  \/ library \in {"debra", "ebr_token"} /\ 1 \in xAvailable
  \/ library = "ebr_token" /\ \E t \in 0 .. 2 : xPc[t] = "done"

(* A thread of DEBRA+ that goes on gets rid of a bag that is too large,    *)
(* even if the other thread stops anywhere in its operation.               *)
TooLarge == library = "debraplus" /\ Plus!TooLarge(0)
Rotated == library = "debraplus" /\ (~Plus!TooLarge(0) \/ xEpoch = 3)

(* What has begun ends: the calls of LLX and SCX, what is retired to a     *)
(* reclaimer, and the bags that are too large.                             *)
AllEnd == (Calling \/ Retired \/ TooLarge) ~> (Returned \/ Reclaimed \/ Rotated)
=============================================================================
