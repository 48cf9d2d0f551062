-------------------------------- MODULE RWLock --------------------------------
(***************************************************************************)
(* RWLock: a word with the number of readers, a writer bit and, when       *)
(* readers are favoured, a bit for a reader that waits to become writer.   *)
(* Favored chooses between the two implementations in C.                   *)
(*                                                                         *)
(* One action per access to the word.                                      *)
(***************************************************************************)
EXTENDS Integers

CONSTANTS Locker, Favored    (* "readers" or "writers" *)

VARIABLES
  lock,    (* [readers |-> n, upgrading |-> 0 or 1, writer |-> 0 or 1]     *)
  seen,    (* seen[t]: the value of the lock that t's next CAS expects     *)
  lpc

lockVars == <<lock, seen, lpc>>

Free == [readers |-> 0, upgrading |-> 0, writer |-> 0]

LockInit ==
  /\ lock = Free
  /\ seen = [t \in Locker |-> Free]
  /\ lpc = [t \in Locker |-> "out"]

Move(t, from, to) == lpc[t] = from /\ lpc' = [lpc EXCEPT ![t] = to]

-----------------------------------------------------------------------------
(* readLock and readUnlock.  With readers favoured, a reader counts itself *)
(* first, and then waits for the writer to leave.                          *)

ReadLock(t) ==
  /\ Favored = "readers"
  /\ Move(t, "out", "await")
  /\ lock' = [lock EXCEPT !.readers = @ + 1]
  /\ UNCHANGED seen

AwaitWriter(t) ==
  /\ Move(t, "await", "reading")
  /\ lock.writer = 0
  /\ UNCHANGED <<lock, seen>>

(* With writers favoured, it waits first, and counts itself tentatively.   *)
AwaitUnlocked(t) ==
  /\ Favored = "writers"
  /\ Move(t, "out", "tentative")
  /\ lock = Free
  /\ UNCHANGED <<lock, seen>>

(* Mutant: the tentative reader does not look at the writer bit. *)
TentativeReadLockNot(t) ==
  /\ Move(t, "tentative", "reading")
  /\ lock' = [lock EXCEPT !.readers = @ + 1]
  /\ UNCHANGED seen

TentativeReadLock(t) ==
  /\ Move(t, "tentative", IF lock.writer = 0 THEN "reading" ELSE "undo")
  /\ lock' = [lock EXCEPT !.readers = @ + 1]
  /\ UNCHANGED seen

Undo(t) ==
  /\ Move(t, "undo", "out")
  /\ lock' = [lock EXCEPT !.readers = @ - 1]
  /\ UNCHANGED seen

ReadUnlock(t) ==
  /\ Move(t, "reading", "out")
  /\ lock' = [lock EXCEPT !.readers = @ - 1]
  /\ UNCHANGED seen

-----------------------------------------------------------------------------
(* upgradeLock of a reader: there is one upgrader at a time, and the       *)
(* others are refused; they have to leave, or nobody would get on.         *)

Upgrade(t) ==
  /\ Favored = "readers"
  /\ lpc[t] \in {"reading", "again"}
  /\ Move(t, lpc[t], IF lock.upgrading = 1 THEN "refused" ELSE "upgrade")
  /\ seen' = [seen EXCEPT ![t] = IF lock.upgrading = 1 THEN @ ELSE lock]
  /\ UNCHANGED lock

UpgradeRefused(t) ==
  /\ Move(t, "refused", "out")
  /\ lock' = [lock EXCEPT !.readers = @ - 1]
  /\ UNCHANGED seen

BecomeUpgrader(t) ==
  /\ lpc[t] = "upgrade"
  /\ seen' = [seen EXCEPT ![t] = Free]
  /\ IF lock = seen[t]
     THEN Move(t, "upgrade", "upgrading") /\ lock' = [lock EXCEPT !.readers = @ - 1, !.upgrading = 1]
     ELSE Move(t, "upgrade", "again") /\ UNCHANGED lock

(* Mutant: readers that count themselves meanwhile are not waited for. *)
BecomeWriterAnyway(t) ==
  /\ Move(t, "upgrading", "writing")
  /\ lock' = [lock EXCEPT !.upgrading = 0, !.writer = 1]
  /\ UNCHANGED seen

(* The wait and the CAS from no readers to a writer. *)
BecomeWriter(t) ==
  /\ Move(t, "upgrading", "writing")
  /\ lock = [Free EXCEPT !.upgrading = 1]
  /\ lock' = [Free EXCEPT !.writer = 1]
  /\ UNCHANGED seen

-----------------------------------------------------------------------------
(* writeLock and writeUnlock.  With readers favoured, a writer waits for a *)
(* free lock.                                                              *)
WriteLock(t) ==
  /\ Favored = "readers"
  /\ Move(t, "out", "writing")
  /\ lock = Free
  /\ lock' = [Free EXCEPT !.writer = 1]
  /\ UNCHANGED seen

(* With writers favoured, it keeps new readers out before those within     *)
(* have left.                                                              *)
ReadForWrite(t) ==
  /\ Favored = "writers"
  /\ Move(t, "out", "writer")
  /\ seen' = [seen EXCEPT ![t] = [lock EXCEPT !.writer = 0]]
  /\ UNCHANGED lock

SetWriter(t) ==
  /\ lpc[t] = "writer"
  /\ seen' = [seen EXCEPT ![t] = Free]
  /\ IF lock = seen[t]
     THEN Move(t, "writer", "drain") /\ lock' = [lock EXCEPT !.writer = 1]
     ELSE Move(t, "writer", "out") /\ UNCHANGED lock

Drain(t) ==
  /\ Move(t, "drain", "writing")
  /\ lock.readers = 0
  /\ UNCHANGED <<lock, seen>>

WriteUnlock(t) ==
  /\ Move(t, "writing", "out")
  /\ lock' = [lock EXCEPT !.writer = @ - 1]
  /\ UNCHANGED seen

-----------------------------------------------------------------------------
LockStep(t) ==
  \/ ReadLock(t) \/ AwaitWriter(t) \/ AwaitUnlocked(t) \/ TentativeReadLock(t) \/ Undo(t) \/ ReadUnlock(t)
  \/ Upgrade(t) \/ UpgradeRefused(t) \/ BecomeUpgrader(t) \/ BecomeWriter(t)
  \/ WriteLock(t) \/ ReadForWrite(t) \/ SetWriter(t) \/ Drain(t) \/ WriteUnlock(t)

LockNext == \E t \in Locker : LockStep(t)

LockSpec == LockInit /\ [][LockNext]_lockVars

-----------------------------------------------------------------------------
(* A writer is alone: no other thread writes, and none reads, one that is  *)
(* trying to become a writer included.                                     *)
Reading(t) == lpc[t] \in {"reading", "refused", "upgrade", "again"}
WriterAlone ==
  \A t \in Locker : lpc[t] = "writing" =>
    \A u \in Locker \ {t} : lpc[u] # "writing" /\ ~Reading(u)

(* What a reader has read stays as it was while it becomes a writer: no    *)
(* other thread writes in between.                                         *)
KeepsOut ==
  \A t \in Locker : lpc[t] = "upgrading" =>
    \A u \in Locker \ {t} : lpc'[u] # "writing"

UpgradeKeepsOut == [][KeepsOut]_lockVars
=============================================================================
