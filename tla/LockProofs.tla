------------------------------ MODULE LockProofs ------------------------------
(***************************************************************************)
(* The reader-writer lock keeps a writer alone, and an upgrade keeps other *)
(* writers out, for any finite number of threads and either way of         *)
(* favouring; and synchronize of the userspace RCU waits for a grace       *)
(* period, for any number of threads, any number of sections and any set   *)
(* of updaters.  The second part is about the instance Rcu.                *)
(***************************************************************************)
EXTENDS RWLock, FiniteSets, FiniteSetTheorems, TLAPS

CONSTANTS NumThreads, MaxTime, Updater
VARIABLES time, times, next, pc, before

Rcu == INSTANCE Urcu

-----------------------------------------------------------------------------
(* The reader-writer lock.                                                 *)

Word == [readers : Nat, upgrading : 0 .. 1, writer : 0 .. 1]

Stage ==
  {"out", "await", "reading", "tentative", "undo", "refused", "upgrade",
   "again", "upgrading", "writer", "drain", "writing"}

TypeOK ==
  /\ lock \in Word
  /\ seen \in [Locker -> Word]
  /\ lpc \in [Locker -> Stage]

(* The threads that the word counts as readers, some of which still wait   *)
(* for the writer or have to take their count back.                        *)
Counted(t) == lpc[t] \in {"await", "reading", "undo", "refused", "upgrade", "again"}
CountedReaders == {t \in Locker : Counted(t)}

(* The thread that has set the writer bit, and the one that has announced  *)
(* its upgrade.                                                            *)
Writing(t) == lpc[t] \in {"drain", "writing"}
Upgrading(t) == lpc[t] = "upgrading"

(* The stages of one way of favouring are not those of the other.          *)
Favouring ==
  \A t \in Locker :
    /\ Favored # "readers" => lpc[t] \notin {"await", "refused", "upgrade", "again", "upgrading"}
    /\ Favored # "writers" => lpc[t] \notin {"tentative", "undo", "writer", "drain"}

(* The word says how many readers there are, and whether there is a writer *)
(* and an upgrader, of which there is at most one.                         *)
ReadersCounted == lock.readers = Cardinality(CountedReaders)

WriterBit ==
  /\ lock.writer = 1 <=> \E t \in Locker : Writing(t)
  /\ \A t, u \in Locker : Writing(t) /\ Writing(u) => t = u

UpgradingBit ==
  /\ lock.upgrading = 1 <=> \E t \in Locker : Upgrading(t)
  /\ \A t, u \in Locker : Upgrading(t) /\ Upgrading(u) => t = u

(* A CAS that sets a bit expects it to be clear.                           *)
ExpectedClear ==
  \A t \in Locker :
    /\ lpc[t] = "upgrade" => seen[t].upgrading = 0
    /\ lpc[t] = "writer" => seen[t].writer = 0

(* While a thread writes nobody reads, nor is about to upgrade.            *)
WriterKeepsOut ==
  \A t \in Locker : lpc[t] = "writing" => \A u \in Locker : ~Reading(u) /\ ~Upgrading(u)

LockInv ==
  /\ TypeOK
  /\ Favouring
  /\ ReadersCounted
  /\ WriterBit
  /\ UpgradingBit
  /\ ExpectedClear
  /\ WriterKeepsOut

-----------------------------------------------------------------------------
(* Every step is well typed, a count that is taken back included.          *)
LEMMA TypeStep ==
  ASSUME LockInv, [LockNext]_lockVars, IsFiniteSet(Locker)
  PROVE  TypeOK'
<1> USE DEF LockInv, TypeOK, Stage, Move
<1>1. Free \in Word
  BY DEF Free, Word
<1>2. ASSUME NEW t \in Locker, Counted(t) PROVE lock.readers - 1 \in Nat
  <2>1. t \in CountedReaders /\ IsFiniteSet(CountedReaders)
    BY <1>2, FS_Subset DEF CountedReaders
  <2>2. lock.readers \in Nat /\ lock.readers # 0
    BY <2>1, FS_EmptySet DEF ReadersCounted, Word
  <2> QED
    BY <2>2 DEF Word
<1>3. ASSUME NEW t \in Locker,
             ReadLock(t) \/ AwaitWriter(t) \/ AwaitUnlocked(t) \/ TentativeReadLock(t)
      PROVE  TypeOK'
  <2>1. [lock EXCEPT !.readers = @ + 1] \in Word
    BY DEF Word
  <2> QED
    BY <1>3, <2>1 DEF ReadLock, AwaitWriter, AwaitUnlocked, TentativeReadLock
<1>4. ASSUME NEW t \in Locker, Undo(t) \/ ReadUnlock(t) \/ UpgradeRefused(t) PROVE TypeOK'
  <2>1. Counted(t)
    BY <1>4 DEF Counted, Undo, ReadUnlock, UpgradeRefused
  <2>2. [lock EXCEPT !.readers = @ - 1] \in Word
    BY <1>2, <2>1 DEF Word
  <2> QED
    BY <1>4, <2>2 DEF Undo, ReadUnlock, UpgradeRefused
<1>5. ASSUME NEW t \in Locker, Upgrade(t) PROVE TypeOK'
  BY <1>5 DEF Upgrade
<1>6. ASSUME NEW t \in Locker, BecomeUpgrader(t) PROVE TypeOK'
  <2>1. [lock EXCEPT !.readers = @ - 1, !.upgrading = 1] \in Word
    <3>1. lock.readers - 1 \in Nat
      BY <1>2, <1>6 DEF Counted, BecomeUpgrader
    <3>2. [lock EXCEPT !.readers = @ - 1] \in Word
      BY <3>1 DEF Word
    <3>3. \A w \in Word : [w EXCEPT !.upgrading = 1] \in Word
      BY DEF Word
    <3> QED
      BY <3>2, <3>3
  <2> QED
    BY <1>1, <1>6, <2>1 DEF BecomeUpgrader
<1>7. ASSUME NEW t \in Locker, BecomeWriter(t) \/ WriteLock(t) PROVE TypeOK'
  <2>1. [Free EXCEPT !.writer = 1] \in Word
    BY DEF Free, Word
  <2> QED
    BY <1>7, <2>1 DEF BecomeWriter, WriteLock
<1>8. ASSUME NEW t \in Locker, ReadForWrite(t) PROVE TypeOK'
  <2>1. [lock EXCEPT !.writer = 0] \in Word
    BY DEF Word
  <2> QED
    BY <1>8, <2>1 DEF ReadForWrite
<1>9. ASSUME NEW t \in Locker, SetWriter(t) PROVE TypeOK'
  <2>1. [lock EXCEPT !.writer = 1] \in Word
    BY DEF Word
  <2> QED
    BY <1>1, <1>9, <2>1 DEF SetWriter
<1>10. ASSUME NEW t \in Locker, Drain(t) PROVE TypeOK'
  BY <1>10 DEF Drain
<1>11. ASSUME NEW t \in Locker, WriteUnlock(t) PROVE TypeOK'
  <2>1. lock.writer = 1
    BY <1>11 DEF WriteUnlock, WriterBit, Writing
  <2>2. [lock EXCEPT !.writer = @ - 1] \in Word
    BY <2>1 DEF Word
  <2> QED
    BY <1>11, <2>2 DEF WriteUnlock
<1>12. CASE UNCHANGED lockVars
  BY <1>12 DEF lockVars
<1> QED
  BY <1>3, <1>4, <1>5, <1>6, <1>7, <1>8, <1>9, <1>10, <1>11, <1>12 DEF LockNext, LockStep

(* A thread that moves counts itself, takes its count back or leaves the   *)
(* number of the counted as it is.                                         *)
LEMMA CountAfterMove ==
  ASSUME TypeOK, IsFiniteSet(Locker), NEW t \in Locker, NEW s \in Stage, lpc' = [lpc EXCEPT ![t] = s]
  PROVE  /\ ~Counted(t) /\ Counted(t)' => Cardinality(CountedReaders)' = Cardinality(CountedReaders) + 1
         /\ Counted(t) /\ ~Counted(t)' => Cardinality(CountedReaders)' = Cardinality(CountedReaders) - 1
         /\ (Counted(t) <=> Counted(t)') => Cardinality(CountedReaders)' = Cardinality(CountedReaders)
<1>1. IsFiniteSet(CountedReaders)
  BY FS_Subset DEF CountedReaders
<1>2. \A u \in Locker : u # t => (Counted(u)' <=> Counted(u))
  BY DEF TypeOK, Counted
<1>3. CASE ~Counted(t) /\ Counted(t)'
  <2>1. CountedReaders' = CountedReaders \cup {t} /\ t \notin CountedReaders
    BY <1>2, <1>3 DEF CountedReaders
  <2> QED
    BY <1>1, <1>3, <2>1, FS_AddElement
<1>4. CASE Counted(t) /\ ~Counted(t)'
  <2>1. CountedReaders' = CountedReaders \ {t} /\ t \in CountedReaders
    BY <1>2, <1>4 DEF CountedReaders
  <2> QED
    BY <1>1, <1>4, <2>1, FS_RemoveElement
<1>5. CASE Counted(t) <=> Counted(t)'
  <2>1. CountedReaders' = CountedReaders
    BY <1>2, <1>5 DEF CountedReaders
  <2> QED
    BY <1>5, <2>1
<1> QED
  BY <1>3, <1>4, <1>5

(* The stages of a thread are those of the way of favouring.               *)
LEMMA FavouringStep ==
  ASSUME LockInv, [LockNext]_lockVars
  PROVE  Favouring'
<1> USE DEF LockInv, TypeOK, Favouring, Move
<1>1. ASSUME NEW t \in Locker,
             ReadLock(t) \/ AwaitWriter(t) \/ AwaitUnlocked(t) \/ TentativeReadLock(t)
             \/ Undo(t) \/ ReadUnlock(t)
      PROVE  Favouring'
  BY <1>1 DEF ReadLock, AwaitWriter, AwaitUnlocked, TentativeReadLock, Undo, ReadUnlock
<1>2. ASSUME NEW t \in Locker,
             Upgrade(t) \/ UpgradeRefused(t) \/ BecomeUpgrader(t) \/ BecomeWriter(t)
      PROVE  Favouring'
  BY <1>2 DEF Upgrade, UpgradeRefused, BecomeUpgrader, BecomeWriter
<1>3. ASSUME NEW t \in Locker,
             WriteLock(t) \/ ReadForWrite(t) \/ SetWriter(t) \/ Drain(t) \/ WriteUnlock(t)
      PROVE  Favouring'
  BY <1>3 DEF WriteLock, ReadForWrite, SetWriter, Drain, WriteUnlock
<1>4. CASE UNCHANGED lockVars
  BY <1>4 DEF lockVars
<1> QED
  BY <1>1, <1>2, <1>3, <1>4 DEF LockNext, LockStep

(* The number in the word changes as the number of the counted does.       *)
LEMMA ReadersCountedStep ==
  ASSUME LockInv, [LockNext]_lockVars, IsFiniteSet(Locker)
  PROVE  ReadersCounted'
<1>1. /\ TypeOK
      /\ lpc \in [Locker -> Stage]
      /\ lock.readers \in Nat
      /\ lock.readers = Cardinality(CountedReaders)
  BY DEF LockInv, TypeOK, Word, ReadersCounted
<1> DEFINE Moves(t, s) == s \in Stage /\ lpc' = [lpc EXCEPT ![t] = s]
<1>2. ASSUME NEW t \in Locker, NEW s, Moves(t, s), ~Counted(t), Counted(t)',
             lock'.readers = lock.readers + 1
      PROVE  ReadersCounted'
  BY <1>1, <1>2, CountAfterMove DEF ReadersCounted
<1>3. ASSUME NEW t \in Locker, NEW s, Moves(t, s), Counted(t), ~Counted(t)',
             lock'.readers = lock.readers - 1
      PROVE  ReadersCounted'
  BY <1>1, <1>3, CountAfterMove DEF ReadersCounted
<1>4. ASSUME NEW t \in Locker, NEW s, Moves(t, s), Counted(t) <=> Counted(t)',
             lock'.readers = lock.readers
      PROVE  ReadersCounted'
  BY <1>1, <1>4, CountAfterMove DEF ReadersCounted
<1> HIDE DEF Moves
<1>5. ASSUME NEW t \in Locker, ReadLock(t) PROVE ReadersCounted'
  <2>1. Moves(t, "await") /\ ~Counted(t) /\ Counted(t)'
    BY <1>1, <1>5 DEF ReadLock, Move, Moves, Stage, Counted
  <2>2. lock'.readers = lock.readers + 1
    BY <1>1, <1>5 DEF ReadLock, TypeOK, Word
  <2> QED
    BY <1>2, <2>1, <2>2
<1>6. ASSUME NEW t \in Locker, TentativeReadLock(t) PROVE ReadersCounted'
  <2>1. PICK s \in {"reading", "undo"} : Moves(t, s) /\ ~Counted(t) /\ Counted(t)'
    BY <1>1, <1>6 DEF TentativeReadLock, Move, Moves, Stage, Counted
  <2>2. lock'.readers = lock.readers + 1
    BY <1>1, <1>6 DEF TentativeReadLock, TypeOK, Word
  <2> QED
    BY <1>2, <2>1, <2>2
<1>7. ASSUME NEW t \in Locker, Undo(t) \/ ReadUnlock(t) \/ UpgradeRefused(t) PROVE ReadersCounted'
  <2>1. Moves(t, "out") /\ Counted(t) /\ ~Counted(t)'
    BY <1>1, <1>7 DEF Undo, ReadUnlock, UpgradeRefused, Move, Moves, Stage, Counted
  <2>2. lock'.readers = lock.readers - 1
    BY <1>1, <1>7 DEF Undo, ReadUnlock, UpgradeRefused, TypeOK, Word
  <2> QED
    BY <1>3, <2>1, <2>2
<1>8. ASSUME NEW t \in Locker, Upgrade(t) \/ AwaitWriter(t) PROVE ReadersCounted'
  <2>1. PICK s \in {"reading", "refused", "upgrade"} : Moves(t, s) /\ Counted(t) /\ Counted(t)'
    BY <1>1, <1>8 DEF Upgrade, AwaitWriter, Move, Moves, Stage, Counted
  <2>2. lock'.readers = lock.readers
    BY <1>8 DEF Upgrade, AwaitWriter
  <2> QED
    BY <1>4, <2>1, <2>2
<1>9. ASSUME NEW t \in Locker, BecomeUpgrader(t) PROVE ReadersCounted'
  <2>1. CASE lock = seen[t]
    <3>1. Moves(t, "upgrading") /\ Counted(t) /\ ~Counted(t)'
      BY <1>1, <1>9, <2>1 DEF BecomeUpgrader, Move, Moves, Stage, Counted
    <3>2. lock'.readers = lock.readers - 1
      BY <1>1, <1>9, <2>1 DEF BecomeUpgrader, TypeOK, Word
    <3> QED
      BY <1>3, <3>1, <3>2
  <2>2. CASE lock # seen[t]
    <3>1. Moves(t, "again") /\ Counted(t) /\ Counted(t)'
      BY <1>1, <1>9, <2>2 DEF BecomeUpgrader, Move, Moves, Stage, Counted
    <3> QED
      BY <1>4, <1>9, <2>2, <3>1 DEF BecomeUpgrader
  <2> QED
    BY <2>1, <2>2
<1>10. ASSUME NEW t \in Locker,
              \/ AwaitUnlocked(t) \/ BecomeWriter(t) \/ WriteLock(t) \/ ReadForWrite(t)
              \/ SetWriter(t) \/ Drain(t) \/ WriteUnlock(t)
       PROVE  ReadersCounted'
  <2>1. PICK s \in {"out", "tentative", "writer", "drain", "writing"} :
          Moves(t, s) /\ ~Counted(t) /\ ~Counted(t)'
    BY <1>1, <1>10
    DEF AwaitUnlocked, BecomeWriter, WriteLock, ReadForWrite, SetWriter, Drain, WriteUnlock,
        Move, Moves, Stage, Counted
  <2>2. lock'.readers = lock.readers
    BY <1>1, <1>10
    DEF AwaitUnlocked, BecomeWriter, WriteLock, ReadForWrite, SetWriter, Drain, WriteUnlock,
        Free, TypeOK, Word
  <2> QED
    BY <1>4, <2>1, <2>2
<1>11. CASE UNCHANGED lockVars
  <2>1. CountedReaders' = CountedReaders
    BY <1>11 DEF CountedReaders, Counted, lockVars
  <2> QED
    BY <1>1, <1>11, <2>1 DEF ReadersCounted, lockVars
<1> QED
  BY <1>5, <1>6, <1>7, <1>8, <1>9, <1>10, <1>11 DEF LockNext, LockStep

(* The writer bit is set by one thread, and cleared by it.                 *)
LEMMA WriterBitStep ==
  ASSUME LockInv, [LockNext]_lockVars, IsFiniteSet(Locker)
  PROVE  WriterBit'
<1>1. /\ lpc \in [Locker -> Stage]
      /\ lock \in Word
  BY DEF LockInv, TypeOK
<1>2. WriterBit
  BY DEF LockInv
<1> USE DEF WriterBit, Writing, Move
<1>3. ASSUME NEW t \in Locker,
             \/ ReadLock(t) \/ AwaitWriter(t) \/ AwaitUnlocked(t) \/ TentativeReadLock(t)
             \/ Undo(t) \/ ReadUnlock(t) \/ Upgrade(t) \/ UpgradeRefused(t) \/ ReadForWrite(t)
             \/ Drain(t)
      PROVE  WriterBit'
  <2>1. lock'.writer = lock.writer
    BY <1>1, <1>3
    DEF ReadLock, AwaitWriter, AwaitUnlocked, TentativeReadLock, Undo, ReadUnlock, Upgrade,
        UpgradeRefused, ReadForWrite, Drain, Word
  <2>2. \A u \in Locker : Writing(u)' <=> Writing(u)
    BY <1>1, <1>3
    DEF ReadLock, AwaitWriter, AwaitUnlocked, TentativeReadLock, Undo, ReadUnlock, Upgrade,
        UpgradeRefused, ReadForWrite, Drain
  <2> QED
    BY <1>2, <2>1, <2>2
<1>4. ASSUME NEW t \in Locker, BecomeUpgrader(t) PROVE WriterBit'
  <2>1. lock'.writer = lock.writer
    BY <1>1, <1>4 DEF BecomeUpgrader, Word
  <2>2. \A u \in Locker : Writing(u)' <=> Writing(u)
    BY <1>1, <1>4 DEF BecomeUpgrader
  <2> QED
    BY <1>2, <2>1, <2>2
<1>5. ASSUME NEW t \in Locker, BecomeWriter(t) \/ WriteLock(t) \/ SetWriter(t) PROVE WriterBit'
  <2>1. CASE ~Writing(t)'
    <3>1. UNCHANGED lock
      BY <1>1, <1>5, <2>1 DEF BecomeWriter, WriteLock, SetWriter
    <3>2. \A u \in Locker : Writing(u)' <=> Writing(u)
      BY <1>1, <1>5, <2>1 DEF BecomeWriter, WriteLock, SetWriter
    <3> QED
      BY <1>2, <3>1, <3>2
  <2>2. CASE Writing(t)'
    <3>1. lock.writer = 0
      BY <1>1, <1>5, <2>2 DEF BecomeWriter, WriteLock, SetWriter, Free, LockInv, ExpectedClear
    <3>2. lock'.writer = 1
      BY <1>1, <1>5, <2>2 DEF BecomeWriter, WriteLock, SetWriter, Free, Word
    <3>3. \A u \in Locker : ~Writing(u)
      BY <1>2, <3>1
    <3>4. \A u \in Locker : Writing(u)' <=> u = t
      BY <1>1, <1>5, <2>2, <3>3 DEF BecomeWriter, WriteLock, SetWriter
    <3> QED
      BY <3>2, <3>4
  <2> QED
    BY <2>1, <2>2
<1>6. ASSUME NEW t \in Locker, WriteUnlock(t) PROVE WriterBit'
  <2>1. \A u \in Locker : Writing(u) <=> u = t
    BY <1>2, <1>6 DEF WriteUnlock
  <2>2. lock'.writer = 0
    BY <1>1, <1>2, <1>6, <2>1 DEF WriteUnlock, Word
  <2>3. \A u \in Locker : ~Writing(u)'
    BY <1>1, <1>6, <2>1 DEF WriteUnlock
  <2> QED
    BY <2>2, <2>3
<1>7. CASE UNCHANGED lockVars
  BY <1>2, <1>7 DEF lockVars
<1> QED
  BY <1>3, <1>4, <1>5, <1>6, <1>7 DEF LockNext, LockStep

(* So is the bit of the upgrader.                                          *)
LEMMA UpgradingBitStep ==
  ASSUME LockInv, [LockNext]_lockVars, IsFiniteSet(Locker)
  PROVE  UpgradingBit'
<1>1. /\ lpc \in [Locker -> Stage]
      /\ lock \in Word
  BY DEF LockInv, TypeOK
<1>2. UpgradingBit
  BY DEF LockInv
<1> USE DEF UpgradingBit, Upgrading, Move
<1>3. ASSUME NEW t \in Locker,
             \/ ReadLock(t) \/ AwaitWriter(t) \/ AwaitUnlocked(t) \/ TentativeReadLock(t)
             \/ Undo(t) \/ ReadUnlock(t) \/ Upgrade(t) \/ UpgradeRefused(t)
             \/ WriteLock(t) \/ ReadForWrite(t) \/ SetWriter(t) \/ Drain(t) \/ WriteUnlock(t)
      PROVE  UpgradingBit'
  <2>1. lock'.upgrading = lock.upgrading
    BY <1>1, <1>3
    DEF ReadLock, AwaitWriter, AwaitUnlocked, TentativeReadLock, Undo, ReadUnlock, Upgrade,
        UpgradeRefused, WriteLock, ReadForWrite, SetWriter, Drain, WriteUnlock, Free, Word
  <2>2. \A u \in Locker : Upgrading(u)' <=> Upgrading(u)
    BY <1>1, <1>3
    DEF ReadLock, AwaitWriter, AwaitUnlocked, TentativeReadLock, Undo, ReadUnlock, Upgrade,
        UpgradeRefused, WriteLock, ReadForWrite, SetWriter, Drain, WriteUnlock
  <2> QED
    BY <1>2, <2>1, <2>2
<1>4. ASSUME NEW t \in Locker, BecomeUpgrader(t) PROVE UpgradingBit'
  <2>1. CASE lock # seen[t]
    BY <1>1, <1>2, <1>4, <2>1 DEF BecomeUpgrader
  <2>2. CASE lock = seen[t]
    <3>1. lock.upgrading = 0
      BY <1>4, <2>2 DEF BecomeUpgrader, LockInv, ExpectedClear
    <3>2. lock'.upgrading = 1
      BY <1>1, <1>4, <2>2 DEF BecomeUpgrader, Word
    <3>3. \A u \in Locker : ~Upgrading(u)
      BY <1>2, <3>1
    <3>4. \A u \in Locker : Upgrading(u)' <=> u = t
      BY <1>1, <1>4, <2>2, <3>3 DEF BecomeUpgrader
    <3> QED
      BY <3>2, <3>4
  <2> QED
    BY <2>1, <2>2
<1>5. ASSUME NEW t \in Locker, BecomeWriter(t) PROVE UpgradingBit'
  <2>1. \A u \in Locker : Upgrading(u) <=> u = t
    BY <1>2, <1>5 DEF BecomeWriter
  <2>2. lock'.upgrading = 0
    BY <1>5 DEF BecomeWriter, Free
  <2>3. \A u \in Locker : ~Upgrading(u)'
    BY <1>1, <1>5, <2>1 DEF BecomeWriter
  <2> QED
    BY <2>2, <2>3
<1>6. CASE UNCHANGED lockVars
  BY <1>2, <1>6 DEF lockVars
<1> QED
  BY <1>3, <1>4, <1>5, <1>6 DEF LockNext, LockStep

(* A thread computes the word that its CAS expects from one without the    *)
(* bit.                                                                    *)
LEMMA ExpectedClearStep ==
  ASSUME LockInv, [LockNext]_lockVars
  PROVE  ExpectedClear'
<1> USE DEF LockInv, TypeOK, ExpectedClear, Move
<1>1. ASSUME NEW t \in Locker,
             \/ ReadLock(t) \/ AwaitWriter(t) \/ AwaitUnlocked(t) \/ TentativeReadLock(t)
             \/ Undo(t) \/ ReadUnlock(t) \/ UpgradeRefused(t) \/ BecomeWriter(t)
             \/ WriteLock(t) \/ Drain(t) \/ WriteUnlock(t)
      PROVE  ExpectedClear'
  BY <1>1
  DEF ReadLock, AwaitWriter, AwaitUnlocked, TentativeReadLock, Undo, ReadUnlock,
      UpgradeRefused, BecomeWriter, WriteLock, Drain, WriteUnlock
<1>2. ASSUME NEW t \in Locker, Upgrade(t) PROVE ExpectedClear'
  BY <1>2 DEF Upgrade, Word
<1>3. ASSUME NEW t \in Locker, BecomeUpgrader(t) \/ SetWriter(t) PROVE ExpectedClear'
  BY <1>3 DEF BecomeUpgrader, SetWriter
<1>4. ASSUME NEW t \in Locker, ReadForWrite(t) PROVE ExpectedClear'
  BY <1>4 DEF ReadForWrite, Word
<1>5. CASE UNCHANGED lockVars
  BY <1>5 DEF lockVars
<1> QED
  BY <1>1, <1>2, <1>3, <1>4, <1>5 DEF LockNext, LockStep

(* With a writer the bit is set, without readers the count is zero: a      *)
(* thread that begins to write finds no other within, and no thread can    *)
(* join it.                                                                *)
LEMMA WriterKeepsOutStep ==
  ASSUME LockInv, [LockNext]_lockVars, IsFiniteSet(Locker)
  PROVE  WriterKeepsOut'
<1>1. /\ lpc \in [Locker -> Stage]
      /\ lock \in Word
      /\ WriterKeepsOut
  BY DEF LockInv, TypeOK
<1>2. lock.readers = 0 => \A u \in Locker : ~Counted(u)
  <2>1. IsFiniteSet(CountedReaders)
    BY FS_Subset DEF CountedReaders
  <2> QED
    BY <2>1, FS_EmptySet DEF LockInv, ReadersCounted, CountedReaders
<1>3. \A u \in Locker : lpc[u] = "writing" => lock.writer = 1
  BY DEF LockInv, WriterBit, Writing
<1>4. \A u \in Locker : Upgrading(u) => lock.upgrading = 1
  BY DEF LockInv, UpgradingBit
<1> USE DEF WriterKeepsOut, Reading, Upgrading, Move
<1>5. ASSUME NEW t \in Locker,
             \/ ReadLock(t) \/ AwaitUnlocked(t) \/ Undo(t) \/ ReadUnlock(t) \/ Upgrade(t)
             \/ UpgradeRefused(t) \/ ReadForWrite(t) \/ SetWriter(t) \/ WriteUnlock(t)
      PROVE  WriterKeepsOut'
  BY <1>1, <1>5
  DEF ReadLock, AwaitUnlocked, Undo, ReadUnlock, Upgrade, UpgradeRefused, ReadForWrite,
      SetWriter, WriteUnlock
<1>6. ASSUME NEW t \in Locker, AwaitWriter(t) \/ TentativeReadLock(t) PROVE WriterKeepsOut'
  <2>1. CASE lock.writer = 0
    BY <1>1, <1>3, <1>6, <2>1 DEF AwaitWriter, TentativeReadLock
  <2>2. CASE lock.writer # 0
    BY <1>1, <1>6, <2>2 DEF AwaitWriter, TentativeReadLock
  <2> QED
    BY <2>1, <2>2
<1>7. ASSUME NEW t \in Locker, BecomeUpgrader(t) PROVE WriterKeepsOut'
  BY <1>1, <1>7 DEF BecomeUpgrader
<1>8. ASSUME NEW t \in Locker, BecomeWriter(t) PROVE WriterKeepsOut'
  <2>1. \A u \in Locker : ~Counted(u)
    BY <1>2, <1>8 DEF BecomeWriter, Free
  <2>2. \A u \in Locker : Upgrading(u) => u = t
    BY <1>8 DEF BecomeWriter, LockInv, UpgradingBit
  <2> QED
    BY <1>1, <1>8, <2>1, <2>2 DEF BecomeWriter, Counted
<1>9. ASSUME NEW t \in Locker, WriteLock(t) PROVE WriterKeepsOut'
  <2>1. \A u \in Locker : ~Counted(u) /\ ~Upgrading(u)
    BY <1>2, <1>4, <1>9 DEF WriteLock, Free
  <2> QED
    BY <1>1, <1>9, <2>1 DEF WriteLock, Counted
<1>10. ASSUME NEW t \in Locker, Drain(t) PROVE WriterKeepsOut'
  <2>1. \A u \in Locker : ~Counted(u)
    BY <1>2, <1>10 DEF Drain
  <2>2. \A u \in Locker : ~Upgrading(u)
    BY <1>10 DEF Drain, LockInv, Favouring
  <2> QED
    BY <1>1, <1>10, <2>1, <2>2 DEF Drain, Counted
<1>11. CASE UNCHANGED lockVars
  BY <1>1, <1>11 DEF lockVars
<1> QED
  BY <1>5, <1>6, <1>7, <1>8, <1>9, <1>10, <1>11 DEF LockNext, LockStep

(* The free lock counts nobody.                                            *)
LEMMA InitialInvariant ==
  ASSUME LockInit
  PROVE  LockInv
<1>1. TypeOK
  BY DEF LockInit, TypeOK, Free, Word, Stage
<1>2. ReadersCounted
  <2>1. CountedReaders = {}
    BY DEF LockInit, CountedReaders, Counted
  <2> QED
    BY <2>1, FS_EmptySet DEF LockInit, ReadersCounted, Free
<1> QED
  BY <1>1, <1>2
  DEF LockInit, LockInv, Favouring, WriterBit, Writing, UpgradingBit, Upgrading, ExpectedClear,
      WriterKeepsOut, Free

(* Every step of every thread preserves the invariant.                     *)
LEMMA StepInvariant ==
  ASSUME LockInv, [LockNext]_lockVars, IsFiniteSet(Locker)
  PROVE  LockInv'
BY TypeStep, FavouringStep, ReadersCountedStep, WriterBitStep, UpgradingBitStep,
   ExpectedClearStep, WriterKeepsOutStep
DEF LockInv

(* The word counts the readers within, and its bits stand for one thread   *)
(* each, in every reachable state.                                         *)
THEOREM LockInvariance ==
  ASSUME IsFiniteSet(Locker)
  PROVE  LockSpec => []LockInv
<1>1. LockInit => LockInv
  BY InitialInvariant
<1>2. LockInv /\ [LockNext]_lockVars => LockInv'
  BY StepInvariant
<1> QED
  BY <1>1, <1>2, PTL DEF LockSpec

-----------------------------------------------------------------------------
(* A writer is alone: readLock, writeLock and upgradeLock let no reader and *)
(* no second writer in beside it, whichever the lock favours.              *)
THEOREM WriterIsAlone ==
  ASSUME IsFiniteSet(Locker)
  PROVE  LockSpec => []WriterAlone
<1>1. LockInv => WriterAlone
  BY DEF LockInv, WriterKeepsOut, WriterBit, Writing, WriterAlone
<1> QED
  BY <1>1, LockInvariance, PTL

(* While a reader becomes a writer no other thread begins to write, so     *)
(* that what it has read stays true.                                       *)
THEOREM UpgradeKeepsWritersOut ==
  ASSUME IsFiniteSet(Locker)
  PROVE  LockSpec => UpgradeKeepsOut
<1>1. LockInv /\ [LockNext]_lockVars => KeepsOut
  <2> SUFFICES ASSUME LockInv, [LockNext]_lockVars,
                      NEW t \in Locker, lpc[t] = "upgrading",
                      NEW u \in Locker \ {t}, lpc'[u] = "writing"
               PROVE  FALSE
    BY DEF KeepsOut
  <2>1. /\ lpc \in [Locker -> Stage]
        /\ lock.upgrading = 1
        /\ lpc[u] # "writing"
        /\ ~Upgrading(u)
        /\ Favored = "readers"
    BY DEF LockInv, TypeOK, UpgradingBit, WriterKeepsOut, Upgrading, Favouring
  <2>2. PICK v \in Locker : LockStep(v)
    BY <2>1 DEF LockNext, lockVars
  <2>3. v = u /\ (BecomeWriter(u) \/ WriteLock(u) \/ Drain(u))
    BY <2>1, <2>2
    DEF LockStep, Move, ReadLock, AwaitWriter, AwaitUnlocked, TentativeReadLock, Undo, ReadUnlock,
        Upgrade, UpgradeRefused, BecomeUpgrader, BecomeWriter, WriteLock, ReadForWrite, SetWriter,
        Drain, WriteUnlock
  <2> QED
    BY <2>1, <2>3 DEF BecomeWriter, WriteLock, Drain, Move, Free, Upgrading, LockInv, Favouring
<1> QED
  BY <1>1, LockInvariance, PTL DEF LockSpec, UpgradeKeepsOut

-----------------------------------------------------------------------------
(* Userspace RCU.                                                          *)

RcuStage == {"idle", "reading", "read", "wait", "return"}

RcuTypeOK ==
  /\ time \in [Rcu!Thread -> Nat]
  /\ times \in [Rcu!Thread -> [Rcu!Thread -> Nat]]
  /\ next \in [Rcu!Thread -> Rcu!Thread]
  /\ pc \in [Rcu!Thread -> RcuStage]
  /\ before \in [Rcu!Thread -> SUBSET Rcu!Thread]

(* A thread's counter is even while it is in a section.                    *)
Parity == \A t \in Rcu!Thread : pc[t] = "reading" <=> Rcu!Reading(t)

(* The sections that synchronize has to wait for are still open.           *)
StillOpen == \A t \in Rcu!Thread : \A u \in before[t] : Rcu!Reading(u)

(* The loops begin with the first thread.                                  *)
FromFirst == \A t \in Rcu!Thread : pc[t] \notin {"read", "wait"} => next[t] = 1

(* What synchronize has read of a section that it has to wait for is what  *)
(* the counter still says.                                                 *)
Recorded ==
  \A t \in Rcu!Thread, u \in Rcu!Thread :
    /\ u \in before[t]
    /\ pc[t] = "wait" \/ (pc[t] = "read" /\ u < next[t])
    => times[t][u] = time[u]

(* Those that it has passed have ended, and outside of synchronize there   *)
(* is nothing to wait for.                                                 *)
Passed ==
  \A t \in Rcu!Thread, u \in Rcu!Thread :
    \/ pc[t] \notin {"read", "wait"}
    \/ pc[t] = "wait" /\ u < next[t]
    => u \notin before[t]

GraceInv == RcuTypeOK /\ Parity /\ StillOpen /\ FromFirst /\ Recorded /\ Passed

-----------------------------------------------------------------------------
(* The loops go through the threads in order, and end with the last.       *)
LEMMA NextThread ==
  ASSUME NumThreads \in Nat \ {0}, NEW n \in Rcu!Thread
  PROVE  /\ n = NumThreads => (n % NumThreads) + 1 = 1
         /\ n # NumThreads => (n % NumThreads) + 1 = n + 1 /\ n + 1 \in Rcu!Thread
BY DEF Rcu!Thread

(* So they stay with the threads.                                          *)
LEMMA Around ==
  ASSUME NumThreads \in Nat \ {0}, NEW n \in Rcu!Thread
  PROVE  (n % NumThreads) + 1 \in Rcu!Thread
BY NextThread DEF Rcu!Thread

(* A section begins at an even count and ends at an odd one.               *)
LEMMA ParityFlips ==
  ASSUME NEW n \in Nat
  PROVE  (n + 1) % 2 = 0 <=> n % 2 # 0
OBVIOUS

(* Every step is well typed.                                               *)
LEMMA RcuTypeStep ==
  ASSUME NumThreads \in Nat \ {0}, RcuTypeOK, [Rcu!Next]_Rcu!vars
  PROVE  RcuTypeOK'
<1> USE DEF RcuTypeOK, Rcu!Move
<1>1. ASSUME NEW t \in Rcu!Thread, Rcu!ReadLock(t) \/ Rcu!ReadUnlock(t) PROVE RcuTypeOK'
  <2>1. time' \in [Rcu!Thread -> Nat]
    <3>1. time[t] + 1 \in Nat
      OBVIOUS
    <3>2. time' = [time EXCEPT ![t] = time[t] + 1]
      BY <1>1 DEF Rcu!ReadLock, Rcu!ReadUnlock
    <3> QED
      BY <3>1, <3>2
  <2>2. pc' \in [Rcu!Thread -> RcuStage]
    BY <1>1 DEF Rcu!ReadLock, Rcu!ReadUnlock, RcuStage
  <2>3. before' \in [Rcu!Thread -> SUBSET Rcu!Thread]
    BY <1>1 DEF Rcu!ReadLock, Rcu!ReadUnlock
  <2> QED
    BY <1>1, <2>1, <2>2, <2>3 DEF Rcu!ReadLock, Rcu!ReadUnlock
<1>2. ASSUME NEW t \in Rcu!Thread, Rcu!Synchronize(t) \/ Rcu!Return(t) PROVE RcuTypeOK'
  <2>1. pc' \in [Rcu!Thread -> RcuStage]
    BY <1>2 DEF Rcu!Synchronize, Rcu!Return, RcuStage
  <2>2. before' \in [Rcu!Thread -> SUBSET Rcu!Thread]
    BY <1>2 DEF Rcu!Synchronize, Rcu!Return
  <2> QED
    BY <1>2, <2>1, <2>2 DEF Rcu!Synchronize, Rcu!Return
<1>3. ASSUME NEW t \in Rcu!Thread, Rcu!ReadTime(t) PROVE RcuTypeOK'
  <2>1. next' \in [Rcu!Thread -> Rcu!Thread]
    BY <1>3, Around DEF Rcu!ReadTime
  <2>2. pc' \in [Rcu!Thread -> RcuStage]
    BY <1>3 DEF Rcu!ReadTime, RcuStage
  <2>3. times' \in [Rcu!Thread -> [Rcu!Thread -> Nat]]
    BY <1>3 DEF Rcu!ReadTime
  <2> QED
    BY <1>3, <2>1, <2>2, <2>3 DEF Rcu!ReadTime
<1>4. ASSUME NEW t \in Rcu!Thread, Rcu!Wait(t) PROVE RcuTypeOK'
  <2>1. next' \in [Rcu!Thread -> Rcu!Thread]
    BY <1>4, Around DEF Rcu!Wait
  <2>2. pc' \in [Rcu!Thread -> RcuStage]
    BY <1>4 DEF Rcu!Wait, RcuStage
  <2> QED
    BY <1>4, <2>1, <2>2 DEF Rcu!Wait
<1>5. CASE UNCHANGED Rcu!vars
  BY <1>5 DEF Rcu!vars
<1> QED
  BY <1>1, <1>2, <1>3, <1>4, <1>5 DEF Rcu!Next

(* The counter and the section change together.                            *)
LEMMA ParityStep ==
  ASSUME GraceInv, [Rcu!Next]_Rcu!vars
  PROVE  Parity'
<1> USE DEF GraceInv, RcuTypeOK, Parity, Rcu!Reading, Rcu!Move
<1>1. ASSUME NEW t \in Rcu!Thread, Rcu!ReadLock(t) \/ Rcu!ReadUnlock(t) PROVE Parity'
  <2>1. (time[t] + 1) % 2 = 0 <=> time[t] % 2 # 0
    BY ParityFlips
  <2> QED
    BY <1>1, <2>1 DEF Rcu!ReadLock, Rcu!ReadUnlock
<1>2. ASSUME NEW t \in Rcu!Thread, Rcu!Synchronize(t) \/ Rcu!ReadTime(t) \/ Rcu!Wait(t) \/ Rcu!Return(t) PROVE Parity'
  BY <1>2 DEF Rcu!Synchronize, Rcu!ReadTime, Rcu!Wait, Rcu!Return
<1>3. CASE UNCHANGED Rcu!vars
  BY <1>3 DEF Rcu!vars
<1> QED
  BY <1>1, <1>2, <1>3 DEF Rcu!Next

(* A section that ends is taken off everyone's list.                       *)
LEMMA StillOpenStep ==
  ASSUME GraceInv, [Rcu!Next]_Rcu!vars
  PROVE  StillOpen'
<1> USE DEF GraceInv, RcuTypeOK, StillOpen, Rcu!Reading, Rcu!Move
<1>1. ASSUME NEW t \in Rcu!Thread, Rcu!ReadLock(t) PROVE StillOpen'
  <2>1. ~Rcu!Reading(t)
    BY <1>1 DEF Rcu!ReadLock, Parity
  <2>2. \A u \in Rcu!Thread : u # t => time'[u] = time[u]
    BY <1>1 DEF Rcu!ReadLock
  <2> QED
    BY <1>1, <2>1, <2>2 DEF Rcu!ReadLock
<1>2. ASSUME NEW t \in Rcu!Thread, Rcu!ReadUnlock(t) PROVE StillOpen'
  <2>1. \A u \in Rcu!Thread : u # t => time'[u] = time[u]
    BY <1>2 DEF Rcu!ReadUnlock
  <2>2. \A u \in Rcu!Thread : before'[u] = before[u] \ {t}
    BY <1>2 DEF Rcu!ReadUnlock
  <2> QED
    BY <2>1, <2>2
<1>3. ASSUME NEW t \in Rcu!Thread, Rcu!Synchronize(t) PROVE StillOpen'
  BY <1>3 DEF Rcu!Synchronize
<1>4. ASSUME NEW t \in Rcu!Thread, Rcu!ReadTime(t) \/ Rcu!Wait(t) \/ Rcu!Return(t) PROVE StillOpen'
  BY <1>4 DEF Rcu!ReadTime, Rcu!Wait, Rcu!Return
<1>5. CASE UNCHANGED Rcu!vars
  BY <1>5 DEF Rcu!vars
<1> QED
  BY <1>1, <1>2, <1>3, <1>4, <1>5 DEF Rcu!Next

(* A loop that ends leaves the next one at the first thread.               *)
LEMMA FromFirstStep ==
  ASSUME NumThreads \in Nat \ {0}, GraceInv, [Rcu!Next]_Rcu!vars
  PROVE  FromFirst'
<1> USE DEF GraceInv, RcuTypeOK, FromFirst, Rcu!Move
<1>1. ASSUME NEW t \in Rcu!Thread, Rcu!ReadLock(t) \/ Rcu!ReadUnlock(t) \/ Rcu!Synchronize(t) \/ Rcu!Return(t)
      PROVE  FromFirst'
  BY <1>1 DEF Rcu!ReadLock, Rcu!ReadUnlock, Rcu!Synchronize, Rcu!Return
<1>2. ASSUME NEW t \in Rcu!Thread, Rcu!ReadTime(t) PROVE FromFirst'
  BY <1>2 DEF Rcu!ReadTime
<1>3. ASSUME NEW t \in Rcu!Thread, Rcu!Wait(t) PROVE FromFirst'
  <2>1. next[t] = NumThreads => next'[t] = 1
    BY <1>3, NextThread DEF Rcu!Wait
  <2> QED
    BY <1>3, <2>1 DEF Rcu!Wait
<1>4. CASE UNCHANGED Rcu!vars
  BY <1>4 DEF Rcu!vars
<1> QED
  BY <1>1, <1>2, <1>3, <1>4 DEF Rcu!Next

(* A counter that has been read does not change before its section ends.   *)
LEMMA RecordedStep ==
  ASSUME NumThreads \in Nat \ {0}, GraceInv, [Rcu!Next]_Rcu!vars
  PROVE  Recorded'
<1> USE DEF GraceInv, RcuTypeOK, Recorded, Rcu!Move
<1>0. Rcu!Thread \subseteq Nat
  BY DEF Rcu!Thread
<1>1. ASSUME NEW t \in Rcu!Thread, Rcu!ReadLock(t) PROVE Recorded'
  <2>1. \A u \in Rcu!Thread : t \notin before[u]
    BY <1>1 DEF Rcu!ReadLock, Parity, StillOpen
  <2>2. \A u \in Rcu!Thread : u # t => time'[u] = time[u]
    BY <1>1 DEF Rcu!ReadLock
  <2> QED
    BY <1>1, <2>1, <2>2 DEF Rcu!ReadLock
<1>2. ASSUME NEW t \in Rcu!Thread, Rcu!ReadUnlock(t) PROVE Recorded'
  <2>1. \A u \in Rcu!Thread : u # t => time'[u] = time[u]
    BY <1>2 DEF Rcu!ReadUnlock
  <2>2. \A u \in Rcu!Thread : before'[u] = before[u] \ {t}
    BY <1>2 DEF Rcu!ReadUnlock
  <2> QED
    BY <1>2, <2>1, <2>2 DEF Rcu!ReadUnlock
<1>3. ASSUME NEW t \in Rcu!Thread, Rcu!Synchronize(t) PROVE Recorded'
  <2>1. \A u \in Rcu!Thread : ~(u < 1)
    BY DEF Rcu!Thread
  <2> QED
    BY <1>3, <2>1 DEF Rcu!Synchronize, FromFirst
<1>4. ASSUME NEW t \in Rcu!Thread, Rcu!ReadTime(t) PROVE Recorded'
  <2> DEFINE n == next[t]
  <2>0. /\ n \in Rcu!Thread /\ n \in Nat
        /\ \A u \in Rcu!Thread : u \in Nat
    BY <1>0
  <2>1. /\ times'[t] = [times[t] EXCEPT ![n] = time[n]]
        /\ \A v \in Rcu!Thread : v # t => times'[v] = times[v] /\ next'[v] = next[v] /\ pc'[v] = pc[v]
        /\ UNCHANGED <<time, before>>
    BY <1>4 DEF Rcu!ReadTime
  <2>2. \A u \in Rcu!Thread : u # n => times'[t][u] = times[t][u]
    BY <2>1
  <2>3. times'[t][n] = time[n]
    BY <2>1
  <2>4. ASSUME NEW u \in Rcu!Thread, u \in before'[t], pc'[t] = "wait" \/ (pc'[t] = "read" /\ u < next'[t])
        PROVE  times'[t][u] = time'[u]
    <3>0. u \in Nat /\ n \in Nat
      BY <2>0
    <3>1. u <= n
      <4>1. CASE n = NumThreads
        BY <4>1, <2>0 DEF Rcu!Thread
      <4>2. CASE n # NumThreads
        <5>1. pc'[t] = "read" /\ next'[t] = n + 1
          BY <1>4, <4>2, NextThread DEF Rcu!ReadTime
        <5> QED
          BY <2>0, <2>4, <5>1
      <4> QED
        BY <4>1, <4>2
    <3>2. CASE u = n
      BY <2>1, <2>3, <3>2
    <3>3. CASE u # n
      <4>1. u < n
        BY <3>0, <3>1, <3>3
      <4> QED
        BY <1>4, <2>1, <2>2, <2>4, <3>3, <4>1 DEF Rcu!ReadTime
    <3> QED
      BY <3>2, <3>3
  <2> QED
    BY <2>1, <2>4
<1>5. ASSUME NEW t \in Rcu!Thread, Rcu!Wait(t) \/ Rcu!Return(t) PROVE Recorded'
  BY <1>5 DEF Rcu!Wait, Rcu!Return
<1>6. CASE UNCHANGED Rcu!vars
  BY <1>6 DEF Rcu!vars
<1> QED
  BY <1>1, <1>2, <1>3, <1>4, <1>5, <1>6 DEF Rcu!Next

(* wait does not pass an open section.                                     *)
LEMMA PassedStep ==
  ASSUME NumThreads \in Nat \ {0}, GraceInv, [Rcu!Next]_Rcu!vars
  PROVE  Passed'
<1> USE DEF GraceInv, RcuTypeOK, Passed, Rcu!Move
<1>0. Rcu!Thread \subseteq Nat
  BY DEF Rcu!Thread
<1>1. ASSUME NEW t \in Rcu!Thread, Rcu!ReadLock(t) \/ Rcu!Return(t) PROVE Passed'
  BY <1>1 DEF Rcu!ReadLock, Rcu!Return
<1>2. ASSUME NEW t \in Rcu!Thread, Rcu!ReadUnlock(t) PROVE Passed'
  <2>1. \A u \in Rcu!Thread : before'[u] = before[u] \ {t}
    BY <1>2 DEF Rcu!ReadUnlock
  <2> QED
    BY <1>2, <2>1 DEF Rcu!ReadUnlock
<1>3. ASSUME NEW t \in Rcu!Thread, Rcu!Synchronize(t) PROVE Passed'
  BY <1>3 DEF Rcu!Synchronize
<1>4. ASSUME NEW t \in Rcu!Thread, Rcu!ReadTime(t) PROVE Passed'
  <2>1. pc'[t] = "wait" => \A u \in Rcu!Thread : ~(u < next'[t])
    <3>1. \A u \in Rcu!Thread : ~(u < 1)
      BY DEF Rcu!Thread
    <3>2. pc'[t] = "wait" => next'[t] = 1
      BY <1>4, NextThread DEF Rcu!ReadTime
    <3> QED
      BY <3>1, <3>2
  <2>2. pc'[t] \in {"read", "wait"}
    BY <1>4 DEF Rcu!ReadTime
  <2> QED
    BY <1>4, <2>1, <2>2 DEF Rcu!ReadTime
<1>5. ASSUME NEW t \in Rcu!Thread, Rcu!Wait(t) PROVE Passed'
  <2> DEFINE n == next[t]
  <2>0. /\ n \in Rcu!Thread /\ n \in Nat
        /\ \A u \in Rcu!Thread : u \in Nat
    BY <1>0
  <2>1. n \notin before[t]
    <3> SUFFICES ASSUME n \in before[t] PROVE FALSE
      OBVIOUS
    <3>1. times[t][n] = time[n] /\ time[n] % 2 = 0
      BY <1>5 DEF Rcu!Wait, Recorded, StillOpen, Rcu!Reading
    <3>2. time[n] \in Nat /\ ~(time[n] > time[n])
      OBVIOUS
    <3> QED
      BY <1>5, <3>1, <3>2 DEF Rcu!Wait, Rcu!Passes
  <2>2. ASSUME NEW u \in Rcu!Thread, pc'[t] \notin {"read", "wait"} \/ (pc'[t] = "wait" /\ u < next'[t])
        PROVE  u \notin before[t]
    <3>0. u \in Nat /\ n \in Nat
      BY <2>0
    <3>1. u <= n
      <4>1. CASE n = NumThreads
        BY <4>1, <2>0 DEF Rcu!Thread
      <4>2. CASE n # NumThreads
        <5>1. pc'[t] = "wait" /\ next'[t] = n + 1
          BY <1>5, <4>2, NextThread DEF Rcu!Wait
        <5> QED
          BY <2>0, <2>2, <5>1
      <4> QED
        BY <4>1, <4>2
    <3> QED
      <4>1. u = n \/ u < n
        BY <3>0, <3>1
      <4> QED
        BY <1>5, <2>1, <4>1 DEF Rcu!Wait
  <2> QED
    BY <1>5, <2>2 DEF Rcu!Wait
<1>6. CASE UNCHANGED Rcu!vars
  BY <1>6 DEF Rcu!vars
<1> QED
  BY <1>1, <1>2, <1>3, <1>4, <1>5, <1>6 DEF Rcu!Next

(* All counters are odd, and nobody synchronizes.                          *)
LEMMA RcuInitialInvariant ==
  ASSUME NumThreads \in Nat \ {0}, Rcu!Init
  PROVE  GraceInv
<1>1. 1 \in Rcu!Thread
  BY DEF Rcu!Thread
<1>2. \A t \in Rcu!Thread : ~Rcu!Reading(t)
  BY DEF Rcu!Init, Rcu!Reading
<1> QED
  BY <1>1, <1>2 DEF Rcu!Init, GraceInv, RcuTypeOK, RcuStage, Parity, StillOpen, FromFirst, Recorded, Passed

(* What a waiting thread has read, and what it has passed, is tied to the  *)
(* sections that were open when it called synchronize.                     *)
THEOREM GraceInvariance ==
  ASSUME NumThreads \in Nat \ {0}
  PROVE  Rcu!Spec => []GraceInv
<1>1. Rcu!Init => GraceInv
  BY RcuInitialInvariant
<1>2. GraceInv /\ [Rcu!Next]_Rcu!vars => GraceInv'
  <2> SUFFICES ASSUME GraceInv, [Rcu!Next]_Rcu!vars PROVE GraceInv'
    OBVIOUS
  <2>1. RcuTypeOK
    BY DEF GraceInv
  <2> QED
    BY <2>1, RcuTypeStep, ParityStep, StillOpenStep, FromFirstStep, RecordedStep, PassedStep DEF GraceInv
<1> QED
  BY <1>1, <1>2, PTL DEF Rcu!Spec

(* When synchronize returns, every read-side section that was open when it *)
(* was called has ended, although the reads of the counters and the waits  *)
(* interleave with sections that end and begin.                            *)
THEOREM GracePeriodHolds ==
  ASSUME NumThreads \in Nat \ {0}
  PROVE  Rcu!Spec => []Rcu!GracePeriod
<1>1. GraceInv => Rcu!GracePeriod
  BY DEF GraceInv, RcuTypeOK, Passed, Rcu!GracePeriod
<1> QED
  BY <1>1, GraceInvariance, PTL
=============================================================================
