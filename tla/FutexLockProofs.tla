-------------------------- MODULE FutexLockProofs ---------------------------
(***************************************************************************)
(* Proofs about the futex lock (locks.h) for any set of threads: no        *)
(* wake-up is lost, and the lock is an atomic lock.                        *)
(***************************************************************************)
EXTENDS FutexLock, TLAPS

(* The word is 0 exactly while nobody has the lock, and a release under way *)
(* is the only one and finds the lock taken.                                *)
WordMatches ==
    /\ owner = NoOne <=> word = 0
    /\ \A t \in Threads : pc[t] \in Unlocking => owner # NoOne
    /\ \A t, u \in Threads : pc[t] \in Unlocking /\ pc[u] \in Unlocking => t = u

LockInv == TypeOK /\ WordMatches /\ NoLostWakeup

USE DEF Calling, Unlocking, Places

(* Every step keeps the types. *)
LEMMA TypeStep == TypeOK /\ WordMatches /\ [Next]_vars => TypeOK'
<1> SUFFICES ASSUME TypeOK, WordMatches, [Next]_vars
             PROVE  TypeOK'
  OBVIOUS
<1>1. CASE UNCHANGED vars
  BY <1>1 DEF TypeOK, vars
<1>2. ASSUME NEW t \in Threads, lock(t) \/ unlock(t) \/ wait(t) \/ interrupted(t)
      PROVE  TypeOK'
  BY <1>2 DEF TypeOK, lock, unlock, wait, interrupted, Goto
<1>3. ASSUME NEW t \in Threads, spin(t) \/ block(t) \/ again(t)
      PROVE  TypeOK'
  BY <1>3 DEF TypeOK, spin, block, again, Taken, Goto
<1>4. ASSUME NEW t \in Threads, release(t) \/ store(t)
      PROVE  TypeOK'
  BY <1>4 DEF TypeOK, WordMatches, release, store, Goto
<1>5. ASSUME NEW t \in Threads, wake(t)
      PROVE  TypeOK'
  BY <1>5 DEF TypeOK, wake, Goto
<1>6. QED
  BY <1>1, <1>2, <1>3, <1>4, <1>5 DEF Next, Step

(* Every step keeps the word in agreement with the owner. *)
LEMMA WordStep == TypeOK /\ WordMatches /\ [Next]_vars => WordMatches'
<1> SUFFICES ASSUME TypeOK, WordMatches, [Next]_vars
             PROVE  WordMatches'
  OBVIOUS
<1> USE NoOneIsNoThread
<1>1. CASE UNCHANGED vars
  BY <1>1 DEF WordMatches, vars
<1>2. ASSUME NEW t \in Threads, lock(t) \/ wait(t) \/ interrupted(t)
      PROVE  WordMatches'
  BY <1>2 DEF TypeOK, WordMatches, lock, wait, interrupted, Goto
<1>3. ASSUME NEW t \in Threads, unlock(t)
      PROVE  WordMatches'
  BY <1>3 DEF TypeOK, WordMatches, unlock, Goto
<1>4. ASSUME NEW t \in Threads, spin(t) \/ block(t) \/ again(t)
      PROVE  WordMatches'
  BY <1>4 DEF TypeOK, WordMatches, spin, block, again, Taken, Goto
<1>5. ASSUME NEW t \in Threads, release(t) \/ store(t)
      PROVE  WordMatches'
  BY <1>5 DEF TypeOK, WordMatches, release, store, Goto
<1>6. ASSUME NEW t \in Threads, wake(t)
      PROVE  WordMatches'
  BY <1>6 DEF TypeOK, WordMatches, wake, Goto
<1>7. QED
  BY <1>1, <1>2, <1>3, <1>4, <1>5, <1>6 DEF Next, Step

(* No step loses a wake-up. *)
LEMMA WakeupStep == LockInv /\ [Next]_vars => NoLostWakeup'
<1> SUFFICES ASSUME LockInv, [Next]_vars
             PROVE  NoLostWakeup'
  OBVIOUS
<1> USE DEF LockInv, TypeOK, NoLostWakeup
<1>1. CASE UNCHANGED vars
  BY <1>1 DEF vars
<1>2. ASSUME NEW t \in Threads, lock(t) \/ unlock(t)
      PROVE  NoLostWakeup'
  BY <1>2 DEF lock, unlock, Goto
<1>3. ASSUME NEW t \in Threads, spin(t)
      PROVE  NoLostWakeup'
  BY <1>3 DEF spin, Taken, Goto
<1>4. ASSUME NEW t \in Threads, block(t) \/ again(t)
      PROVE  NoLostWakeup'
  BY <1>4 DEF block, again, Taken, Goto
<1>5. ASSUME NEW t \in Threads, wait(t) \/ interrupted(t)
      PROVE  NoLostWakeup'
  BY <1>5 DEF wait, interrupted, Goto
<1>6. ASSUME NEW t \in Threads, release(t)
      PROVE  NoLostWakeup'
  BY <1>6 DEF WordMatches, release, Goto
<1>7. ASSUME NEW t \in Threads, store(t)
      PROVE  NoLostWakeup'
  BY <1>7 DEF store, Goto
<1>8. ASSUME NEW t \in Threads, wake(t)
      PROVE  NoLostWakeup'
  BY <1>8 DEF wake, Goto
<1>9. QED
  BY <1>1, <1>2, <1>3, <1>4, <1>5, <1>6, <1>7, <1>8 DEF Next, Step

(* The invariant is inductive: the wake-up that is due is never forgotten,  *)
(* because the release that finds the word at 1 knows of a woken thread.    *)
THEOREM LockInvariance == Spec => []LockInv
<1>1. Init => LockInv
  BY NoOneIsNoThread DEF Init, LockInv, TypeOK, WordMatches, NoLostWakeup
<1>2. LockInv /\ [Next]_vars => LockInv'
  BY TypeStep, WordStep, WakeupStep DEF LockInv
<1>3. QED
  BY <1>1, <1>2, PTL DEF Spec

(* No thread is left asleep in futex_lock with nobody bound to wake it,     *)
(* whatever the number of threads.                                          *)
THEOREM WakeupsNotLost == Spec => []NoLostWakeup
BY LockInvariance, PTL DEF LockInv

-----------------------------------------------------------------------------
(* Every step is a step of the atomic lock or leaves it alone. *)
LEMMA RefinementStep == LockInv /\ [Next]_vars => [AL!Next]_(AL!lockVars)
<1> SUFFICES ASSUME LockInv, [Next]_vars
             PROVE  [AL!Next]_(AL!lockVars)
  OBVIOUS
<1> USE NoOneIsNoThread DEF LockInv, TypeOK
<1>1. CASE UNCHANGED vars
  BY <1>1 DEF vars, AL!lockVars, Waiting
<1>2. ASSUME NEW t \in Threads, lock(t)
      PROVE  AL!Request(t)
  BY <1>2 DEF lock, Goto, AL!Request, Waiting
<1>3. ASSUME NEW t \in Threads, unlock(t) \/ wait(t) \/ interrupted(t) \/ wake(t)
      PROVE  UNCHANGED AL!lockVars
  BY <1>3 DEF unlock, wait, interrupted, wake, Goto, AL!lockVars, Waiting
<1>4. ASSUME NEW t \in Threads, spin(t) \/ block(t) \/ again(t)
      PROVE  AL!Acquire(t) \/ AL!GiveUp(t) \/ UNCHANGED AL!lockVars
  <2>1. CASE word = 0
    <3>1. owner = NoOne /\ owner' = t /\ t \in Waiting
      BY <1>4, <2>1 DEF WordMatches, spin, block, again, Taken, Goto, Waiting
    <3>2. Waiting' = Waiting \ {t}
      BY <1>4, <2>1 DEF spin, block, again, Taken, Goto, Waiting
    <3>3. QED
      BY <3>1, <3>2 DEF AL!Acquire
  <2>2. CASE word # 0
    <3>1. owner # NoOne /\ owner' = owner /\ t \in Waiting
      BY <1>4, <2>2 DEF WordMatches, spin, block, again, Taken, Goto, Waiting
    <3>2. Waiting' = Waiting \/ Waiting' = Waiting \ {t}
      BY <1>4, <2>2 DEF spin, block, again, Taken, Goto, Waiting
    <3>3. QED
      BY <3>1, <3>2 DEF AL!GiveUp, AL!lockVars
  <2>3. QED
    BY <2>1, <2>2
<1>5. ASSUME NEW t \in Threads, release(t) \/ store(t)
      PROVE  AL!Release \/ UNCHANGED AL!lockVars
  <2>1. Waiting' = Waiting
    BY <1>5 DEF release, store, Goto, Waiting
  <2>2. owner # NoOne /\ owner' \in {owner, NoOne}
    BY <1>5 DEF WordMatches, release, store
  <2>3. QED
    BY <2>1, <2>2 DEF AL!Release, AL!lockVars
<1>6. QED
  BY <1>1, <1>2, <1>3, <1>4, <1>5 DEF Next, Step, AL!Next

(* The futex lock implements the atomic lock for any number of threads:     *)
(* futex_lock returns only when nobody has the lock.                        *)
THEOREM FutexLockImplementsLock == Spec => ImplementsLock
<1>1. Init => AL!Init
  BY DEF Init, AL!Init, Waiting
<1>2. QED
  BY <1>1, RefinementStep, LockInvariance, PTL DEF Spec, ImplementsLock, AL!Spec
=============================================================================
