------------------------- MODULE LockedCounterProofs -------------------------
(***************************************************************************)
(* For any number of threads and of readers and any word size: under the   *)
(* lock nobody meets, no increment is lost and the log is in order unless  *)
(* the lock was made ready under a reader, which cannot happen to a lock   *)
(* that is ready from the start; and the exit function always leaves       *)
(* nothing running.                                                        *)
(***************************************************************************)
EXTENDS LockedCounter, TLAPS

USE ConstantsAssumption DEF Threads, Noted

LEMMA Wraps == \A n \in 0..W - 1 : (n + 1) % W \in 0..W - 1
OBVIOUS

\* The values that Init and Insmod start from have their types.
LEMMA Fresh ==
  /\ 0 \in 0..W - 1 /\ 1 \in 1..NumThreads + 1
  /\ [t \in Threads |-> 0] \in [Threads -> 0..W - 1]
  /\ [t \in Threads |-> FALSE] \in [Threads -> BOOLEAN]
  /\ [u \in Users |-> 0] \in [Users -> 0..W - 1]
<1>1. 0 \in 0..W - 1 /\ 1 \in 1..NumThreads + 1
  OBVIOUS
<1>2. QED
  BY <1>1

\* Type correctness, whatever becomes of the lock.
THEOREM TypeCorrect == Spec => []TypeOK
<1>1. Init => TypeOK
  <2> SUFFICES ASSUME Init PROVE TypeOK
    OBVIOUS
  <2>1. phase \in {"lock_init", "create"}
    BY DEF Init
  <2>2. torn \in BOOLEAN /\ locked \in BOOLEAN
    BY DEF Init
  <2>3. tpc \in [Threads -> Critical \cup {"none", "test", "lock", "sleep", "done"}]
    BY DEF Init
  <2>4. QED
    BY <2>1, <2>2, <2>3, Fresh DEF Init, TypeOK
<1>2. TypeOK /\ [Next]_vars => TypeOK'
  <2> SUFFICES ASSUME TypeOK, [Next]_vars PROVE TypeOK'
    OBVIOUS
  <2> USE DEF TypeOK, Critical, module, data, readers
  <2>1. CASE LockInit
    BY <2>1 DEF LockInit
  <2>2. CASE Create
    BY <2>2 DEF Create
  <2>3. CASE InitReturn
    BY <2>3 DEF InitReturn
  <2>4. CASE Rmmod
    BY <2>4 DEF Rmmod
  <2>5. CASE StopThread
    BY <2>5 DEF StopThread
  <2>6. CASE JoinThread
    BY <2>6 DEF JoinThread
  <2>7. CASE Insmod
    BY <2>7, Fresh DEF Insmod
  <2>8. ASSUME NEW t \in Threads, Test(t) PROVE TypeOK'
    BY <2>8 DEF Test
  <2>9. ASSUME NEW t \in Threads, Lock(t) PROVE TypeOK'
    BY <2>9 DEF Lock
  <2>10. ASSUME NEW t \in Threads, Load(t) PROVE TypeOK'
    BY <2>10 DEF Load
  <2>11. ASSUME NEW t \in Threads, Store(t) PROVE TypeOK'
    <3>1. reg[t] \in 0..W - 1 /\ turns[t] \in 0..W - 1
      OBVIOUS
    <3>2. (reg[t] + 1) % W \in 0..W - 1 /\ (turns[t] + 1) % W \in 0..W - 1
      BY <3>1, Wraps
    <3>3. value' \in 0..W - 1 /\ turns' \in [Threads -> 0..W - 1]
      BY <2>11, <3>2 DEF Store
    <3>4. QED
      BY <2>11, <3>3 DEF Store
  <2>12. ASSUME NEW t \in Threads, LogValue(t) PROVE TypeOK'
    BY <2>12 DEF LogValue
  <2>13. ASSUME NEW t \in Threads, Unlock(t) PROVE TypeOK'
    BY <2>13 DEF Unlock
  <2>14. ASSUME NEW t \in Threads, Sleep(t) PROVE TypeOK'
    BY <2>14 DEF Sleep
  <2>15. ASSUME NEW u \in Users, ReadBegin(u) PROVE TypeOK'
    BY <2>15 DEF ReadBegin
  <2>16. ASSUME NEW u \in Users, ReadLock(u) PROVE TypeOK'
    BY <2>16 DEF ReadLock
  <2>17. ASSUME NEW u \in Users, ReadLoad(u) PROVE TypeOK'
    BY <2>17 DEF ReadLoad
  <2>18. ASSUME NEW u \in Users, ReadUnlock(u) PROVE TypeOK'
    BY <2>18 DEF ReadUnlock
  <2>19. ASSUME NEW u \in Users, ReadReturn(u) PROVE TypeOK'
    BY <2>19 DEF ReadReturn
  <2>20. ASSUME NEW u \in Users, ReadLost(u) PROVE TypeOK'
    BY <2>20 DEF ReadLost
  <2>21. CASE Confused
    BY <2>21 DEF Confused
  <2>22. CASE UNCHANGED vars
    BY <2>22 DEF vars
  <2>23. QED
    BY <2>1, <2>2, <2>3, <2>4, <2>5, <2>6, <2>7, <2>8, <2>9, <2>10, <2>11, <2>12, <2>13, <2>14, <2>15, <2>16, <2>17, <2>18, <2>19, <2>20,
       <2>21, <2>22
       DEF Next, Module, Thread, Reader
<1>3. QED
  BY <1>1, <1>2, PTL DEF Spec

-----------------------------------------------------------------------------
(* The inductive invariant. *)

Inv == TypeOK /\ LockInv /\ PhaseInv /\ CountInv

LEMMA InitInv == Init => LockInv /\ PhaseInv /\ CountInv
BY DEF Init, LockInv, PhaseInv, CountInv, MutualExclusion, InThread, InRead,
       Critical

\* One step per action; each conjunct on its own.
LEMMA NextInv ==
  ASSUME Inv, [Next]_vars
  PROVE  LockInv' /\ PhaseInv' /\ CountInv'
<1> USE DEF Inv, TypeOK, Critical, InThread, InRead, module, data, readers
<1>1. CASE LockInit
  <2>1. LockInv'
    BY <1>1 DEF LockInit, LockInv, MutualExclusion, PhaseInv
  <2>2. PhaseInv'
    BY <1>1 DEF LockInit, PhaseInv
  <2>3. CountInv'
    BY <1>1 DEF LockInit, CountInv, LockInv, MutualExclusion, PhaseInv
  <2>4. QED
    BY <2>1, <2>2, <2>3
<1>2. CASE Create
  <2>1. LockInv'
    BY <1>2 DEF Create, LockInv, MutualExclusion, PhaseInv
  <2>2. PhaseInv'
    BY <1>2 DEF Create, PhaseInv
  <2>3. CountInv'
    BY <1>2 DEF Create, CountInv, LockInv, MutualExclusion, PhaseInv
  <2>4. QED
    BY <2>1, <2>2, <2>3
<1>3. CASE InitReturn
  <2>1. LockInv'
    BY <1>3 DEF InitReturn, LockInv, MutualExclusion, PhaseInv
  <2>2. PhaseInv'
    BY <1>3 DEF InitReturn, PhaseInv
  <2>3. CountInv'
    BY <1>3 DEF InitReturn, CountInv, LockInv, MutualExclusion, PhaseInv
  <2>4. QED
    BY <2>1, <2>2, <2>3
<1>4. CASE Rmmod
  <2>1. LockInv'
    BY <1>4 DEF Rmmod, LockInv, MutualExclusion, PhaseInv
  <2>2. PhaseInv'
    BY <1>4 DEF Rmmod, PhaseInv
  <2>3. CountInv'
    BY <1>4 DEF Rmmod, CountInv, LockInv, MutualExclusion, PhaseInv
  <2>4. QED
    BY <2>1, <2>2, <2>3
<1>5. CASE StopThread
  <2>1. LockInv'
    BY <1>5 DEF StopThread, LockInv, MutualExclusion, PhaseInv
  <2>2. PhaseInv'
    BY <1>5 DEF StopThread, PhaseInv
  <2>3. CountInv'
    BY <1>5 DEF StopThread, CountInv, LockInv, MutualExclusion, PhaseInv
  <2>4. QED
    BY <2>1, <2>2, <2>3
<1>6. CASE JoinThread
  <2>1. LockInv'
    BY <1>6 DEF JoinThread, LockInv, MutualExclusion, PhaseInv
  <2>2. PhaseInv'
    BY <1>6 DEF JoinThread, PhaseInv
  <2>3. CountInv'
    BY <1>6 DEF JoinThread, CountInv, LockInv, MutualExclusion, PhaseInv
  <2>4. QED
    BY <2>1, <2>2, <2>3
<1>7. CASE Insmod
  <2>1. LockInv'
    BY <1>7 DEF Insmod, LockInv, MutualExclusion, PhaseInv
  <2>2. PhaseInv'
    BY <1>7 DEF Insmod, PhaseInv
  <2>3. CountInv'
    BY <1>7 DEF Insmod, CountInv, LockInv, MutualExclusion, PhaseInv
  <2>4. QED
    BY <2>1, <2>2, <2>3
<1>8. ASSUME NEW t \in Threads, Test(t)
      PROVE  LockInv' /\ PhaseInv' /\ CountInv'
  <2>1. LockInv'
    BY <1>8 DEF Test, LockInv, MutualExclusion, PhaseInv
  <2>2. PhaseInv'
    BY <1>8 DEF Test, PhaseInv
  <2>3. CountInv'
    BY <1>8 DEF Test, CountInv, LockInv, MutualExclusion, PhaseInv
  <2>4. QED
    BY <2>1, <2>2, <2>3
<1>9. ASSUME NEW t \in Threads, Lock(t)
      PROVE  LockInv' /\ PhaseInv' /\ CountInv'
  <2>1. LockInv'
    BY <1>9 DEF Lock, LockInv, MutualExclusion, PhaseInv
  <2>2. PhaseInv'
    BY <1>9 DEF Lock, PhaseInv
  <2>3. CountInv'
    BY <1>9 DEF Lock, CountInv, LockInv, MutualExclusion, PhaseInv
  <2>4. QED
    BY <2>1, <2>2, <2>3
<1>10. ASSUME NEW t \in Threads, Load(t)
      PROVE  LockInv' /\ PhaseInv' /\ CountInv'
  <2>1. LockInv'
    BY <1>10 DEF Load, LockInv, MutualExclusion, PhaseInv
  <2>2. PhaseInv'
    BY <1>10 DEF Load, PhaseInv
  <2>3. CountInv'
    BY <1>10 DEF Load, CountInv, LockInv, MutualExclusion, PhaseInv
  <2>4. QED
    BY <2>1, <2>2, <2>3
<1>11. ASSUME NEW t \in Threads, Store(t)
      PROVE  LockInv' /\ PhaseInv' /\ CountInv'
  <2>1. LockInv'
    BY <1>11 DEF Store, LockInv, MutualExclusion, PhaseInv
  <2>2. PhaseInv'
    BY <1>11 DEF Store, PhaseInv
  <2>3. CountInv'
    BY <1>11 DEF Store, CountInv, LockInv, MutualExclusion, PhaseInv
  <2>4. QED
    BY <2>1, <2>2, <2>3
<1>12. ASSUME NEW t \in Threads, LogValue(t)
      PROVE  LockInv' /\ PhaseInv' /\ CountInv'
  <2>1. LockInv'
    BY <1>12 DEF LogValue, LockInv, MutualExclusion, PhaseInv
  <2>2. PhaseInv'
    BY <1>12 DEF LogValue, PhaseInv
  <2>3. CountInv'
    BY <1>12 DEF LogValue, CountInv, LockInv, MutualExclusion, PhaseInv
  <2>4. QED
    BY <2>1, <2>2, <2>3
<1>13. ASSUME NEW t \in Threads, Unlock(t)
      PROVE  LockInv' /\ PhaseInv' /\ CountInv'
  <2>1. LockInv'
    BY <1>13 DEF Unlock, LockInv, MutualExclusion, PhaseInv
  <2>2. PhaseInv'
    BY <1>13 DEF Unlock, PhaseInv
  <2>3. CountInv'
    BY <1>13 DEF Unlock, CountInv, LockInv, MutualExclusion, PhaseInv
  <2>4. QED
    BY <2>1, <2>2, <2>3
<1>14. ASSUME NEW t \in Threads, Sleep(t)
      PROVE  LockInv' /\ PhaseInv' /\ CountInv'
  <2>1. LockInv'
    BY <1>14 DEF Sleep, LockInv, MutualExclusion, PhaseInv
  <2>2. PhaseInv'
    BY <1>14 DEF Sleep, PhaseInv
  <2>3. CountInv'
    BY <1>14 DEF Sleep, CountInv, LockInv, MutualExclusion, PhaseInv
  <2>4. QED
    BY <2>1, <2>2, <2>3
<1>15. ASSUME NEW u \in Users, ReadBegin(u)
      PROVE  LockInv' /\ PhaseInv' /\ CountInv'
  <2>1. LockInv'
    BY <1>15 DEF ReadBegin, LockInv, MutualExclusion, PhaseInv
  <2>2. PhaseInv'
    BY <1>15 DEF ReadBegin, PhaseInv
  <2>3. CountInv'
    BY <1>15 DEF ReadBegin, CountInv, LockInv, MutualExclusion, PhaseInv
  <2>4. QED
    BY <2>1, <2>2, <2>3
<1>16. ASSUME NEW u \in Users, ReadLock(u)
      PROVE  LockInv' /\ PhaseInv' /\ CountInv'
  <2>1. LockInv'
    BY <1>16 DEF ReadLock, LockInv, MutualExclusion, PhaseInv
  <2>2. PhaseInv'
    BY <1>16 DEF ReadLock, PhaseInv
  <2>3. CountInv'
    BY <1>16 DEF ReadLock, CountInv, LockInv, MutualExclusion, PhaseInv
  <2>4. QED
    BY <2>1, <2>2, <2>3
<1>17. ASSUME NEW u \in Users, ReadLoad(u)
      PROVE  LockInv' /\ PhaseInv' /\ CountInv'
  <2>1. LockInv'
    BY <1>17 DEF ReadLoad, LockInv, MutualExclusion, PhaseInv
  <2>2. PhaseInv'
    BY <1>17 DEF ReadLoad, PhaseInv
  <2>3. CountInv'
    BY <1>17 DEF ReadLoad, CountInv, LockInv, MutualExclusion, PhaseInv
  <2>4. QED
    BY <2>1, <2>2, <2>3
<1>18. ASSUME NEW u \in Users, ReadUnlock(u)
      PROVE  LockInv' /\ PhaseInv' /\ CountInv'
  <2>1. LockInv'
    BY <1>18 DEF ReadUnlock, LockInv, MutualExclusion, PhaseInv
  <2>2. PhaseInv'
    BY <1>18 DEF ReadUnlock, PhaseInv
  <2>3. CountInv'
    BY <1>18 DEF ReadUnlock, CountInv, LockInv, MutualExclusion, PhaseInv
  <2>4. QED
    BY <2>1, <2>2, <2>3
<1>19. ASSUME NEW u \in Users, ReadReturn(u)
      PROVE  LockInv' /\ PhaseInv' /\ CountInv'
  <2>1. LockInv'
    BY <1>19 DEF ReadReturn, LockInv, MutualExclusion, PhaseInv
  <2>2. PhaseInv'
    BY <1>19 DEF ReadReturn, PhaseInv
  <2>3. CountInv'
    BY <1>19 DEF ReadReturn, CountInv, LockInv, MutualExclusion, PhaseInv
  <2>4. QED
    BY <2>1, <2>2, <2>3
<1>20. ASSUME NEW u \in Users, ReadLost(u)
      PROVE  LockInv' /\ PhaseInv' /\ CountInv'
  <2>1. LockInv'
    BY <1>20 DEF ReadLost, LockInv, MutualExclusion, PhaseInv
  <2>2. PhaseInv'
    BY <1>20 DEF ReadLost, PhaseInv
  <2>3. CountInv'
    BY <1>20 DEF ReadLost, CountInv, LockInv, MutualExclusion, PhaseInv
  <2>4. QED
    BY <2>1, <2>2, <2>3
<1>21. CASE Confused
  <2>1. LockInv'
    BY <1>21 DEF Confused, LockInv, MutualExclusion, PhaseInv
  <2>2. PhaseInv'
    BY <1>21 DEF Confused, PhaseInv
  <2>3. CountInv'
    BY <1>21 DEF Confused, CountInv, LockInv, MutualExclusion, PhaseInv
  <2>4. QED
    BY <2>1, <2>2, <2>3
<1>22. CASE UNCHANGED vars
  <2>1. LockInv'
    BY <1>22 DEF vars, LockInv, MutualExclusion, PhaseInv
  <2>2. PhaseInv'
    BY <1>22 DEF vars, PhaseInv
  <2>3. CountInv'
    BY <1>22 DEF vars, CountInv, LockInv, MutualExclusion, PhaseInv
  <2>4. QED
    BY <2>1, <2>2, <2>3
<1>23. QED
  BY <1>1, <1>2, <1>3, <1>4, <1>5, <1>6, <1>7, <1>8, <1>9, <1>10, <1>11, <1>12, <1>13, <1>14, <1>15, <1>16, <1>17, <1>18, <1>19, <1>20,
     <1>21, <1>22
     DEF Next, Module, Thread, Reader

LEMMA Invariance == Spec => []Inv
<1>1. Init => LockInv /\ PhaseInv /\ CountInv
  BY InitInv
<1>2. Inv /\ [Next]_vars => (LockInv /\ PhaseInv /\ CountInv)'
  BY NextInv
<1>3. Inv <=> TypeOK /\ LockInv /\ PhaseInv /\ CountInv
  BY DEF Inv
<1>4. QED
  BY <1>1, <1>2, <1>3, TypeCorrect, PTL DEF Spec

-----------------------------------------------------------------------------
\* No two threads, no two readers and no thread and reader are between lock
\* and unlock at once, however many there are, unless the lock was made ready
\* under a reader.
THEOREM Exclusion == Spec => []ExclusiveUnlessTorn
<1>1. Inv => ExclusiveUnlessTorn
  BY DEF Inv, LockInv, ExclusiveUnlessTorn
<1>2. QED
  BY <1>1, Invariance, PTL

\* A lock that is ready before the module's code runs, spinlock_static_ldd.c,
\* excludes without any exception.
THEOREM StaticExclusion ==
  ASSUME "lock_init" \notin Starts
  PROVE  Spec => []MutualExclusion
<1>1. Inv => MutualExclusion
  BY DEF Inv, LockInv, PhaseInv, TypeOK
<1>2. QED
  BY <1>1, Invariance, PTL

\* When the exit function has returned, every thread has left its function and
\* no file is open, also where the lock was made ready under a reader; where it
\* was not, the lock is free.
THEOREM CleanUnload == Spec => []NothingRunsUnloaded
<1>1. Inv => NothingRunsUnloaded
  BY DEF Inv, TypeOK, LockInv, PhaseInv, NothingRunsUnloaded, InThread, InRead,
         Critical
<1>2. QED
  BY <1>1, Invariance, PTL

\* The printed values follow each other in counting order.
THEOREM LogOrder == Spec => LogInOrder
<1> DEFINE InOrder ==
      \A t \in Threads :
        ~torn /\ tpc[t] = "print" /\ tpc'[t] # "print" =>
          logged' = (logged + 1) % W
<1>1. ASSUME Inv, [Next]_vars PROVE InOrder
  <2> SUFFICES ASSUME NEW t \in Threads, ~torn,
                      tpc[t] = "print", tpc'[t] # "print"
               PROVE  logged' = (logged + 1) % W
    OBVIOUS
  <2>1. value = (logged + 1) % W
    BY <1>1 DEF Inv, CountInv
  <2>2. LogValue(t)
    <3> USE <1>1 DEF Inv, TypeOK, Critical
    <3>1. CASE Module \/ Rmmod
      <4>1. CASE Create
        BY <4>1 DEF Create, PhaseInv
      <4>2. CASE ~Create
        BY <3>1, <4>2 DEF Module, LockInit, InitReturn, Rmmod, StopThread,
                          JoinThread
      <4>3. QED
        BY <4>1, <4>2
    <3>2. CASE Insmod
      BY <3>2 DEF Insmod, PhaseInv
    <3>3. ASSUME NEW s \in Threads, Thread(s) PROVE LogValue(t)
      BY <3>3 DEF Thread, Test, Lock, Load, Store, LogValue, Unlock, Sleep
    <3>4. ASSUME NEW u \in Users, ReadBegin(u) \/ ReadLost(u) \/ Reader(u)
          PROVE  LogValue(t)
      BY <3>4 DEF Reader, ReadBegin, ReadLost, ReadLock, ReadLoad, ReadUnlock,
                  ReadReturn
    <3>5. CASE Confused \/ UNCHANGED vars
      BY <3>5 DEF Confused, vars
    <3>6. QED
      BY <3>1, <3>2, <3>3, <3>4, <3>5 DEF Next
  <2>3. QED
    BY <2>1, <2>2 DEF LogValue
<1>2. Inv /\ [Next]_vars => [InOrder]_vars
  BY <1>1
<1>3. QED
  BY <1>2, Invariance, PTL DEF Spec, LogInOrder

(* Refinement.  Four kinds of step touch what the counter shows. *)

\* While the promise holds, a store is one whole turn: nobody else has counted
\* since the load.
LEMMA StoreTurns ==
  ASSUME Inv, ~torn, NEW t \in Threads, Store(t)
  PROVE  Counter!Turn(t)
<1> value' = (value + 1) % W
  BY DEF Store, Inv, CountInv
<1> QED
  BY DEF Store, Counter!Turn, module, readers

\* The load of a reader is the instant at which its read happens.
LEMMA LoadReads ==
  ASSUME ~torn, NEW u \in Users, ReadLoad(u)
  PROVE  Counter!Read(u)
BY DEF ReadLoad, Counter!Read, module, data

\* Making the lock ready ends the promise if there is a reader, and is not
\* seen otherwise.
LEMMA LockInitBreaks ==
  ASSUME TypeOK, ~torn, LockInit
  PROVE  Counter!Break \/ UNCHANGED Counter!vars
BY DEF LockInit, TypeOK, Counter!Break, Counter!vars, data, readers

\* insmod starts the counter afresh.
LEMMA InsmodReloads == Insmod => Counter!Reload
BY DEF Insmod, Counter!Reload, readers

\* What the counter shows is left alone by all the others: the rest of init
\* and exit, the lock, a thread's load and its line in the log, and opening,
\* formatting and closing.
LEMMA OthersStutter ==
  ASSUME [Next]_vars, ~Insmod, ~LockInit,
         \A t \in Threads : ~Store(t), \A u \in Users : ~ReadLoad(u)
  PROVE  UNCHANGED Counter!vars
<1> USE DEF Counter!vars, module, data, readers
<1>stutter. Confused \/ UNCHANGED vars => UNCHANGED Counter!vars
  BY DEF Confused, vars
<1>module. Module \/ Rmmod => UNCHANGED Counter!vars
  BY DEF Module, Create, InitReturn, Rmmod, StopThread, JoinThread
<1>thread. ASSUME NEW t \in Threads, Thread(t)
           PROVE  UNCHANGED Counter!vars
  BY <1>thread DEF Thread, Test, Lock, Load, LogValue, Unlock, Sleep
<1>reader. ASSUME NEW u \in Users, ReadBegin(u) \/ ReadLost(u) \/ Reader(u)
           PROVE  UNCHANGED Counter!vars
  BY <1>reader DEF Reader, ReadBegin, ReadLost, ReadLock, ReadUnlock, ReadReturn
<1> QED
  BY <1>stutter, <1>module, <1>thread, <1>reader DEF Next

\* A promise that is void stays so until the next load: nobody but insmod and
\* the lock's initialisation, which comes first, touches torn.
LEMMA StaysBroken ==
  ASSUME Inv, torn, [Next]_vars, ~Insmod
  PROVE  Counter!Broken \/ Counter!Break \/ UNCHANGED Counter!vars
<1> USE DEF Counter!Broken, module
<1>module. CASE Module \/ Rmmod
  <2>1. ~LockInit
    BY DEF Inv, PhaseInv, LockInit
  <2> QED
    BY <1>module, <2>1
       DEF Module, Create, InitReturn, Rmmod, StopThread, JoinThread
<1>thread. ASSUME NEW t \in Threads, Thread(t)
           PROVE  Counter!Broken
  BY <1>thread DEF Thread, Test, Lock, Load, Store, LogValue, Unlock, Sleep
<1>reader. ASSUME NEW u \in Users, ReadBegin(u) \/ ReadLost(u) \/ Reader(u)
           PROVE  Counter!Broken
  BY <1>reader DEF Reader, ReadBegin, ReadLost, ReadLock, ReadLoad, ReadUnlock,
                   ReadReturn
<1>confused. Confused => Counter!Broken
  BY DEF Confused
<1> QED
  BY <1>module, <1>thread, <1>reader, <1>confused DEF Next, vars

\* Refinement: the threads' loads and stores under the lock implement the
\* counter that adds one in a single step, the store, until a lock that is
\* made ready under a reader ends the promise.
THEOREM Refinement == Spec => Implements
<1>start. Init => Counter!Init
  BY DEF Init, Counter!Init
<1>step. Inv /\ [Next]_vars => [Counter!Next]_(Counter!vars)
  <2> SUFFICES ASSUME Inv, [Next]_vars, ~UNCHANGED Counter!vars
               PROVE  Counter!Next
    OBVIOUS
  <2>touch. \/ Insmod \/ LockInit
            \/ \E t \in Threads : Store(t)
            \/ \E u \in Users : ReadLoad(u)
    BY OthersStutter
  <2>void. torn /\ ~Insmod => Counter!Broken \/ Counter!Break
    BY StaysBroken
  <2> QED
    BY <2>touch, <2>void, InsmodReloads, LockInitBreaks, StoreTurns, LoadReads
       DEF Counter!Next, Inv
<1> QED
  BY <1>start, <1>step, Invariance, PTL DEF Spec, Implements, Counter!Spec

===============================================================================
