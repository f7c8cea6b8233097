--------------------------- MODULE WaitQueueProofs ---------------------------
(***************************************************************************)
(* For any number of readers and of reads: the thread of lesson 8 misses   *)
(* no wake-up and reports no event twice.                                  *)
(***************************************************************************)
EXTENDS WaitQueue, TLAPS

USE MaxReadsAssumption

\* Type correctness.
THEOREM TypeCorrect == Spec => []TypeOK
<1>1. Init => TypeOK
  <2> SUFFICES ASSUME Init PROVE TypeOK
    OBVIOUS
  <2>1. loaded \in BOOLEAN /\ waiting \in BOOLEAN /\ unreported \in BOOLEAN
    BY DEF Init
  <2>2. count \in Nat /\ reads \in Nat
    BY DEF Init
  <2>3. QED
    BY <2>1, <2>2 DEF Init, TypeOK
<1>2. TypeOK /\ [Next]_vars => TypeOK'
  <2> SUFFICES ASSUME TypeOK, [Next]_vars PROVE TypeOK'
    OBVIOUS
  <2> USE DEF TypeOK, thread, history
  <2>1. CASE Loop
    BY <2>1 DEF Loop
  <2>2. CASE Check
    BY <2>2 DEF Check
  <2>3. CASE Prepare
    BY <2>3 DEF Prepare
  <2>4. CASE Recheck
    BY <2>4 DEF Recheck
  <2>5. CASE Schedule
    BY <2>5 DEF Schedule
  <2>6. CASE TestFlag
    BY <2>6 DEF TestFlag
  <2>7. CASE Report
    <3>1. count' \in Nat
      BY <2>7 DEF Report
    <3>2. unreported' \in BOOLEAN
      BY <2>7 DEF Report
    <3>3. QED
      BY <2>7, <3>1, <3>2 DEF Report
  <2>8. CASE ClearFlag
    BY <2>8 DEF ClearFlag
  <2>9. ASSUME NEW u \in Users, SetFlag(u) PROVE TypeOK'
    BY <2>9 DEF SetFlag
  <2>10. ASSUME NEW u \in Users, WakeUp(u) PROVE TypeOK'
    BY <2>10 DEF WakeUp
  <2>11. CASE Exit
    BY <2>11 DEF Exit
  <2>12. CASE UNCHANGED vars
    BY <2>12 DEF vars
  <2>13. QED
    BY <2>1, <2>2, <2>3, <2>4, <2>5, <2>6, <2>7, <2>8, <2>9, <2>10, <2>11, <2>12 DEF Next, Thread
<1>3. QED
  BY <1>1, <1>2, PTL DEF Spec

\* The thread never sleeps on an event that nobody will wake it for, in
\* whatever order the readers' stores and wake-ups and the thread's looks at
\* the flag come.  The invariant is inductive as it stands: the second look,
\* after queueing, is what makes it so.
THEOREM WakeupNotMissed == Spec => []NoMissedWakeup
<1>1. Init => NoMissedWakeup
  BY DEF Init, NoMissedWakeup
<1>2. TypeOK /\ NoMissedWakeup /\ [Next]_vars => NoMissedWakeup'
  <2> SUFFICES ASSUME TypeOK, NoMissedWakeup, [Next]_vars PROVE NoMissedWakeup'
    OBVIOUS
  <2> USE DEF TypeOK, NoMissedWakeup, thread, history
  <2>1. CASE Loop
    BY <2>1 DEF Loop
  <2>2. CASE Check
    BY <2>2 DEF Check
  <2>3. CASE Prepare
    BY <2>3 DEF Prepare
  <2>4. CASE Recheck
    BY <2>4 DEF Recheck
  <2>5. CASE Schedule
    BY <2>5 DEF Schedule
  <2>6. CASE TestFlag
    BY <2>6 DEF TestFlag
  <2>7. CASE Report
    BY <2>7 DEF Report
  <2>8. CASE ClearFlag
    BY <2>8 DEF ClearFlag
  <2>9. ASSUME NEW u \in Users, SetFlag(u) PROVE NoMissedWakeup'
    BY <2>9 DEF SetFlag
  <2>10. ASSUME NEW u \in Users, WakeUp(u) PROVE NoMissedWakeup'
    BY <2>10 DEF WakeUp
  <2>11. CASE Exit
    BY <2>11 DEF Exit
  <2>12. CASE UNCHANGED vars
    BY <2>12 DEF vars
  <2>13. QED
    BY <2>1, <2>2, <2>3, <2>4, <2>5, <2>6, <2>7, <2>8, <2>9, <2>10, <2>11, <2>12 DEF Next, Thread
<1>3. QED
  BY <1>1, <1>2, TypeCorrect, PTL DEF Spec

\* The thread's count never exceeds the number of reads.
THEOREM NoSpuriousReport == Spec => []ReportsAreReads
<1>1. Init => ReportInv
  BY DEF Init, ReportInv
<1>2. TypeOK /\ ReportInv /\ [Next]_vars => ReportInv'
  <2> SUFFICES ASSUME TypeOK, ReportInv, [Next]_vars PROVE ReportInv'
    OBVIOUS
  <2> USE DEF TypeOK, ReportInv, thread, history
  <2>1. CASE Loop
    BY <2>1 DEF Loop
  <2>2. CASE Check
    BY <2>2 DEF Check
  <2>3. CASE Prepare
    BY <2>3 DEF Prepare
  <2>4. CASE Recheck
    BY <2>4 DEF Recheck
  <2>5. CASE Schedule
    BY <2>5 DEF Schedule
  <2>6. CASE TestFlag
    BY <2>6 DEF TestFlag
  <2>7. CASE Report
    BY <2>7 DEF Report
  <2>8. CASE ClearFlag
    BY <2>8 DEF ClearFlag
  <2>9. ASSUME NEW u \in Users, SetFlag(u) PROVE ReportInv'
    BY <2>9 DEF SetFlag
  <2>10. ASSUME NEW u \in Users, WakeUp(u) PROVE ReportInv'
    BY <2>10 DEF WakeUp
  <2>11. CASE Exit
    BY <2>11 DEF Exit
  <2>12. CASE UNCHANGED vars
    BY <2>12 DEF vars
  <2>13. QED
    BY <2>1, <2>2, <2>3, <2>4, <2>5, <2>6, <2>7, <2>8, <2>9, <2>10, <2>11, <2>12 DEF Next, Thread
<1>3. ReportInv => ReportsAreReads
  BY DEF ReportInv, ReportsAreReads
<1>4. QED
  BY <1>1, <1>2, <1>3, TypeCorrect, PTL DEF Spec
===============================================================================
