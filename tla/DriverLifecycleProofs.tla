------------------------ MODULE DriverLifecycleProofs ------------------------
(***************************************************************************)
(* For any set of driver tables and of users: the type invariant, what the *)
(* reference count guarantees, and that the audits of a table's text       *)
(* (Ready, Covering, Safe, Ordered, Reported, Reloadable) are enough for   *)
(* the behaviours: for handlers that find what they use, for ways out that *)
(* leave nothing unknown behind, release nothing twice and take dependents *)
(* first, for threads that exist when they are reported, and for a next    *)
(* load that can succeed.  The second part proves that the tables of the   *)
(* lessons pass the audits, but for the exceptions MCDriverLifecycle lists.*)
(***************************************************************************)
EXTENDS MCDriverLifecycle, SequenceTheorems, TLAPS

\* What IsDriver says of the pieces of a table, one fact per use.
LEMMA TableShape ==
  ASSUME NEW d, IsDriver(d)
  PROVE  /\ Len(d.init) \in Nat
         /\ \A i \in 1..Len(d.init) :
              /\ d.init[i].get \in STRING
              /\ Target(d, d.init[i].err) \in 1..Len(d.unwind) + 1
         /\ Cleanup(d) \in Seq(STRING)
         /\ Len(Cleanup(d)) = Len(d.unwind)
         /\ d.exit \in Seq(STRING)
<1>1. /\ d.init \in Seq([get : STRING, err : STRING])
      /\ d.unwind \in Seq([at : STRING, put : STRING])
      /\ d.exit \in Seq(STRING)
      /\ \A i \in 1..Len(d.init) :
           Target(d, d.init[i].err) \in 1..Len(d.unwind) + 1
  BY DEF IsDriver
<1>2. ASSUME NEW i \in 1..Len(d.init) PROVE d.init[i].get \in STRING
  <2>1. d.init[i] \in [get : STRING, err : STRING]
    BY <1>1, ElementOfSeq
  <2>2. QED
    BY <2>1
<1>3. ASSUME NEW k \in 1..Len(d.unwind) PROVE d.unwind[k].put \in STRING
  <2>1. d.unwind[k] \in [at : STRING, put : STRING]
    BY <1>1, ElementOfSeq
  <2>2. QED
    BY <2>1
<1>4. Len(d.unwind) \in Nat
  BY <1>1
<1>5. Cleanup(d) \in [1..Len(d.unwind) -> STRING]
  BY <1>3 DEF Cleanup
<1>6. Cleanup(d) \in Seq(STRING) /\ Len(Cleanup(d)) = Len(d.unwind)
  BY <1>4, <1>5
<1>7. QED
  BY <1>1, <1>2, <1>6

\* The list being worked off is a list of resources, whatever the phase.
LEMMA TodoShape ==
  ASSUME IsDriver(drv)
  PROVE  Todo \in Seq(STRING) /\ Len(Todo) \in Nat
BY TableShape DEF Todo

\* A behaviour is about one driver.
LEMMA DriverFixed == [Next]_vars => drv' = drv
BY DEF Next, Module, Environment, Insmod, InitStep, InitFail, InitReturn, Rmmod,
       ReleaseStep, Unloaded, Open, Enter, Leave, Close, IrqEnter, IrqReturn, vars

-----------------------------------------------------------------------------
\* Type correctness.  It is inductive because every jump of an init function
\* lands in its list of clean-up statements.
THEOREM TypeCorrect == Spec => []TypeOK
<1>1. Init => TypeOK
  <2> SUFFICES ASSUME Init PROVE TypeOK
    OBVIOUS
  <2>1. held \in SUBSET STRING /\ inCall \in SUBSET fds /\ fds \in SUBSET Users
    BY DEF Init
  <2>2. pc \in Nat \ {0}
    BY DEF Init
  <2>3. irqBusy \in BOOLEAN
    BY DEF Init
  <2>4. QED
    BY <2>1, <2>2, <2>3 DEF Init, TypeOK
<1>2. TypeOK /\ [Next]_vars => TypeOK'
  <2> SUFFICES ASSUME TypeOK, [Next]_vars PROVE TypeOK'
    OBVIOUS
  <2> USE DEF TypeOK
  <2>d. IsDriver(drv)
    BY DriversAssumption
  <2>1. CASE Insmod
    BY <2>1 DEF Insmod
  <2>2. CASE InitStep
    <3>1. drv.init[pc].get \in STRING
      BY <2>2, <2>d, TableShape DEF InitStep
    <3>2. held' \in SUBSET STRING
      BY <2>2, <3>1 DEF InitStep
    <3>3. QED
      BY <2>2, <3>2 DEF InitStep
  <2>3. CASE InitFail
    <3>1. Target(drv, drv.init[pc].err) \in Nat \ {0}
      BY <2>3, <2>d, TableShape DEF InitFail
    <3>2. pc' \in Nat \ {0}
      BY <2>3, <3>1 DEF InitFail
    <3>3. QED
      BY <2>3, <3>2 DEF InitFail
  <2>4. CASE InitReturn
    BY <2>4 DEF InitReturn
  <2>5. CASE Rmmod
    BY <2>5 DEF Rmmod
  <2>6. CASE ReleaseStep
    <3>1. held' \subseteq held /\ pc' \in {pc, pc + 1}
      BY <2>6 DEF ReleaseStep
    <3>2. phase' \in {phase, "oops"}
      BY <2>6 DEF ReleaseStep
    <3>3. QED
      BY <2>6, <3>1, <3>2 DEF ReleaseStep
  <2>7. CASE Unloaded
    BY <2>7 DEF Unloaded
  <2>8. CASE Environment
    BY <2>8 DEF Environment, Open, Enter, Leave, Close, IrqEnter, IrqReturn
  <2>9. CASE UNCHANGED vars
    BY <2>9 DEF vars
  <2>10. QED
    BY <2>1, <2>2, <2>3, <2>4, <2>5, <2>6, <2>7, <2>8, <2>9 DEF Next, Module
<1>3. QED
  BY <1>1, <1>2, PTL DEF Spec

-----------------------------------------------------------------------------
\* A driver whose file_operations name their owner is never unloaded under
\* an open file (lessons 9 to 18), for any number of users and any table.
THEOREM UnloadWaitsForFiles == Spec => []NoOpenAcrossUnload
<1>1. Init => NoOpenAcrossUnload
  BY DEF Init, NoOpenAcrossUnload
<1>2. TypeOK /\ NoOpenAcrossUnload /\ [Next]_vars => NoOpenAcrossUnload'
  <2> SUFFICES ASSUME TypeOK, NoOpenAcrossUnload, [Next]_vars
               PROVE  NoOpenAcrossUnload'
    OBVIOUS
  <2> USE DEF TypeOK, NoOpenAcrossUnload
  <2>1. CASE Insmod \/ InitStep \/ InitFail \/ InitReturn
    BY <2>1 DEF Insmod, InitStep, InitFail, InitReturn
  <2>2. CASE Rmmod
    BY <2>2 DEF Rmmod
  <2>3. CASE ReleaseStep
    <3>1. phase' \in {phase, "oops"} /\ phase \in {"unwind", "exit"}
      BY <2>3 DEF ReleaseStep
    <3>2. QED
      BY <2>3, <3>1 DEF ReleaseStep
  <2>4. CASE Unloaded
    BY <2>4 DEF Unloaded
  <2>5. ASSUME NEW u \in Users, Open(u) PROVE NoOpenAcrossUnload'
    BY <2>5 DEF Open, Present
  <2>6. ASSUME NEW u \in Users, Enter(u) \/ Leave(u) \/ Close(u)
        PROVE  NoOpenAcrossUnload'
    BY <2>6 DEF Enter, Leave, Close
  <2>7. CASE IrqEnter \/ IrqReturn
    BY <2>7 DEF IrqEnter, IrqReturn
  <2>8. CASE UNCHANGED vars
    BY <2>8 DEF vars
  <2>9. QED
    BY <2>1, <2>2, <2>3, <2>4, <2>5, <2>6, <2>7, <2>8
       DEF Next, Module, Environment
<1>3. QED
  BY <1>1, <1>2, TypeCorrect, PTL DEF Spec

-----------------------------------------------------------------------------
LEMMA MustHoldStep ==
  ASSUME NEW d, NEW i \in Nat \ {0}
  PROVE  MustHold(d, i + 1) \subseteq
           MustHold(d, i) \cup
             (IF d.init[i].err = "ignored" THEN {} ELSE {d.init[i].get} \ {"none"})
<1> SUFFICES ASSUME NEW r \in MustHold(d, i + 1), r \notin MustHold(d, i)
             PROVE  /\ d.init[i].err # "ignored"
                    /\ r \in {d.init[i].get} \ {"none"}
  OBVIOUS
<1>1. PICK j \in 1..(i + 1) - 1 :
        d.init[j].err # "ignored" /\ r = d.init[j].get /\ r # "none"
  BY DEF MustHold
<1>2. j \notin 1..i - 1
  BY <1>1 DEF MustHold
<1>3. j = i
  BY <1>1, <1>2
<1>4. QED
  BY <1>1, <1>3

\* A release gives back the interrupt line only as itself.
LEMMA IrqAlone ==
  /\ \A r : "irq" \in Freed(r) => r = "irq"
  /\ "irq" \notin ModuleLocal
BY DEF Freed, ModuleLocal

\* What tested calls have acquired stays until a list of releases begins, and
\* an interrupt line until no handler runs on it; for any table.
LEMMA ReadyAlways == Spec => []ReadyInv
<1>1. Init => ReadyInv
  BY DEF Init, ReadyInv
<1>2. TypeOK /\ ReadyInv /\ [Next]_vars => ReadyInv'
  <2> SUFFICES ASSUME TypeOK, ReadyInv, [Next]_vars PROVE ReadyInv'
    OBVIOUS
  <2>t. pc \in Nat \ {0} /\ Len(drv.init) \in Nat
    BY DriversAssumption, TableShape DEF TypeOK
  <2>1. CASE Insmod
    <3>1. /\ pc' = 1 /\ phase' = "init" /\ drv' = drv /\ held' = held
          /\ irqBusy' = irqBusy
      BY <2>1 DEF Insmod
    <3>2. MustHold(drv, 1) = {}
      BY DEF MustHold
    <3>3. QED
      BY <3>1, <3>2, <2>t DEF ReadyInv
  <2>2. CASE InitStep
    <3>1. /\ phase = "init" /\ phase' = "init" /\ drv' = drv
          /\ pc <= Len(drv.init) /\ pc' = pc + 1
          /\ held' = held \cup ({drv.init[pc].get} \ {"none"})
          /\ irqBusy' = irqBusy
      BY <2>2 DEF InitStep
    <3>2. MustHold(drv, pc) \subseteq held
      BY <3>1 DEF ReadyInv
    <3>3. MustHold(drv, pc + 1) \subseteq held'
      BY <3>1, <3>2, <2>t, MustHoldStep
    <3>4. QED
      BY <3>1, <3>3, <2>t DEF ReadyInv
  <2>3. CASE InitFail
    <3>1. /\ phase = "init" /\ drv' = drv /\ held' = held
          /\ pc <= Len(drv.init) /\ irqBusy' = irqBusy
      BY <2>3 DEF InitFail
    <3>2. MustHold(drv, pc) \subseteq held
      BY <3>1 DEF ReadyInv
    <3>3. CASE /\ drv.init[pc].err = "ignored" /\ phase' = phase
               /\ pc' = pc + 1
      <4>1. MustHold(drv, pc + 1) \subseteq MustHold(drv, pc)
        BY <3>3, <2>t, MustHoldStep
      <4>2. QED
        BY <3>1, <3>2, <3>3, <4>1, <2>t DEF ReadyInv
    <3>4. CASE phase' \in {"oops", "unwind"}
      BY <3>1, <3>4 DEF ReadyInv
    <3>5. QED
      BY <2>3, <3>3, <3>4 DEF InitFail
  <2>4. CASE InitReturn
    <3>1. /\ phase = "init" /\ phase' = "live" /\ drv' = drv /\ held' = held
          /\ pc > Len(drv.init) /\ irqBusy' = irqBusy
      BY <2>4 DEF InitReturn
    <3>2. pc = Len(drv.init) + 1
      BY <3>1, <2>t DEF ReadyInv
    <3>3. QED
      BY <3>1, <3>2 DEF ReadyInv
  <2>5. CASE Rmmod
    BY <2>5 DEF Rmmod, ReadyInv
  <2>6. CASE ReleaseStep
    <3>1. phase' \in {"unwind", "exit", "oops"} /\ irqBusy' = irqBusy
      BY <2>6 DEF ReleaseStep
    <3>2. irqBusy => "irq" \in held'
      BY <2>6, IrqAlone DEF ReleaseStep, ReadyInv
    <3>3. QED
      BY <3>1, <3>2 DEF ReadyInv
  <2>7. CASE Unloaded
    <3>1. /\ phase' \in {"absent", "refused"} /\ irqBusy' = irqBusy
          /\ held' = held \ ModuleLocal
      BY <2>7 DEF Unloaded
    <3>2. QED
      BY <3>1, IrqAlone DEF ReadyInv
  <2>8. CASE IrqEnter \/ IrqReturn
    BY <2>8 DEF IrqEnter, IrqReturn, ReadyInv
  <2>9. CASE (Environment /\ ~IrqEnter /\ ~IrqReturn) \/ UNCHANGED vars
    <3>1. UNCHANGED <<drv, phase, pc, held, irqBusy>>
      BY <2>9 DEF Environment, Open, Enter, Leave, Close, vars
    <3>2. QED
      BY <3>1 DEF ReadyInv
  <2>10. QED
    BY <2>1, <2>2, <2>3, <2>4, <2>5, <2>6, <2>7, <2>8, <2>9
       DEF Next, Module, Environment
<1>3. QED
  BY <1>1, <1>2, TypeCorrect, PTL DEF Spec

\* After an insmod that returned success the handlers find what they
\* dereference, and none runs on a line that was given back, for every driver
\* whose table acquires these things by calls whose failure it tests.
THEOREM ReadySuffices ==
  (\A d \in Drivers : Ready(d)) => (Spec => []HandlersReady)
<1> SUFFICES ASSUME \A d \in Drivers : Ready(d)
             PROVE  Spec => []HandlersReady
  OBVIOUS
<1>1. TypeOK /\ ReadyInv => HandlersReady
  BY DEF TypeOK, ReadyInv, HandlersReady, Ready
<1>2. QED
  BY <1>1, ReadyAlways, TypeCorrect, PTL

-----------------------------------------------------------------------------
\* What the audits look at, one step further on.
LEMMA MayHoldGrows ==
  ASSUME NEW d, NEW i \in Nat, NEW j \in Nat, i <= j
  PROVE  MayHold(d, i) \subseteq MayHold(d, j)
BY DEF MayHold

LEMMA MayHoldStep ==
  ASSUME NEW d, NEW i \in Nat \ {0}
  PROVE  {d.init[i].get} \ {"none"} \subseteq MayHold(d, i + 1) \cup ModuleLocal
<1>1. i \in 1..(i + 1) - 1
  OBVIOUS
<1>2. QED
  BY <1>1 DEF MayHold

\* A release takes out of the list what the rest no longer frees.
LEMMA FreedFromStep ==
  ASSUME NEW list \in Seq(STRING), NEW k \in 1..Len(list)
  PROVE  FreedFrom(list, k) \subseteq Freed(list[k]) \cup FreedFrom(list, k + 1)
<1> SUFFICES ASSUME NEW r \in FreedFrom(list, k), r \notin Freed(list[k])
             PROVE  r \in FreedFrom(list, k + 1)
  OBVIOUS
<1>1. PICK j \in k..Len(list) : r \in Freed(list[j])
  BY DEF FreedFrom
<1>2. j \in (k + 1)..Len(list)
  BY <1>1
<1>3. QED
  BY <1>1, <1>2 DEF FreedFrom

LEMMA FreedFromEnd ==
  ASSUME NEW list \in Seq(STRING), NEW k \in Nat, k > Len(list)
  PROVE  FreedFrom(list, k) = {}
BY DEF FreedFrom

\* Nothing unknown stays behind, whichever call fails and whatever users and
\* interrupts do in between, for every driver whose table passes Covering:
\* every jump lands on a label from which all that may exist is released, and
\* the exit function releases all the init function acquires.
LEMMA LeakAlways ==
  (\A d \in Drivers : Covering(d, Leaves[d])) => (Spec => []LeakInv)
<1> SUFFICES ASSUME \A d \in Drivers : Covering(d, Leaves[d])
             PROVE  Spec => []LeakInv
  OBVIOUS
<1>1. Init => LeakInv
  BY DEF Init, LeakInv
<1>2. ASSUME TypeOK, ReadyInv, LeakInv, [Next]_vars PROVE LeakInv'
  <2> USE <1>2
  <2>d. IsDriver(drv) /\ Covering(drv, Leaves[drv])
    BY DriversAssumption DEF TypeOK
  <2>t. pc \in Nat \ {0} /\ Len(drv.init) \in Nat /\ Todo \in Seq(STRING)
    BY <2>d, TableShape, TodoShape DEF TypeOK
  <2>1. CASE Insmod
    <3>1. /\ held \subseteq Leaves[drv] /\ held' = held
          /\ phase' = "init" /\ drv' = drv
      BY <2>1 DEF Insmod, LeakInv
    <3>2. QED
      BY <3>1, <2>t DEF LeakInv
  <2>2. CASE InitStep
    <3>1. /\ phase = "init" /\ phase' = "init" /\ drv' = drv
          /\ pc <= Len(drv.init) /\ pc' = pc + 1
          /\ held' = held \cup ({drv.init[pc].get} \ {"none"})
      BY <2>2 DEF InitStep
    <3>2. held \subseteq MayHold(drv, pc) \cup ModuleLocal \cup Leaves[drv]
      BY <3>1 DEF LeakInv
    <3>3. held' \subseteq MayHold(drv, pc + 1) \cup ModuleLocal \cup Leaves[drv]
      BY <3>1, <3>2, <2>t, MayHoldStep, MayHoldGrows
    <3>4. QED
      BY <3>1, <3>3, <2>t DEF LeakInv
  <2>3. CASE InitFail
    <3>1. /\ phase = "init" /\ drv' = drv /\ held' = held
          /\ pc <= Len(drv.init) /\ pc \in 1..Len(drv.init)
      BY <2>3, <2>t DEF InitFail
    <3>2. held \subseteq MayHold(drv, pc) \cup ModuleLocal \cup Leaves[drv]
      BY <3>1 DEF LeakInv
    <3>3. CASE phase' = "init" /\ pc' = pc + 1
      <4>1. MayHold(drv, pc) \subseteq MayHold(drv, pc + 1)
        BY <2>t, MayHoldGrows
      <4>2. QED
        BY <3>1, <3>2, <3>3, <4>1, <2>t DEF LeakInv
    <3>4. CASE phase' = "oops"
      BY <3>4 DEF LeakInv
    <3>5. CASE /\ drv.init[pc].err \notin Silent /\ phase' = "unwind"
               /\ pc' = Target(drv, drv.init[pc].err)
      <4>1. MayHold(drv, pc)
              \subseteq FreedFrom(Cleanup(drv), Target(drv, drv.init[pc].err))
                        \cup Leaves[drv]
        BY <3>1, <3>5, <2>d DEF Covering
      <4>2. Todo' = Cleanup(drv)
        BY <3>1, <3>5 DEF Todo, Cleanup
      <4>3. QED
        BY <3>1, <3>2, <3>5, <4>1, <4>2 DEF LeakInv
    <3>6. QED
      BY <2>3, <3>1, <3>3, <3>4, <3>5 DEF InitFail
  <2>4. CASE InitReturn
    <3>1. /\ phase = "init" /\ phase' = "live" /\ drv' = drv /\ held' = held
          /\ pc > Len(drv.init)
      BY <2>4 DEF InitReturn
    <3>2. pc = Len(drv.init) + 1
      BY <3>1, <2>t DEF ReadyInv
    <3>3. QED
      BY <3>1, <3>2 DEF LeakInv
  <2>5. CASE Rmmod
    <3>1. /\ phase = "live" /\ phase' = "exit" /\ drv' = drv /\ held' = held
          /\ pc' = 1
      BY <2>5 DEF Rmmod
    <3>2. MayHold(drv, Len(drv.init) + 1)
            \subseteq FreedFrom(drv.exit, 1) \cup Leaves[drv]
      BY <2>d DEF Covering
    <3>3. Todo' = drv.exit
      BY <3>1 DEF Todo
    <3>4. QED
      BY <3>1, <3>2, <3>3 DEF LeakInv
  <2>6. CASE ReleaseStep
    <3>1. phase \in {"unwind", "exit"} /\ pc \in 1..Len(Todo) /\ drv' = drv
      BY <2>6, <2>t DEF ReleaseStep
    <3>2. CASE phase' = "oops"
      BY <3>2 DEF LeakInv
    <3>3. CASE /\ phase' = phase /\ pc' = pc + 1
               /\ held' = held \ Freed(Todo[pc])
      <4>1. Todo' = Todo
        BY <3>1, <3>3 DEF Todo, Cleanup
      <4>2. held \subseteq FreedFrom(Todo, pc) \cup ModuleLocal \cup Leaves[drv]
        BY <3>1 DEF LeakInv
      <4>3. held' \subseteq FreedFrom(Todo, pc + 1) \cup ModuleLocal \cup Leaves[drv]
        BY <3>1, <3>3, <4>2, <2>t, FreedFromStep
      <4>4. QED
        BY <3>1, <3>3, <4>1, <4>3 DEF LeakInv
    <3>4. QED
      BY <2>6, <3>2, <3>3 DEF ReleaseStep
  <2>7. CASE Unloaded
    <3>1. /\ phase \in {"unwind", "exit"} /\ pc > Len(Todo)
          /\ phase' \in {"absent", "refused"} /\ held' = held \ ModuleLocal
          /\ drv' = drv
      BY <2>7 DEF Unloaded
    <3>2. held \subseteq ModuleLocal \cup Leaves[drv]
      BY <3>1, <2>t, FreedFromEnd DEF LeakInv
    <3>3. QED
      BY <3>1, <3>2 DEF LeakInv
  <2>8. CASE Environment \/ UNCHANGED vars
    <3>1. UNCHANGED <<drv, phase, pc, held>>
      BY <2>8 DEF Environment, Open, Enter, Leave, Close, IrqEnter, IrqReturn,
                  vars
    <3>2. Todo' = Todo
      BY <3>1 DEF Todo, Cleanup
    <3>3. QED
      BY <3>1, <3>2 DEF LeakInv
  <2>9. QED
    BY <2>1, <2>2, <2>3, <2>4, <2>5, <2>6, <2>7, <2>8 DEF Next, Module
<1>3. QED
  BY <1>1, <1>2, TypeCorrect, ReadyAlways, PTL DEF Spec

THEOREM CoveringSuffices ==
  (\A d \in Drivers : Covering(d, Leaves[d])) => (Spec => []LeavesOnlyKnown)
<1>1. LeakInv => LeavesOnlyKnown
  BY DEF LeakInv, LeavesOnlyKnown
<1>2. QED
  BY <1>1, LeakAlways, PTL

-----------------------------------------------------------------------------
\* A list that is safe from k on stays safe after its k-th release.
LEMMA SafeFromStep ==
  ASSUME NEW list \in Seq(STRING), NEW k \in 1..Len(list), NEW S,
         SafeFrom(list, k, S)
  PROVE  SafeFrom(list, k + 1, S \ Freed(list[k]))
<1> SUFFICES ASSUME NEW j \in (k + 1)..Len(list)
             PROVE  /\ list[j] \in S \ Freed(list[k])
                    /\ \A m \in (k + 1)..j - 1 : list[j] \notin Freed(list[m])
  BY DEF SafeFrom
<1>1. j \in k..Len(list) /\ k \in k..j - 1
  OBVIOUS
<1>2. list[j] \in S /\ \A m \in k..j - 1 : list[j] \notin Freed(list[m])
  BY <1>1 DEF SafeFrom
<1>3. QED
  BY <1>1, <1>2

LEMMA SafeFromMonotone ==
  ASSUME NEW list, NEW k, NEW S, NEW T, S \subseteq T, SafeFrom(list, k, S)
  PROVE  SafeFrom(list, k, T)
BY DEF SafeFrom

\* No error path and no exit function releases what is not held or what it
\* has already released, for every driver whose table passes Safe.
THEOREM SafeSuffices ==
  (\A d \in SafeDrivers : Safe(d)) => (Spec => []ReleasesOnlyHeld)
<1> SUFFICES ASSUME \A d \in SafeDrivers : Safe(d)
             PROVE  Spec => []ReleasesOnlyHeld
  OBVIOUS
<1>1. Init => SafeInv
  BY DEF Init, SafeInv
<1>2. ASSUME TypeOK, ReadyInv, SafeInv, drv \in SafeDrivers, [Next]_vars
      PROVE  SafeInv'
  <2> USE <1>2
  <2>d. IsDriver(drv) /\ Safe(drv)
    BY DriversAssumption DEF TypeOK
  <2>t. pc \in Nat \ {0} /\ Len(drv.init) \in Nat /\ Todo \in Seq(STRING)
    BY <2>d, TableShape, TodoShape DEF TypeOK
  <2>1. CASE Insmod \/ InitStep \/ InitReturn
    BY <2>1 DEF Insmod, InitStep, InitReturn, SafeInv
  <2>3. CASE InitFail
    <3>1. /\ phase = "init" /\ drv' = drv /\ held' = held
          /\ pc <= Len(drv.init) /\ pc \in 1..Len(drv.init)
      BY <2>3, <2>t DEF InitFail
    <3>2. MustHold(drv, pc) \subseteq held
      BY <3>1 DEF ReadyInv
    <3>4. CASE phase' \in {"init", "oops"}
      BY <3>4 DEF SafeInv
    <3>5. CASE /\ drv.init[pc].err \notin Silent /\ phase' = "unwind"
               /\ pc' = Target(drv, drv.init[pc].err)
      <4>1. SafeFrom(Cleanup(drv), Target(drv, drv.init[pc].err),
                     MustHold(drv, pc))
        BY <3>1, <3>5, <2>d DEF Safe
      <4>2. Todo' = Cleanup(drv)
        BY <3>1, <3>5 DEF Todo, Cleanup
      <4>3. SafeFrom(Todo', pc', held')
        BY <3>1, <3>2, <3>5, <4>1, <4>2, SafeFromMonotone
      <4>4. QED
        BY <3>5, <4>3 DEF SafeInv
    <3>6. QED
      BY <2>3, <3>1, <3>4, <3>5 DEF InitFail
  <2>5. CASE Rmmod
    <3>1. /\ phase = "live" /\ phase' = "exit" /\ drv' = drv /\ held' = held
          /\ pc' = 1
      BY <2>5 DEF Rmmod
    <3>2. SafeFrom(drv.exit, 1, MustHold(drv, Len(drv.init) + 1))
      BY <2>d DEF Safe
    <3>3. MustHold(drv, Len(drv.init) + 1) \subseteq held
      BY <3>1 DEF ReadyInv
    <3>4. Todo' = drv.exit
      BY <3>1 DEF Todo
    <3>5. SafeFrom(Todo', pc', held')
      BY <3>1, <3>2, <3>3, <3>4, SafeFromMonotone
    <3>6. QED
      BY <3>1, <3>5 DEF SafeInv
  <2>6. CASE ReleaseStep
    <3>1. phase \in {"unwind", "exit"} /\ pc \in 1..Len(Todo) /\ drv' = drv
      BY <2>6, <2>t DEF ReleaseStep
    <3>2. CASE phase' = "oops"
      BY <3>2 DEF SafeInv
    <3>3. CASE /\ phase' = phase /\ pc' = pc + 1
               /\ held' = held \ Freed(Todo[pc])
      <4>1. Todo' = Todo
        BY <3>1, <3>3 DEF Todo, Cleanup
      <4>2. SafeFrom(Todo, pc, held)
        BY <3>1 DEF SafeInv
      <4>3. SafeFrom(Todo', pc', held')
        BY <3>1, <3>3, <4>1, <4>2, <2>t, SafeFromStep
      <4>4. QED
        BY <3>1, <3>3, <4>3 DEF SafeInv
    <3>4. QED
      BY <2>6, <3>2, <3>3 DEF ReleaseStep
  <2>7. CASE Unloaded
    <3>1. phase' \in {"absent", "refused"}
      BY <2>7 DEF Unloaded
    <3>2. QED
      BY <3>1 DEF SafeInv
  <2>8. CASE Environment \/ UNCHANGED vars
    <3>1. UNCHANGED <<drv, phase, pc, held>>
      BY <2>8 DEF Environment, Open, Enter, Leave, Close, IrqEnter, IrqReturn,
                  vars
    <3>2. Todo' = Todo
      BY <3>1 DEF Todo, Cleanup
    <3>3. QED
      BY <3>1, <3>2 DEF SafeInv
  <2>9. QED
    BY <2>1, <2>3, <2>5, <2>6, <2>7, <2>8 DEF Next, Module
<1>3. TypeOK /\ ReadyInv /\ (drv \in SafeDrivers => SafeInv) /\ [Next]_vars
        => (drv \in SafeDrivers => SafeInv)'
  BY <1>2, DriverFixed
<1>4. TypeOK /\ (drv \in SafeDrivers => SafeInv) => ReleasesOnlyHeld
  <2> SUFFICES ASSUME TypeOK, SafeInv, phase \in {"unwind", "exit"},
                      pc <= Len(Todo)
               PROVE  Todo[pc] \in held
    BY DEF ReleasesOnlyHeld
  <2>1. pc \in pc..Len(Todo)
    BY TodoShape, DriversAssumption DEF TypeOK
  <2>2. QED
    BY <2>1 DEF SafeInv, SafeFrom
<1>5. QED
  BY <1>1, <1>3, <1>4, TypeCorrect, ReadyAlways, PTL DEF Spec

-----------------------------------------------------------------------------
\* None of the things that hang on others is memory of the module.
LEMMA DependsOutside ==
  \A p \in DependsOn : p[1] \notin ModuleLocal /\ p[2] \notin ModuleLocal
                       /\ p[2] # "none"
BY DEF DependsOn, ModuleLocal

\* What hangs on something else in the kernel's tree is gone before it,
\* whichever call fails, for every driver whose table passes Covering and
\* Ordered: when the list comes to the thing that is hung on, what hangs on
\* it goes with it or, none of the later releases being for it, is gone.
THEOREM OrderedSuffices ==
  (\A d \in Drivers : Covering(d, Leaves[d]) /\ Ordered(d, Leaves[d]))
    => (Spec => []DependentsFirst)
<1> SUFFICES ASSUME \A d \in Drivers :
                      Covering(d, Leaves[d]) /\ Ordered(d, Leaves[d])
             PROVE  Spec => []DependentsFirst
  OBVIOUS
<1>1. Init => DependentsFirst
  BY DEF Init, DependentsFirst
<1>2. ASSUME TypeOK, ReadyInv, LeakInv, DependentsFirst, [Next]_vars
      PROVE  DependentsFirst'
  <2> SUFFICES ASSUME NEW p \in DependsOn, p[1] \in held', p[1] \notin Leaves[drv]
               PROVE  p[2] \in held'
    BY <1>2, DriverFixed DEF DependentsFirst
  <2> USE <1>2
  <2>d. IsDriver(drv) /\ Ordered(drv, Leaves[drv])
    BY DriversAssumption DEF TypeOK
  <2>t. pc \in Nat \ {0} /\ Todo \in Seq(STRING)
    BY <2>d, TodoShape DEF TypeOK
  <2>h. p[1] \in held => p[2] \in held
    BY DEF DependentsFirst
  <2>1. CASE InitStep
    <3>1. /\ phase = "init" /\ pc \in 1..Len(drv.init)
          /\ held' = held \cup ({drv.init[pc].get} \ {"none"})
      BY <2>1, <2>t, <2>d, TableShape DEF InitStep
    <3>2. CASE p[1] \in held
      BY <2>h, <3>1, <3>2
    <3>3. CASE p[1] = drv.init[pc].get
      <4>1. p[2] \in MustHold(drv, pc)
        BY <2>d, <3>1, <3>3 DEF Ordered
      <4>2. QED
        BY <3>1, <4>1 DEF ReadyInv
    <3>4. QED
      BY <3>1, <3>2, <3>3
  <2>2. CASE ReleaseStep
    <3>1. phase \in {"unwind", "exit"} /\ pc \in 1..Len(Todo)
      BY <2>2, <2>t DEF ReleaseStep
    <3>2. CASE held' = held
      BY <3>2, <2>h
    <3>3. CASE held' = held \ Freed(Todo[pc])
      <4>1. p[1] \in held /\ p[1] \notin Freed(Todo[pc])
        BY <3>3
      <4>2. p[1] \in FreedFrom(Todo, pc)
        BY <3>1, <4>1, DependsOutside DEF LeakInv
      <4>3. p[1] \in FreedFrom(Todo, pc + 1)
        BY <4>1, <4>2, <3>1, <2>t, FreedFromStep
      <4>4. OrderedList(Todo, p[1], p[2])
        BY <2>d DEF Ordered, Todo
      <4>5. p[2] \notin Freed(Todo[pc])
        BY <3>1, <4>1, <4>3, <4>4 DEF OrderedList
      <4>6. QED
        BY <2>h, <3>3, <4>1, <4>5
    <3>4. QED
      BY <2>2, <3>2, <3>3 DEF ReleaseStep
  <2>3. CASE Unloaded
    <3>1. held' = held \ ModuleLocal
      BY <2>3 DEF Unloaded
    <3>2. QED
      BY <3>1, <2>h, DependsOutside
  <2>4. CASE ~InitStep /\ ~ReleaseStep /\ ~Unloaded
    <3>1. held' = held
      BY <2>4 DEF Next, Module, Environment, Insmod, InitFail, InitReturn, Rmmod,
                  Open, Enter, Leave, Close, IrqEnter, IrqReturn, vars
    <3>2. QED
      BY <3>1, <2>h
  <2>5. QED
    BY <2>1, <2>2, <2>3, <2>4
<1>3. Spec => []LeakInv
  BY LeakAlways
<1>4. QED
  BY <1>1, <1>2, <1>3, TypeCorrect, ReadyAlways, PTL DEF Spec

\* After a load that returned success its threads exist, for every driver whose
\* table tests their creation, were it by following the pointer.
THEOREM ReportedSuffices ==
  (\A d \in Drivers : Reported(d)) => (Spec => []ReportedThreadsExist)
<1> SUFFICES ASSUME \A d \in Drivers : Reported(d)
             PROVE  Spec => []ReportedThreadsExist
  OBVIOUS
<1>1. TypeOK /\ ReadyInv => ReportedThreadsExist
  BY DEF TypeOK, ReadyInv, ReportedThreadsExist, Reported
<1>2. QED
  BY <1>1, ReadyAlways, TypeCorrect, PTL

-----------------------------------------------------------------------------
\* What the exit function has come past is gone, for any table: nothing is
\* acquired while it runs.
LEMMA ReturnedAlways == Spec => []ReturnedInv
<1>1. Init => ReturnedInv
  BY DEF Init, ReturnedInv
<1>2. ASSUME TypeOK, ReturnedInv, [Next]_vars PROVE ReturnedInv'
  <2> USE <1>2
  <2>t. pc \in Nat \ {0} /\ Todo \in Seq(STRING) /\ drv' = drv
    BY DriversAssumption, TodoShape, DriverFixed DEF TypeOK
  <2>1. CASE Insmod \/ InitStep \/ InitFail \/ InitReturn
    <3>1. phase' \in {"init", "oops", "unwind", "live"}
      BY <2>1 DEF Insmod, InitStep, InitFail, InitReturn
    <3>2. QED
      BY <3>1 DEF ReturnedInv
  <2>2. CASE Rmmod
    <3>1. phase' = "exit" /\ pc' = 1
      BY <2>2 DEF Rmmod
    <3>2. QED
      BY <3>1 DEF ReturnedInv
  <2>3. CASE ReleaseStep
    <3>1. CASE phase = "exit" /\ phase' = "exit"
      <4>1. pc' = pc + 1 /\ held' = held \ Freed(drv.exit[pc])
        BY <2>3, <3>1 DEF ReleaseStep, Todo
      <4>2. ASSUME NEW j \in 1..pc' - 1 PROVE Freed(drv.exit[j]) \cap held' = {}
        <5>1. j = pc \/ j \in 1..pc - 1
          BY <4>1, <2>t
        <5>2. QED
          BY <3>1, <4>1, <5>1 DEF ReturnedInv
      <4>3. QED
        BY <3>1, <4>2, <2>t DEF ReturnedInv
    <3>2. CASE phase' \in {"unwind", "oops"}
      BY <3>2 DEF ReturnedInv
    <3>3. QED
      BY <2>3, <3>1, <3>2 DEF ReleaseStep
  <2>4. CASE Unloaded
    <3>1. CASE phase = "exit"
      <4>1. pc > Len(drv.exit) /\ held' \subseteq held /\ Len(drv.exit) \in Nat
        BY <2>4, <3>1, <2>t DEF Unloaded, Todo
      <4>2. \A j \in 1..Len(drv.exit) : Freed(drv.exit[j]) \cap held = {}
        BY <3>1, <4>1, <2>t DEF ReturnedInv
      <4>3. FreedFrom(drv.exit, 1) \cap held' = {}
        BY <4>1, <4>2 DEF FreedFrom
      <4>4. phase' = "absent"
        BY <2>4, <3>1 DEF Unloaded
      <4>5. QED
        BY <4>3, <4>4, <2>t DEF ReturnedInv
    <3>2. CASE phase' = "refused"
      BY <3>2 DEF ReturnedInv
    <3>3. QED
      BY <2>4, <3>1, <3>2 DEF Unloaded
  <2>5. CASE Environment \/ UNCHANGED vars
    <3>1. UNCHANGED <<drv, phase, pc, held>>
      BY <2>5 DEF Environment, Open, Enter, Leave, Close, IrqEnter, IrqReturn,
                  vars
    <3>2. QED
      BY <3>1 DEF ReturnedInv
  <2>6. QED
    BY <2>1, <2>2, <2>3, <2>4, <2>5 DEF Next, Module
<1>3. QED
  BY <1>1, <1>2, TypeCorrect, PTL DEF Spec

\* A driver can be loaded again after rmmod if what may stay behind and would
\* stand in the way is given back by its exit function: then it is left by
\* refused loads only, and no load gets past it.
THEOREM ReloadSuffices ==
  (\A d \in Drivers : Covering(d, Leaves[d]) /\ Reloadable(d, Leaves[d]))
    => (Spec => []ReloadAfterRmmod)
<1> SUFFICES ASSUME \A d \in Drivers :
                      Covering(d, Leaves[d]) /\ Reloadable(d, Leaves[d])
             PROVE  Spec => []ReloadAfterRmmod
  OBVIOUS
<1>1. ASSUME TypeOK, LeavesOnlyKnown, ReturnedInv PROVE ReloadAfterRmmod
  <2> SUFFICES ASSUME phase = "absent", NEW i \in 1..Len(drv.init),
                      drv.init[i].err \notin Silent,
                      drv.init[i].get \in held \ ThreadHandles
               PROVE  FALSE
    BY DEF ReloadAfterRmmod
  <2>1. drv.init[i].get \in Leaves[drv] \ ThreadHandles
    BY <1>1 DEF LeavesOnlyKnown
  <2>2. drv.init[i].get \in FreedFrom(drv.exit, 1)
    BY <1>1, <2>1 DEF TypeOK, Reloadable
  <2>3. QED
    BY <1>1, <2>2 DEF ReturnedInv
<1>2. Spec => []LeavesOnlyKnown
  BY CoveringSuffices
<1>3. QED
  BY <1>1, <1>2, ReturnedAlways, TypeCorrect, PTL

-----------------------------------------------------------------------------
(* The tables of the lessons.  Each is audited line by line: where every   *)
(* failure jumps to, what may and must be held there, what the labels from *)
(* there on release.                                                       *)

\* `goto l' lands on the t-th clean-up statement: the first under label l.
Reaches(d, l, t) ==
  /\ t \in 1..Len(d.unwind) + 1
  /\ t = Len(d.unwind) + 1 \/ d.unwind[t].at = l
  /\ \A j \in 1..t - 1 : d.unwind[j].at # l

\* d leaves behind at worst exactly the things in rest.
Audited(d, rest) ==
  /\ Covering(d, rest) /\ Ordered(d, rest)
  /\ \A r \in rest : ~Covering(d, rest \ {r})

\* No list of clean-up statements of the course is longer than six.
LEMMA LabelReached ==
  ASSUME NEW d, Len(d.unwind) \in 0..6
  PROVE  \A l : Reaches(d, l, Target(d, l))
<1> SUFFICES ASSUME NEW l PROVE Reaches(d, l, Target(d, l))
  OBVIOUS
<1> DEFINE n    == Len(d.unwind)
           P(t) == /\ t \in 1..n + 1
                   /\ t = n + 1 \/ d.unwind[t].at = l
                   /\ \A j \in 1..t - 1 : d.unwind[j].at # l
           N(t) == \A j \in 1..t : d.unwind[j].at # l
<1>1. \E t \in 1..7 : P(t)
  <2>1. n \in 0..6 /\ N(0) /\ n \in Nat
    OBVIOUS
  <2>2. ASSUME NEW t \in 1..6, t <= n, N(t - 1)
        PROVE  P(t) \/ N(t)
    BY <2>1, <2>2
  <2>3. N(n) => P(n + 1)
    BY <2>1
  <2> SUFFICES ASSUME \A t \in 1..7 : ~P(t) PROVE FALSE
    OBVIOUS
  <2>4. \A t \in 1..6 : t <= n /\ N(t - 1) => N(t)
    BY <2>2
  <2> HIDE DEF n, P, N
  <2>5. n >= 1 => N(1)
    BY <2>1, <2>4, 1 - 1 = 0
  <2>6. n >= 2 => N(2)
    BY <2>1, <2>4, <2>5, 2 - 1 = 1
  <2>7. n >= 3 => N(3)
    BY <2>1, <2>4, <2>6, 3 - 1 = 2
  <2>8. n >= 4 => N(4)
    BY <2>1, <2>4, <2>7, 4 - 1 = 3
  <2>9. n >= 5 => N(5)
    BY <2>1, <2>4, <2>8, 5 - 1 = 4
  <2>10. n >= 6 => N(6)
    BY <2>1, <2>4, <2>9, 6 - 1 = 5
  <2>11. N(n)
    BY <2>1, <2>5, <2>6, <2>7, <2>8, <2>9, <2>10
  <2> QED
    BY <2>1, <2>3, <2>11
<1>2. \E t \in 1..Len(d.unwind) + 1 :
        /\ t = Len(d.unwind) + 1 \/ d.unwind[t].at = l
        /\ \A j \in 1..t - 1 : d.unwind[j].at # l
  BY <1>1
<1> QED
  BY <1>2, Zenon DEF Target, Reaches

\* Lesson 3: a number that is taken and given back.
LEMMA NumberTable ==
  ASSUME NEW d, d.init = chardd_dyna_init, d.unwind = <<>>,
         d.exit = chardd_dyna_exit
  PROVE  /\ Audited(d, {}) /\ Safe(d)
         /\ Reloadable(d, {}) /\ Reported(d)
<1>1. /\ Len(d.init) = 1 /\ Len(d.unwind) = 0 /\ Len(d.exit) = 1
      /\ Cleanup(d) = <<>>
  BY DEF Cleanup, At, And, chardd_dyna_init, chardd_dyna_exit
<1>2. \A l : Reaches(d, l, Target(d, l))
  BY <1>1, LabelReached
<1> USE DEF Get, Make, Try, Check, At, And, chardd_dyna_init, chardd_dyna_exit
<1>3. Covering(d, {})
  BY <1>1, <1>2
     DEF Covering, MayHold, FreedFrom, Freed, ModuleLocal, Silent, Reaches
<1>4. Ordered(d, {})
  BY <1>1 DEF Ordered, OrderedList, FreedFrom, Freed, MustHold, DependsOn
<1>5. Safe(d)
  BY <1>1, <1>2 DEF Safe, SafeFrom, Freed, MustHold, Silent, Reaches
<1>6. Reloadable(d, {})
  BY <1>1 DEF Reloadable, FreedFrom, Freed, Silent, ThreadHandles
<1>7. Reported(d)
  BY <1>1 DEF Reported, MustHold, ThreadHandles
<1> QED
  BY <1>3, <1>4, <1>5, <1>6, <1>7 DEF Audited

\* Lesson 3 with register_chrdev_region.
LEMMA NumberStaticTable ==
  ASSUME NEW d, d.init = chardd_static_init, d.unwind = <<>>,
         d.exit = chardd_static_exit
  PROVE  /\ Audited(d, {}) /\ Safe(d)
         /\ Reloadable(d, {}) /\ Reported(d)
<1>1. /\ Len(d.init) = 1 /\ Len(d.unwind) = 0 /\ Len(d.exit) = 1
      /\ Cleanup(d) = <<>>
  BY DEF Cleanup, At, And, chardd_static_init, chardd_static_exit
<1>2. \A l : Reaches(d, l, Target(d, l))
  BY <1>1, LabelReached
<1> USE DEF Get, Make, Try, Check, At, And, chardd_static_init,
            chardd_static_exit
<1>3. Covering(d, {})
  BY <1>1, <1>2
     DEF Covering, MayHold, FreedFrom, Freed, ModuleLocal, Silent, Reaches
<1>4. Ordered(d, {})
  BY <1>1 DEF Ordered, OrderedList, FreedFrom, Freed, MustHold, DependsOn
<1>5. Safe(d)
  BY <1>1, <1>2 DEF Safe, SafeFrom, Freed, MustHold, Silent, Reaches
<1>6. Reloadable(d, {})
  BY <1>1 DEF Reloadable, FreedFrom, Freed, Silent, ThreadHandles
<1>7. Reported(d)
  BY <1>1 DEF Reported, MustHold, ThreadHandles
<1> QED
  BY <1>3, <1>4, <1>5, <1>6, <1>7 DEF Audited

\* Lesson 4: a device file.
LEMMA DfileTable ==
  ASSUME NEW d, d.init = dfile_init, d.unwind = dfile_unwind,
         d.exit = dfile_exit
  PROVE  /\ Audited(d, {}) /\ Safe(d)
         /\ Reloadable(d, {}) /\ Reported(d)
<1>1. /\ Len(d.init) = 3 /\ Len(d.unwind) = 2 /\ Len(d.exit) = 3
      /\ Cleanup(d) = <<"class", "region">>
  BY DEF Cleanup, At, And, dfile_init, dfile_unwind, dfile_exit
<1>2. \A l : Reaches(d, l, Target(d, l))
  BY <1>1, LabelReached
<1> USE DEF Get, Make, Try, Check, At, And, dfile_init, dfile_unwind,
            dfile_exit
<1>3. Covering(d, {})
  BY <1>1, <1>2
     DEF Covering, MayHold, FreedFrom, Freed, ModuleLocal, Silent, Reaches
<1>4. Ordered(d, {})
  BY <1>1 DEF Ordered, OrderedList, FreedFrom, Freed, MustHold, DependsOn
<1>5. Safe(d)
  BY <1>1, <1>2 DEF Safe, SafeFrom, Freed, MustHold, Silent, Reaches
<1>6. Reloadable(d, {})
  BY <1>1 DEF Reloadable, FreedFrom, Freed, Silent, ThreadHandles
<1>7. Reported(d)
  BY <1>1 DEF Reported, MustHold, ThreadHandles
<1> QED
  BY <1>3, <1>4, <1>5, <1>6, <1>7 DEF Audited

\* Lesson 5: device_read and device_write find their buffer.
LEMMA InterDfileTable ==
  ASSUME NEW d, d.init = inter_dfile_init, d.unwind = inter_dfile_unwind,
         d.exit = inter_dfile_exit
  PROVE  /\ Audited(d, {}) /\ Safe(d)
         /\ Reloadable(d, {}) /\ Reported(d)
         /\ {"buffer"} \subseteq MustHold(d, Len(d.init) + 1)
<1>1. /\ Len(d.init) = 5 /\ Len(d.unwind) = 4 /\ Len(d.exit) = 5
      /\ Cleanup(d) = <<"device", "class", "cdev", "region">>
  BY DEF Cleanup, At, And, inter_dfile_init, inter_dfile_unwind,
         inter_dfile_exit
<1>2. \A l : Reaches(d, l, Target(d, l))
  BY <1>1, LabelReached
<1> USE DEF Get, Make, Try, Check, At, And, inter_dfile_init,
            inter_dfile_unwind, inter_dfile_exit
<1>3. Covering(d, {})
  BY <1>1, <1>2
     DEF Covering, MayHold, FreedFrom, Freed, ModuleLocal, Silent, Reaches
<1>4. Ordered(d, {})
  BY <1>1 DEF Ordered, OrderedList, FreedFrom, Freed, MustHold, DependsOn
<1>5. Safe(d)
  BY <1>1, <1>2 DEF Safe, SafeFrom, Freed, MustHold, Silent, Reaches
<1>6. Reloadable(d, {})
  BY <1>1 DEF Reloadable, FreedFrom, Freed, Silent, ThreadHandles
<1>7. Reported(d)
  BY <1>1 DEF Reported, MustHold, ThreadHandles
<1>8. {"buffer"} \subseteq MustHold(d, Len(d.init) + 1)
  BY <1>1 DEF MustHold
<1> QED
  BY <1>3, <1>4, <1>5, <1>6, <1>7, <1>8 DEF Audited

\* Lesson 6.
LEMMA IoctlTable ==
  ASSUME NEW d, d.init = ioctl_init, d.unwind = ioctl_unwind,
         d.exit = ioctl_exit
  PROVE  /\ Audited(d, {}) /\ Safe(d)
         /\ Reloadable(d, {}) /\ Reported(d)
<1>1. /\ Len(d.init) = 4 /\ Len(d.unwind) = 3 /\ Len(d.exit) = 4
      /\ Cleanup(d) = <<"class", "cdev", "region">>
  BY DEF Cleanup, At, And, ioctl_init, ioctl_unwind, ioctl_exit
<1>2. \A l : Reaches(d, l, Target(d, l))
  BY <1>1, LabelReached
<1> USE DEF Get, Make, Try, Check, At, And, ioctl_init, ioctl_unwind,
            ioctl_exit
<1>3. Covering(d, {})
  BY <1>1, <1>2
     DEF Covering, MayHold, FreedFrom, Freed, ModuleLocal, Silent, Reaches
<1>4. Ordered(d, {})
  BY <1>1 DEF Ordered, OrderedList, FreedFrom, Freed, MustHold, DependsOn
<1>5. Safe(d)
  BY <1>1, <1>2 DEF Safe, SafeFrom, Freed, MustHold, Silent, Reaches
<1>6. Reloadable(d, {})
  BY <1>1 DEF Reloadable, FreedFrom, Freed, Silent, ThreadHandles
<1>7. Reported(d)
  BY <1>1 DEF Reported, MustHold, ThreadHandles
<1> QED
  BY <1>3, <1>4, <1>5, <1>6, <1>7 DEF Audited

\* Lesson 7: the directory takes the file that was not tested along.
LEMMA ProcfsTable ==
  ASSUME NEW d, d.init = proc_init, d.unwind = proc_unwind,
         d.exit = proc_exit
  PROVE  /\ Audited(d, {}) /\ Safe(d)
         /\ Reloadable(d, {}) /\ Reported(d)
<1>1. /\ Len(d.init) = 6 /\ Len(d.unwind) = 4 /\ Len(d.exit) = 5
      /\ Cleanup(d) = <<"device", "class", "cdev", "region">>
  BY DEF Cleanup, At, And, proc_init, proc_unwind, proc_exit
<1>2. \A l : Reaches(d, l, Target(d, l))
  BY <1>1, LabelReached
<1> USE DEF Get, Make, Try, Check, At, And, proc_init, proc_unwind, proc_exit
<1>3. Covering(d, {})
  BY <1>1, <1>2
     DEF Covering, MayHold, FreedFrom, Freed, ModuleLocal, Silent, Reaches
<1>4. Ordered(d, {})
  BY <1>1 DEF Ordered, OrderedList, FreedFrom, Freed, MustHold, DependsOn
<1>5. Safe(d)
  BY <1>1, <1>2 DEF Safe, SafeFrom, Freed, MustHold, Silent, Reaches
<1>6. Reloadable(d, {})
  BY <1>1 DEF Reloadable, FreedFrom, Freed, Silent, ThreadHandles
<1>7. Reported(d)
  BY <1>1 DEF Reported, MustHold, ThreadHandles
<1> QED
  BY <1>3, <1>4, <1>5, <1>6, <1>7 DEF Audited

\* Lesson 8: the device of a refused load and the thread of an unloaded
\* driver stay, and no more.
LEMMA WaitQueueTable ==
  ASSUME NEW d, d.init = waitqueue_init, d.unwind = waitqueue_unwind,
         d.exit = waitqueue_exit
  PROVE  /\ Audited(d, {"device", "thread"}) /\ Safe(d)
         /\ Reloadable(d, {"device", "thread"}) /\ Reported(d)
         /\ {"waitq"} \subseteq MustHold(d, Len(d.init) + 1)
<1>1. /\ Len(d.init) = 6 /\ Len(d.unwind) = 3 /\ Len(d.exit) = 4
      /\ Cleanup(d) = <<"class", "cdev", "region">>
  BY DEF Cleanup, At, And, waitqueue_init, waitqueue_unwind, waitqueue_exit
<1>2. \A l : Reaches(d, l, Target(d, l))
  BY <1>1, LabelReached
<1> USE DEF Get, Make, Try, Check, At, And, waitqueue_init, waitqueue_unwind,
            waitqueue_exit
<1>3. Covering(d, {"device", "thread"})
  BY <1>1, <1>2
     DEF Covering, MayHold, FreedFrom, Freed, ModuleLocal, Silent, Reaches
<1>4. Ordered(d, {"device", "thread"})
  BY <1>1 DEF Ordered, OrderedList, FreedFrom, Freed, MustHold, DependsOn
<1>5. ~Covering(d, {"thread"})
  <2>1. Target(d, "dev_err") = 1
    BY <1>1, <1>2 DEF Reaches
  <2>2. "device" \in MayHold(d, 6) /\ "device" \notin FreedFrom(Cleanup(d), 1)
    BY <1>1 DEF MayHold, FreedFrom, Freed, ModuleLocal
  <2>3. d.init[6].err = "dev_err" /\ 6 \in 1..Len(d.init)
    BY <1>1
  <2> QED
    BY <2>1, <2>2, <2>3 DEF Covering, Silent
<1>6. ~Covering(d, {"device"})
  <2>1. /\ "thread" \in MayHold(d, Len(d.init) + 1)
        /\ "thread" \notin FreedFrom(d.exit, 1)
    BY <1>1 DEF MayHold, FreedFrom, Freed, ModuleLocal
  <2> QED
    BY <2>1 DEF Covering
<1>7. Safe(d)
  BY <1>1, <1>2 DEF Safe, SafeFrom, Freed, MustHold, Silent, Reaches
<1>8. Reloadable(d, {"device", "thread"})
  BY <1>1 DEF Reloadable, FreedFrom, Freed, Silent, ThreadHandles
<1>9. Reported(d)
  BY <1>1 DEF Reported, MustHold, ThreadHandles
<1>10. {"waitq"} \subseteq MustHold(d, Len(d.init) + 1)
  BY <1>1 DEF MustHold
<1> QED
  BY <1>3, <1>4, <1>5, <1>6, <1>7, <1>8, <1>9, <1>10 DEF Audited

\* Lesson 9: both ways out remove the attribute after the kobject.
LEMMA SysfsTable ==
  ASSUME NEW d, d.init = sysfs_driver_init, d.unwind = sysfs_driver_unwind,
         d.exit = sysfs_driver_exit
  PROVE  /\ Audited(d, {}) /\ ~Safe(d)
         /\ Reloadable(d, {}) /\ Reported(d)
<1>1. /\ Len(d.init) = 6 /\ Len(d.unwind) = 6 /\ Len(d.exit) = 6
      /\ Cleanup(d) = <<"kobj", "attr", "cdev", "device", "class", "region">>
  BY DEF Cleanup, At, And, sysfs_driver_init, sysfs_driver_unwind,
         sysfs_driver_exit
<1>2. \A l : Reaches(d, l, Target(d, l))
  BY <1>1, LabelReached
<1> USE DEF Get, Make, Try, Check, At, And, sysfs_driver_init,
            sysfs_driver_unwind, sysfs_driver_exit
<1>3. Covering(d, {})
  BY <1>1, <1>2
     DEF Covering, MayHold, FreedFrom, Freed, ModuleLocal, Silent, Reaches
<1>4. Ordered(d, {})
  BY <1>1 DEF Ordered, OrderedList, FreedFrom, Freed, MustHold, DependsOn
<1>5. ~Safe(d)
  <2>1. Target(d, "err_sysfs") = 1
    BY <1>1, <1>2 DEF Reaches
  <2>2. "attr" \notin MustHold(d, 6)
    BY <1>1 DEF MustHold
  <2>3. ~SafeFrom(Cleanup(d), 1, MustHold(d, 6))
    BY <1>1, <2>2 DEF SafeFrom
  <2> QED
    BY <1>1, <2>1, <2>3 DEF Safe, Silent
<1>6. Reloadable(d, {})
  BY <1>1 DEF Reloadable, FreedFrom, Freed, Silent, ThreadHandles
<1>7. Reported(d)
  BY <1>1 DEF Reported, MustHold, ThreadHandles
<1> QED
  BY <1>3, <1>4, <1>5, <1>6, <1>7 DEF Audited

\* Lesson 10: a busy GPIO leaves the device behind.
LEMMA LedTable ==
  ASSUME NEW d, d.init = gpio_init, d.unwind = gpio_unwind,
         d.exit = gpio_exit
  PROVE  /\ Audited(d, {"device"}) /\ Safe(d)
         /\ Reloadable(d, {"device"}) /\ Reported(d)
<1>1. /\ Len(d.init) = 6 /\ Len(d.unwind) = 4 /\ Len(d.exit) = 5
      /\ Cleanup(d) = <<"gpio", "class", "cdev", "region">>
  BY DEF Cleanup, At, And, gpio_init, gpio_unwind, gpio_exit
<1>2. \A l : Reaches(d, l, Target(d, l))
  BY <1>1, LabelReached
<1> USE DEF Get, Make, Try, Check, At, And, gpio_init, gpio_unwind, gpio_exit
<1>3. Covering(d, {"device"})
  BY <1>1, <1>2
     DEF Covering, MayHold, FreedFrom, Freed, ModuleLocal, Silent, Reaches
<1>4. Ordered(d, {"device"})
  BY <1>1 DEF Ordered, OrderedList, FreedFrom, Freed, MustHold, DependsOn
<1>5. ~Covering(d, {})
  <2>1. Target(d, "dev_err") = 2
    BY <1>1, <1>2 DEF Reaches
  <2>2. "device" \in MayHold(d, 5) /\ "device" \notin FreedFrom(Cleanup(d), 2)
    BY <1>1 DEF MayHold, FreedFrom, Freed, ModuleLocal
  <2>3. d.init[5].err = "dev_err" /\ 5 \in 1..Len(d.init)
    BY <1>1
  <2> QED
    BY <2>1, <2>2, <2>3 DEF Covering, Silent
<1>6. Safe(d)
  BY <1>1, <1>2 DEF Safe, SafeFrom, Freed, MustHold, Silent, Reaches
<1>7. Reloadable(d, {"device"})
  BY <1>1 DEF Reloadable, FreedFrom, Freed, Silent, ThreadHandles
<1>8. Reported(d)
  BY <1>1 DEF Reported, MustHold, ThreadHandles
<1> QED
  BY <1>3, <1>4, <1>5, <1>6, <1>7, <1>8 DEF Audited

\* Lessons 11 and 12 (static item): the GPIO stays; a failed cdev_add deletes
\* the cdev.
LEMMA InterruptTable ==
  ASSUME NEW d, d.init = itr_driver_init, d.unwind = itr_driver_unwind,
         d.exit = itr_driver_exit
  PROVE  /\ Audited(d, {"gpio"}) /\ ~Safe(d)
         /\ Reloadable(d, {"gpio"}) /\ Reported(d)
<1>1. /\ Len(d.init) = 6 /\ Len(d.unwind) = 5 /\ Len(d.exit) = 5
      /\ Cleanup(d) = <<"irq", "device", "cdev", "class", "region">>
  BY DEF Cleanup, At, And, itr_driver_init, itr_driver_unwind, itr_driver_exit
<1>2. \A l : Reaches(d, l, Target(d, l))
  BY <1>1, LabelReached
<1> USE DEF Get, Make, Try, Check, At, And, itr_driver_init,
            itr_driver_unwind, itr_driver_exit
<1>3. Covering(d, {"gpio"})
  BY <1>1, <1>2
     DEF Covering, MayHold, FreedFrom, Freed, ModuleLocal, Silent, Reaches
<1>4. Ordered(d, {"gpio"})
  BY <1>1 DEF Ordered, OrderedList, FreedFrom, Freed, MustHold, DependsOn
<1>5. ~Covering(d, {})
  <2>1. /\ "gpio" \in MayHold(d, Len(d.init) + 1)
        /\ "gpio" \notin FreedFrom(d.exit, 1)
    BY <1>1 DEF MayHold, FreedFrom, Freed, ModuleLocal
  <2> QED
    BY <2>1 DEF Covering
<1>6. ~Safe(d)
  <2>1. Target(d, "err_cdev") = 2
    BY <1>1, <1>2 DEF Reaches
  <2>2. "cdev" \notin MustHold(d, 4)
    BY <1>1 DEF MustHold
  <2>3. ~SafeFrom(Cleanup(d), 2, MustHold(d, 4))
    BY <1>1, <2>2 DEF SafeFrom
  <2> QED
    BY <1>1, <2>1, <2>3 DEF Safe, Silent
<1>7. Reloadable(d, {"gpio"})
  BY <1>1 DEF Reloadable, FreedFrom, Freed, Silent, ThreadHandles
<1>8. Reported(d)
  BY <1>1 DEF Reported, MustHold, ThreadHandles
<1> QED
  BY <1>3, <1>4, <1>5, <1>6, <1>7, <1>8 DEF Audited

\* Lesson 12 (own queue): the GPIO stays, and the device of a failed
\* cdev_add, whose label is below the one that destroys it.
LEMMA WqDynaTable ==
  ASSUME NEW d, d.init = wq_dyna_init, d.unwind = wq_dyna_unwind,
         d.exit = wq_dyna_exit
  PROVE  /\ Audited(d, {"gpio", "device"}) /\ ~Safe(d)
         /\ ~Reloadable(d, {"gpio", "device"}) /\ Reported(d)
         /\ {"wq", "work"} \subseteq MustHold(d, Len(d.init) + 1)
<1>1. /\ Len(d.init) = 8 /\ Len(d.unwind) = 6 /\ Len(d.exit) = 6
      /\ Cleanup(d) = <<"irq", "gpio", "device", "cdev", "class", "region">>
  BY DEF Cleanup, At, And, wq_dyna_init, wq_dyna_unwind, wq_dyna_exit
<1>2. \A l : Reaches(d, l, Target(d, l))
  BY <1>1, LabelReached
<1> USE DEF Get, Make, Try, Check, At, And, wq_dyna_init, wq_dyna_unwind,
            wq_dyna_exit
<1>3. Covering(d, {"gpio", "device"})
  BY <1>1, <1>2
     DEF Covering, MayHold, FreedFrom, Freed, ModuleLocal, Silent, Reaches
<1>4. Ordered(d, {"gpio", "device"})
  BY <1>1 DEF Ordered, OrderedList, FreedFrom, Freed, MustHold, DependsOn
<1>5. ~Covering(d, {"device"})
  <2>1. /\ "gpio" \in MayHold(d, Len(d.init) + 1)
        /\ "gpio" \notin FreedFrom(d.exit, 1)
    BY <1>1 DEF MayHold, FreedFrom, Freed, ModuleLocal
  <2> QED
    BY <2>1 DEF Covering
<1>6. ~Covering(d, {"gpio"})
  <2>1. Target(d, "err_cdev") = 4
    BY <1>1, <1>2 DEF Reaches
  <2>2. "device" \in MayHold(d, 4) /\ "device" \notin FreedFrom(Cleanup(d), 4)
    BY <1>1 DEF MayHold, FreedFrom, Freed, ModuleLocal
  <2>3. d.init[4].err = "err_cdev" /\ 4 \in 1..Len(d.init)
    BY <1>1
  <2> QED
    BY <2>1, <2>2, <2>3 DEF Covering, Silent
<1>7. ~Safe(d)
  <2>1. Target(d, "err_cdev") = 4
    BY <1>1, <1>2 DEF Reaches
  <2>2. "cdev" \notin MustHold(d, 4)
    BY <1>1 DEF MustHold
  <2>3. ~SafeFrom(Cleanup(d), 4, MustHold(d, 4))
    BY <1>1, <2>2 DEF SafeFrom
  <2> QED
    BY <1>1, <2>1, <2>3 DEF Safe, Silent
<1>8. ~Reloadable(d, {"gpio", "device"})
  <2>1. "gpio" \notin FreedFrom(d.exit, 1)
    BY <1>1 DEF FreedFrom, Freed
  <2>2. d.init[5].get = "gpio" /\ d.init[5].err = "err_gpio"
    BY <1>1
  <2> QED
    BY <1>1, <2>1, <2>2 DEF Reloadable, Silent, ThreadHandles
<1>9. Reported(d)
  BY <1>1 DEF Reported, MustHold, ThreadHandles
<1>10. {"wq", "work"} \subseteq MustHold(d, Len(d.init) + 1)
  BY <1>1 DEF MustHold
<1> QED
  BY <1>3, <1>4, <1>5, <1>6, <1>7, <1>8, <1>9, <1>10 DEF Audited

\* Lesson 13.
LEMMA LinkedListTable ==
  ASSUME NEW d, d.init = linked_list_init, d.unwind = linked_list_unwind,
         d.exit = linked_list_exit
  PROVE  /\ Audited(d, {}) /\ Safe(d)
         /\ Reloadable(d, {}) /\ Reported(d)
<1>1. /\ Len(d.init) = 4 /\ Len(d.unwind) = 3 /\ Len(d.exit) = 4
      /\ Cleanup(d) = <<"device", "class", "region">>
  BY DEF Cleanup, At, And, linked_list_init, linked_list_unwind,
         linked_list_exit
<1>2. \A l : Reaches(d, l, Target(d, l))
  BY <1>1, LabelReached
<1> USE DEF Get, Make, Try, Check, At, And, linked_list_init,
            linked_list_unwind, linked_list_exit
<1>3. Covering(d, {})
  BY <1>1, <1>2
     DEF Covering, MayHold, FreedFrom, Freed, ModuleLocal, Silent, Reaches
<1>4. Ordered(d, {})
  BY <1>1 DEF Ordered, OrderedList, FreedFrom, Freed, MustHold, DependsOn
<1>5. Safe(d)
  BY <1>1, <1>2 DEF Safe, SafeFrom, Freed, MustHold, Silent, Reaches
<1>6. Reloadable(d, {})
  BY <1>1 DEF Reloadable, FreedFrom, Freed, Silent, ThreadHandles
<1>7. Reported(d)
  BY <1>1 DEF Reported, MustHold, ThreadHandles
<1> QED
  BY <1>3, <1>4, <1>5, <1>6, <1>7 DEF Audited

\* Lesson 14.
LEMMA KthreadTable ==
  ASSUME NEW d, d.init = kthread_driver_init, d.unwind = kthread_driver_unwind,
         d.exit = kthread_driver_exit
  PROVE  /\ Audited(d, {}) /\ Safe(d)
         /\ Reloadable(d, {}) /\ Reported(d)
<1>1. /\ Len(d.init) = 5 /\ Len(d.unwind) = 4 /\ Len(d.exit) = 5
      /\ Cleanup(d) = <<"cdev", "device", "class", "region">>
  BY DEF Cleanup, At, And, kthread_driver_init, kthread_driver_unwind,
         kthread_driver_exit
<1>2. \A l : Reaches(d, l, Target(d, l))
  BY <1>1, LabelReached
<1> USE DEF Get, Make, Try, Check, At, And, kthread_driver_init,
            kthread_driver_unwind, kthread_driver_exit
<1>3. Covering(d, {})
  BY <1>1, <1>2
     DEF Covering, MayHold, FreedFrom, Freed, ModuleLocal, Silent, Reaches
<1>4. Ordered(d, {})
  BY <1>1 DEF Ordered, OrderedList, FreedFrom, Freed, MustHold, DependsOn
<1>5. Safe(d)
  BY <1>1, <1>2 DEF Safe, SafeFrom, Freed, MustHold, Silent, Reaches
<1>6. Reloadable(d, {})
  BY <1>1 DEF Reloadable, FreedFrom, Freed, Silent, ThreadHandles
<1>7. Reported(d)
  BY <1>1 DEF Reported, MustHold, ThreadHandles
<1> QED
  BY <1>3, <1>4, <1>5, <1>6, <1>7 DEF Audited

\* Lesson 15 (static): a refused interrupt frees a GPIO that may not be held.
LEMMA TaskletStaticTable ==
  ASSUME NEW d, d.init = tasket_static_init, d.unwind = tasket_static_unwind,
         d.exit = tasket_static_exit
  PROVE  /\ Audited(d, {}) /\ ~Safe(d)
         /\ Reloadable(d, {}) /\ Reported(d)
<1>1. /\ Len(d.init) = 7 /\ Len(d.unwind) = 5 /\ Len(d.exit) = 6
      /\ Cleanup(d) = <<"gpio", "cdev", "device", "class", "region">>
  BY DEF Cleanup, At, And, tasket_static_init, tasket_static_unwind,
         tasket_static_exit
<1>2. \A l : Reaches(d, l, Target(d, l))
  BY <1>1, LabelReached
<1> USE DEF Get, Make, Try, Check, At, And, tasket_static_init,
            tasket_static_unwind, tasket_static_exit
<1>3. Covering(d, {})
  BY <1>1, <1>2
     DEF Covering, MayHold, FreedFrom, Freed, ModuleLocal, Silent, Reaches
<1>4. Ordered(d, {})
  BY <1>1 DEF Ordered, OrderedList, FreedFrom, Freed, MustHold, DependsOn
<1>5. ~Safe(d)
  <2>1. Target(d, "err_irq") = 1
    BY <1>1, <1>2 DEF Reaches
  <2>2. "gpio" \notin MustHold(d, 7)
    BY <1>1 DEF MustHold
  <2>3. ~SafeFrom(Cleanup(d), 1, MustHold(d, 7))
    BY <1>1, <2>2 DEF SafeFrom
  <2> QED
    BY <1>1, <2>1, <2>3 DEF Safe, Silent
<1>6. Reloadable(d, {})
  BY <1>1 DEF Reloadable, FreedFrom, Freed, Silent, ThreadHandles
<1>7. Reported(d)
  BY <1>1 DEF Reported, MustHold, ThreadHandles
<1> QED
  BY <1>3, <1>4, <1>5, <1>6, <1>7 DEF Audited

\* Lesson 15 (kmalloc): likewise, and the handlers find the tasklet.
LEMMA TaskletDynaTable ==
  ASSUME NEW d, d.init = tasket_dyna_init, d.unwind = tasket_dyna_unwind,
         d.exit = tasket_dyna_exit
  PROVE  /\ Audited(d, {}) /\ ~Safe(d)
         /\ Reloadable(d, {}) /\ Reported(d)
         /\ {"tasklet", "tasklet_init"} \subseteq MustHold(d, Len(d.init) + 1)
<1>1. /\ Len(d.init) = 9 /\ Len(d.unwind) = 6 /\ Len(d.exit) = 7
      /\ Cleanup(d) = <<"irq", "gpio", "cdev", "device", "class", "region">>
  BY DEF Cleanup, At, And, tasket_dyna_init, tasket_dyna_unwind,
         tasket_dyna_exit
<1>2. \A l : Reaches(d, l, Target(d, l))
  BY <1>1, LabelReached
<1> USE DEF Get, Make, Try, Check, At, And, tasket_dyna_init,
            tasket_dyna_unwind, tasket_dyna_exit
<1>3. Covering(d, {})
  BY <1>1, <1>2
     DEF Covering, MayHold, FreedFrom, Freed, ModuleLocal, Silent, Reaches
<1>4. Ordered(d, {})
  BY <1>1 DEF Ordered, OrderedList, FreedFrom, Freed, MustHold, DependsOn
<1>5. ~Safe(d)
  <2>1. Target(d, "err_irq") = 2
    BY <1>1, <1>2 DEF Reaches
  <2>2. "gpio" \notin MustHold(d, 7)
    BY <1>1 DEF MustHold
  <2>3. ~SafeFrom(Cleanup(d), 2, MustHold(d, 7))
    BY <1>1, <2>2 DEF SafeFrom
  <2> QED
    BY <1>1, <2>1, <2>3 DEF Safe, Silent
<1>6. Reloadable(d, {})
  BY <1>1 DEF Reloadable, FreedFrom, Freed, Silent, ThreadHandles
<1>7. Reported(d)
  BY <1>1 DEF Reported, MustHold, ThreadHandles
<1>8. {"tasklet", "tasklet_init"} \subseteq MustHold(d, Len(d.init) + 1)
  BY <1>1 DEF MustHold
<1> QED
  BY <1>3, <1>4, <1>5, <1>6, <1>7, <1>8 DEF Audited

\* Lessons 16 and 17 (dynamic): a failed cdev_add deletes the cdev.
LEMMA MutexTable ==
  ASSUME NEW d, d.init = mutex_driver_init, d.unwind = mutex_driver_unwind,
         d.exit = mutex_driver_exit
  PROVE  /\ Audited(d, {}) /\ ~Safe(d)
         /\ Reloadable(d, {}) /\ ~Reported(d)
         /\ {"lock"} \subseteq MustHold(d, Len(d.init) + 1)
<1>1. /\ Len(d.init) = 7 /\ Len(d.unwind) = 4 /\ Len(d.exit) = 6
      /\ Cleanup(d) = <<"device", "cdev", "class", "region">>
  BY DEF Cleanup, At, And, mutex_driver_init, mutex_driver_unwind,
         mutex_driver_exit
<1>2. \A l : Reaches(d, l, Target(d, l))
  BY <1>1, LabelReached
<1> USE DEF Get, Make, Try, Check, At, And, mutex_driver_init,
            mutex_driver_unwind, mutex_driver_exit
<1>3. Covering(d, {})
  BY <1>1, <1>2
     DEF Covering, MayHold, FreedFrom, Freed, ModuleLocal, Silent, Reaches
<1>4. Ordered(d, {})
  BY <1>1 DEF Ordered, OrderedList, FreedFrom, Freed, MustHold, DependsOn
<1>5. ~Safe(d)
  <2>1. Target(d, "err_cdev") = 1
    BY <1>1, <1>2 DEF Reaches
  <2>2. "cdev" \notin MustHold(d, 4)
    BY <1>1 DEF MustHold
  <2>3. ~SafeFrom(Cleanup(d), 1, MustHold(d, 4))
    BY <1>1, <2>2 DEF SafeFrom
  <2> QED
    BY <1>1, <2>1, <2>3 DEF Safe, Silent
<1>6. Reloadable(d, {})
  BY <1>1 DEF Reloadable, FreedFrom, Freed, Silent, ThreadHandles
<1>7. ~Reported(d)
  <2>1. "thread1" \notin MustHold(d, Len(d.init) + 1)
    BY <1>1 DEF MustHold
  <2> QED
    BY <1>1, <2>1 DEF Reported, ThreadHandles
<1>8. {"lock"} \subseteq MustHold(d, Len(d.init) + 1)
  BY <1>1 DEF MustHold
<1> QED
  BY <1>3, <1>4, <1>5, <1>6, <1>7, <1>8 DEF Audited

\* Lesson 17 (static): likewise.
LEMMA SpinlockStaticTable ==
  ASSUME NEW d, d.init = spinlock_static_init, d.unwind = mutex_driver_unwind,
         d.exit = mutex_driver_exit
  PROVE  /\ Audited(d, {}) /\ ~Safe(d)
         /\ Reloadable(d, {}) /\ ~Reported(d)
<1>1. /\ Len(d.init) = 6 /\ Len(d.unwind) = 4 /\ Len(d.exit) = 6
      /\ Cleanup(d) = <<"device", "cdev", "class", "region">>
  BY DEF Cleanup, At, And, spinlock_static_init, mutex_driver_unwind,
         mutex_driver_exit
<1>2. \A l : Reaches(d, l, Target(d, l))
  BY <1>1, LabelReached
<1> USE DEF Get, Make, Try, Check, At, And, spinlock_static_init,
            mutex_driver_unwind, mutex_driver_exit
<1>3. Covering(d, {})
  BY <1>1, <1>2
     DEF Covering, MayHold, FreedFrom, Freed, ModuleLocal, Silent, Reaches
<1>4. Ordered(d, {})
  BY <1>1 DEF Ordered, OrderedList, FreedFrom, Freed, MustHold, DependsOn
<1>5. ~Safe(d)
  <2>1. Target(d, "err_cdev") = 1
    BY <1>1, <1>2 DEF Reaches
  <2>2. "cdev" \notin MustHold(d, 4)
    BY <1>1 DEF MustHold
  <2>3. ~SafeFrom(Cleanup(d), 1, MustHold(d, 4))
    BY <1>1, <2>2 DEF SafeFrom
  <2> QED
    BY <1>1, <2>1, <2>3 DEF Safe, Silent
<1>6. Reloadable(d, {})
  BY <1>1 DEF Reloadable, FreedFrom, Freed, Silent, ThreadHandles
<1>7. ~Reported(d)
  <2>1. "thread1" \notin MustHold(d, Len(d.init) + 1)
    BY <1>1 DEF MustHold
  <2> QED
    BY <1>1, <2>1 DEF Reported, ThreadHandles
<1> QED
  BY <1>3, <1>4, <1>5, <1>6, <1>7 DEF Audited

\* Lesson 18: a failed cdev_add deletes the cdev, a busy GPIO is freed.
LEMMA SignalTable ==
  ASSUME NEW d, d.init = signal_driver_init, d.unwind = signal_driver_unwind,
         d.exit = signal_driver_exit
  PROVE  /\ Audited(d, {}) /\ ~Safe(d)
         /\ Reloadable(d, {}) /\ Reported(d)
<1>1. /\ Len(d.init) = 7 /\ Len(d.unwind) = 6 /\ Len(d.exit) = 6
      /\ Cleanup(d) = <<"irq", "gpio", "cdev", "device", "class", "region">>
  BY DEF Cleanup, At, And, signal_driver_init, signal_driver_unwind,
         signal_driver_exit
<1>2. \A l : Reaches(d, l, Target(d, l))
  BY <1>1, LabelReached
<1> USE DEF Get, Make, Try, Check, At, And, signal_driver_init,
            signal_driver_unwind, signal_driver_exit
<1>3. Covering(d, {})
  BY <1>1, <1>2
     DEF Covering, MayHold, FreedFrom, Freed, ModuleLocal, Silent, Reaches
<1>4. Ordered(d, {})
  BY <1>1 DEF Ordered, OrderedList, FreedFrom, Freed, MustHold, DependsOn
<1>5. ~Safe(d)
  <2>1. Target(d, "err_cdev") = 3
    BY <1>1, <1>2 DEF Reaches
  <2>2. "cdev" \notin MustHold(d, 4)
    BY <1>1 DEF MustHold
  <2>3. ~SafeFrom(Cleanup(d), 3, MustHold(d, 4))
    BY <1>1, <2>2 DEF SafeFrom
  <2> QED
    BY <1>1, <2>1, <2>3 DEF Safe, Silent
<1>6. Reloadable(d, {})
  BY <1>1 DEF Reloadable, FreedFrom, Freed, Silent, ThreadHandles
<1>7. Reported(d)
  BY <1>1 DEF Reported, MustHold, ThreadHandles
<1> QED
  BY <1>3, <1>4, <1>5, <1>6, <1>7 DEF Audited

\* The names of the drivers tell them apart.
LEMMA SafeNames ==
  ASSUME NEW d \in MCSafe
  PROVE  d.name \in
           {"chardd_dyna", "chardd_static", "dfile", "inter_df", "ioctl_dev",
            "procfs_dev", "wq_dyna_dev", "wq_static_dev", "led",
            "linked_list", "kthread_ldd"}
<1>1. CharddDyna.name = "chardd_dyna"
  BY DEF CharddDyna
<1>2. CharddStatic.name = "chardd_static"
  BY DEF CharddStatic
<1>3. Dfile.name = "dfile"
  BY DEF Dfile
<1>4. InterDfile.name = "inter_df"
  BY DEF InterDfile
<1>5. Ioctl.name = "ioctl_dev"
  BY DEF Ioctl
<1>6. Procfs.name = "procfs_dev"
  BY DEF Procfs
<1>7. WqDynaDev.name = "wq_dyna_dev"
  BY DEF WqDynaDev
<1>8. WqStaticDev.name = "wq_static_dev"
  BY DEF WqStaticDev, WqDynaDev
<1>9. Led.name = "led"
  BY DEF Led
<1>10. LinkedListDriver.name = "linked_list"
  BY DEF LinkedListDriver
<1>11. Kthread.name = "kthread_ldd"
  BY DEF Kthread
<1> QED
  BY <1>1, <1>2, <1>3, <1>4, <1>5, <1>6, <1>7, <1>8, <1>9, <1>10,
     <1>11 DEF MCSafe

\* The drivers on the two lists of exceptions.
LEMMA ExceptionNames ==
  /\ \A d \in UntestedThreads :
       d.name \in {"mutex_ldd", "spinlock_dyna_ldd", "spinlock_static_ldd"}
  /\ \A d \in OwnWorkqueueDriver : d.name = "wq_dyna_ldd"
<1>1. MutexDriver.name = "mutex_ldd"
  BY DEF MutexDriver
<1>2. SpinlockDyna.name = "spinlock_dyna_ldd"
  BY DEF SpinlockDyna, MutexDriver
<1>3. SpinlockStatic.name = "spinlock_static_ldd"
  BY DEF SpinlockStatic, MutexDriver
<1>4. WqDyna.name = "wq_dyna_ldd"
  BY DEF WqDyna
<1> QED
  BY <1>1, <1>2, <1>3, <1>4 DEF UntestedThreads, OwnWorkqueueDriver

\* What a driver leaves behind is said by its name.
LEMMA LeavesByName ==
  ASSUME NEW d \in AllDrivers
  PROVE  MCLeaves[d] =
           CASE d.name \in {"wq_dyna_dev", "wq_static_dev"} -> {"device", "thread"}
             [] d.name = "led" -> {"device"}
             [] d.name \in {"interrupt_ldd", "wq_static_ldd"} -> {"gpio"}
             [] d.name = "wq_dyna_ldd" -> {"gpio", "device"}
             [] OTHER -> {}
BY DEF MCLeaves

\* What AuditsAgree says of the driver of a behaviour.
Passes(d) ==
  /\ Audited(d, MCLeaves[d])
  /\ Ready(d)
  /\ d \in MCSafe <=> Safe(d)
  /\ d \in UntestedThreads <=> ~Reported(d)
  /\ d \in OwnWorkqueueDriver <=> ~Reloadable(d, MCLeaves[d])

\* Every table of the lessons passes.
LEMMA TablesAudited == \A d \in AllDrivers : Passes(d)
<1> SUFFICES ASSUME NEW d \in AllDrivers PROVE Passes(d)
  OBVIOUS
<1>1. CASE d = CharddDyna
  <2>1. /\ d.name = "chardd_dyna"
        /\ d.init = chardd_dyna_init /\ d.unwind = <<>>
        /\ d.exit = chardd_dyna_exit
    BY <1>1 DEF CharddDyna
  <2>2. d.file \cup d.irq \subseteq {}
    BY <1>1 DEF CharddDyna
  <2>3. MCLeaves[d] = {}
    BY <2>1, LeavesByName
  <2>4. d \in MCSafe
    BY <1>1 DEF MCSafe
  <2>5. d \notin UntestedThreads /\ d \notin OwnWorkqueueDriver
    BY <2>1, ExceptionNames
  <2> QED
    BY <2>1, <2>2, <2>3, <2>4, <2>5, NumberTable DEF Passes, Ready
<1>2. CASE d = CharddStatic
  <2>1. /\ d.name = "chardd_static"
        /\ d.init = chardd_static_init /\ d.unwind = <<>>
        /\ d.exit = chardd_static_exit
    BY <1>2 DEF CharddStatic
  <2>2. d.file \cup d.irq \subseteq {}
    BY <1>2 DEF CharddStatic
  <2>3. MCLeaves[d] = {}
    BY <2>1, LeavesByName
  <2>4. d \in MCSafe
    BY <1>2 DEF MCSafe
  <2>5. d \notin UntestedThreads /\ d \notin OwnWorkqueueDriver
    BY <2>1, ExceptionNames
  <2> QED
    BY <2>1, <2>2, <2>3, <2>4, <2>5, NumberStaticTable DEF Passes, Ready
<1>3. CASE d = Dfile
  <2>1. /\ d.name = "dfile"
        /\ d.init = dfile_init /\ d.unwind = dfile_unwind
        /\ d.exit = dfile_exit
    BY <1>3 DEF Dfile
  <2>2. d.file \cup d.irq \subseteq {}
    BY <1>3 DEF Dfile
  <2>3. MCLeaves[d] = {}
    BY <2>1, LeavesByName
  <2>4. d \in MCSafe
    BY <1>3 DEF MCSafe
  <2>5. d \notin UntestedThreads /\ d \notin OwnWorkqueueDriver
    BY <2>1, ExceptionNames
  <2> QED
    BY <2>1, <2>2, <2>3, <2>4, <2>5, DfileTable DEF Passes, Ready
<1>4. CASE d = InterDfile
  <2>1. /\ d.name = "inter_df"
        /\ d.init = inter_dfile_init /\ d.unwind = inter_dfile_unwind
        /\ d.exit = inter_dfile_exit
    BY <1>4 DEF InterDfile
  <2>2. d.file \cup d.irq \subseteq {"buffer"}
    BY <1>4 DEF InterDfile
  <2>3. MCLeaves[d] = {}
    BY <2>1, LeavesByName
  <2>4. d \in MCSafe
    BY <1>4 DEF MCSafe
  <2>5. d \notin UntestedThreads /\ d \notin OwnWorkqueueDriver
    BY <2>1, ExceptionNames
  <2> QED
    BY <2>1, <2>2, <2>3, <2>4, <2>5, InterDfileTable DEF Passes, Ready
<1>5. CASE d = Ioctl
  <2>1. /\ d.name = "ioctl_dev"
        /\ d.init = ioctl_init /\ d.unwind = ioctl_unwind
        /\ d.exit = ioctl_exit
    BY <1>5 DEF Ioctl
  <2>2. d.file \cup d.irq \subseteq {}
    BY <1>5 DEF Ioctl
  <2>3. MCLeaves[d] = {}
    BY <2>1, LeavesByName
  <2>4. d \in MCSafe
    BY <1>5 DEF MCSafe
  <2>5. d \notin UntestedThreads /\ d \notin OwnWorkqueueDriver
    BY <2>1, ExceptionNames
  <2> QED
    BY <2>1, <2>2, <2>3, <2>4, <2>5, IoctlTable DEF Passes, Ready
<1>6. CASE d = Procfs
  <2>1. /\ d.name = "procfs_dev"
        /\ d.init = proc_init /\ d.unwind = proc_unwind
        /\ d.exit = proc_exit
    BY <1>6 DEF Procfs
  <2>2. d.file \cup d.irq \subseteq {}
    BY <1>6 DEF Procfs
  <2>3. MCLeaves[d] = {}
    BY <2>1, LeavesByName
  <2>4. d \in MCSafe
    BY <1>6 DEF MCSafe
  <2>5. d \notin UntestedThreads /\ d \notin OwnWorkqueueDriver
    BY <2>1, ExceptionNames
  <2> QED
    BY <2>1, <2>2, <2>3, <2>4, <2>5, ProcfsTable DEF Passes, Ready
<1>7. CASE d = WqDynaDev
  <2>1. /\ d.name = "wq_dyna_dev"
        /\ d.init = waitqueue_init /\ d.unwind = waitqueue_unwind
        /\ d.exit = waitqueue_exit
    BY <1>7 DEF WqDynaDev
  <2>2. d.file \cup d.irq \subseteq {"waitq"}
    BY <1>7 DEF WqDynaDev
  <2>3. MCLeaves[d] = {"device", "thread"}
    BY <2>1, LeavesByName
  <2>4. d \in MCSafe
    BY <1>7 DEF MCSafe
  <2>5. d \notin UntestedThreads /\ d \notin OwnWorkqueueDriver
    BY <2>1, ExceptionNames
  <2> QED
    BY <2>1, <2>2, <2>3, <2>4, <2>5, WaitQueueTable DEF Passes, Ready
<1>8. CASE d = WqStaticDev
  <2>1. /\ d.name = "wq_static_dev"
        /\ d.init = waitqueue_init /\ d.unwind = waitqueue_unwind
        /\ d.exit = waitqueue_exit
    BY <1>8 DEF WqStaticDev, WqDynaDev
  <2>2. d.file \cup d.irq \subseteq {}
    BY <1>8 DEF WqStaticDev, WqDynaDev
  <2>3. MCLeaves[d] = {"device", "thread"}
    BY <2>1, LeavesByName
  <2>4. d \in MCSafe
    BY <1>8 DEF MCSafe
  <2>5. d \notin UntestedThreads /\ d \notin OwnWorkqueueDriver
    BY <2>1, ExceptionNames
  <2> QED
    BY <2>1, <2>2, <2>3, <2>4, <2>5, WaitQueueTable DEF Passes, Ready
<1>9. CASE d = Sysfs
  <2>1. /\ d.name = "sysfs_ldd"
        /\ d.init = sysfs_driver_init /\ d.unwind = sysfs_driver_unwind
        /\ d.exit = sysfs_driver_exit
    BY <1>9 DEF Sysfs
  <2>2. d.file \cup d.irq \subseteq {}
    BY <1>9 DEF Sysfs
  <2>3. MCLeaves[d] = {}
    BY <2>1, LeavesByName
  <2>4. d \notin MCSafe
    BY <2>1, SafeNames
  <2>5. d \notin UntestedThreads /\ d \notin OwnWorkqueueDriver
    BY <2>1, ExceptionNames
  <2> QED
    BY <2>1, <2>2, <2>3, <2>4, <2>5, SysfsTable DEF Passes, Ready
<1>10. CASE d = Led
  <2>1. /\ d.name = "led"
        /\ d.init = gpio_init /\ d.unwind = gpio_unwind
        /\ d.exit = gpio_exit
    BY <1>10 DEF Led
  <2>2. d.file \cup d.irq \subseteq {}
    BY <1>10 DEF Led
  <2>3. MCLeaves[d] = {"device"}
    BY <2>1, LeavesByName
  <2>4. d \in MCSafe
    BY <1>10 DEF MCSafe
  <2>5. d \notin UntestedThreads /\ d \notin OwnWorkqueueDriver
    BY <2>1, ExceptionNames
  <2> QED
    BY <2>1, <2>2, <2>3, <2>4, <2>5, LedTable DEF Passes, Ready
<1>11. CASE d = Interrupt
  <2>1. /\ d.name = "interrupt_ldd"
        /\ d.init = itr_driver_init /\ d.unwind = itr_driver_unwind
        /\ d.exit = itr_driver_exit
    BY <1>11 DEF Interrupt
  <2>2. d.file \cup d.irq \subseteq {}
    BY <1>11 DEF Interrupt
  <2>3. MCLeaves[d] = {"gpio"}
    BY <2>1, LeavesByName
  <2>4. d \notin MCSafe
    BY <2>1, SafeNames
  <2>5. d \notin UntestedThreads /\ d \notin OwnWorkqueueDriver
    BY <2>1, ExceptionNames
  <2> QED
    BY <2>1, <2>2, <2>3, <2>4, <2>5, InterruptTable DEF Passes, Ready
<1>12. CASE d = WqStatic
  <2>1. /\ d.name = "wq_static_ldd"
        /\ d.init = itr_driver_init /\ d.unwind = itr_driver_unwind
        /\ d.exit = itr_driver_exit
    BY <1>12 DEF WqStatic, Interrupt
  <2>2. d.file \cup d.irq \subseteq {}
    BY <1>12 DEF WqStatic, Interrupt
  <2>3. MCLeaves[d] = {"gpio"}
    BY <2>1, LeavesByName
  <2>4. d \notin MCSafe
    BY <2>1, SafeNames
  <2>5. d \notin UntestedThreads /\ d \notin OwnWorkqueueDriver
    BY <2>1, ExceptionNames
  <2> QED
    BY <2>1, <2>2, <2>3, <2>4, <2>5, InterruptTable DEF Passes, Ready
<1>13. CASE d = WqDyna
  <2>1. /\ d.name = "wq_dyna_ldd"
        /\ d.init = wq_dyna_init /\ d.unwind = wq_dyna_unwind
        /\ d.exit = wq_dyna_exit
    BY <1>13 DEF WqDyna
  <2>2. d.file \cup d.irq \subseteq {"wq", "work"}
    BY <1>13 DEF WqDyna
  <2>3. MCLeaves[d] = {"gpio", "device"}
    BY <2>1, LeavesByName
  <2>4. d \notin MCSafe
    BY <2>1, SafeNames
  <2>5. d \notin UntestedThreads /\ d \in OwnWorkqueueDriver
    BY <1>13, <2>1, ExceptionNames DEF OwnWorkqueueDriver
  <2> QED
    BY <2>1, <2>2, <2>3, <2>4, <2>5, WqDynaTable DEF Passes, Ready
<1>14. CASE d = LinkedListDriver
  <2>1. /\ d.name = "linked_list"
        /\ d.init = linked_list_init /\ d.unwind = linked_list_unwind
        /\ d.exit = linked_list_exit
    BY <1>14 DEF LinkedListDriver
  <2>2. d.file \cup d.irq \subseteq {}
    BY <1>14 DEF LinkedListDriver
  <2>3. MCLeaves[d] = {}
    BY <2>1, LeavesByName
  <2>4. d \in MCSafe
    BY <1>14 DEF MCSafe
  <2>5. d \notin UntestedThreads /\ d \notin OwnWorkqueueDriver
    BY <2>1, ExceptionNames
  <2> QED
    BY <2>1, <2>2, <2>3, <2>4, <2>5, LinkedListTable DEF Passes, Ready
<1>15. CASE d = Kthread
  <2>1. /\ d.name = "kthread_ldd"
        /\ d.init = kthread_driver_init /\ d.unwind = kthread_driver_unwind
        /\ d.exit = kthread_driver_exit
    BY <1>15 DEF Kthread
  <2>2. d.file \cup d.irq \subseteq {}
    BY <1>15 DEF Kthread
  <2>3. MCLeaves[d] = {}
    BY <2>1, LeavesByName
  <2>4. d \in MCSafe
    BY <1>15 DEF MCSafe
  <2>5. d \notin UntestedThreads /\ d \notin OwnWorkqueueDriver
    BY <2>1, ExceptionNames
  <2> QED
    BY <2>1, <2>2, <2>3, <2>4, <2>5, KthreadTable DEF Passes, Ready
<1>16. CASE d = TaskletStatic
  <2>1. /\ d.name = "tasklet_static_ldd"
        /\ d.init = tasket_static_init /\ d.unwind = tasket_static_unwind
        /\ d.exit = tasket_static_exit
    BY <1>16 DEF TaskletStatic
  <2>2. d.file \cup d.irq \subseteq {}
    BY <1>16 DEF TaskletStatic
  <2>3. MCLeaves[d] = {}
    BY <2>1, LeavesByName
  <2>4. d \notin MCSafe
    BY <2>1, SafeNames
  <2>5. d \notin UntestedThreads /\ d \notin OwnWorkqueueDriver
    BY <2>1, ExceptionNames
  <2> QED
    BY <2>1, <2>2, <2>3, <2>4, <2>5, TaskletStaticTable DEF Passes, Ready
<1>17. CASE d = TaskletDyna
  <2>1. /\ d.name = "tasklet_dyna_ldd"
        /\ d.init = tasket_dyna_init /\ d.unwind = tasket_dyna_unwind
        /\ d.exit = tasket_dyna_exit
    BY <1>17 DEF TaskletDyna
  <2>2. d.file \cup d.irq \subseteq {"tasklet", "tasklet_init"}
    BY <1>17 DEF TaskletDyna
  <2>3. MCLeaves[d] = {}
    BY <2>1, LeavesByName
  <2>4. d \notin MCSafe
    BY <2>1, SafeNames
  <2>5. d \notin UntestedThreads /\ d \notin OwnWorkqueueDriver
    BY <2>1, ExceptionNames
  <2> QED
    BY <2>1, <2>2, <2>3, <2>4, <2>5, TaskletDynaTable DEF Passes, Ready
<1>18. CASE d = MutexDriver
  <2>1. /\ d.name = "mutex_ldd"
        /\ d.init = mutex_driver_init /\ d.unwind = mutex_driver_unwind
        /\ d.exit = mutex_driver_exit
    BY <1>18 DEF MutexDriver
  <2>2. d.file \cup d.irq \subseteq {"lock"}
    BY <1>18 DEF MutexDriver
  <2>3. MCLeaves[d] = {}
    BY <2>1, LeavesByName
  <2>4. d \notin MCSafe
    BY <2>1, SafeNames
  <2>5. d \in UntestedThreads /\ d \notin OwnWorkqueueDriver
    BY <1>18, <2>1, ExceptionNames DEF UntestedThreads
  <2> QED
    BY <2>1, <2>2, <2>3, <2>4, <2>5, MutexTable DEF Passes, Ready
<1>19. CASE d = SpinlockDyna
  <2>1. /\ d.name = "spinlock_dyna_ldd"
        /\ d.init = mutex_driver_init /\ d.unwind = mutex_driver_unwind
        /\ d.exit = mutex_driver_exit
    BY <1>19 DEF SpinlockDyna, MutexDriver
  <2>2. d.file \cup d.irq \subseteq {"lock"}
    BY <1>19 DEF SpinlockDyna, MutexDriver
  <2>3. MCLeaves[d] = {}
    BY <2>1, LeavesByName
  <2>4. d \notin MCSafe
    BY <2>1, SafeNames
  <2>5. d \in UntestedThreads /\ d \notin OwnWorkqueueDriver
    BY <1>19, <2>1, ExceptionNames DEF UntestedThreads
  <2> QED
    BY <2>1, <2>2, <2>3, <2>4, <2>5, MutexTable DEF Passes, Ready
<1>20. CASE d = SpinlockStatic
  <2>1. /\ d.name = "spinlock_static_ldd"
        /\ d.init = spinlock_static_init /\ d.unwind = mutex_driver_unwind
        /\ d.exit = mutex_driver_exit
    BY <1>20 DEF SpinlockStatic, MutexDriver
  <2>2. d.file \cup d.irq \subseteq {}
    BY <1>20 DEF SpinlockStatic, MutexDriver
  <2>3. MCLeaves[d] = {}
    BY <2>1, LeavesByName
  <2>4. d \notin MCSafe
    BY <2>1, SafeNames
  <2>5. d \in UntestedThreads /\ d \notin OwnWorkqueueDriver
    BY <1>20, <2>1, ExceptionNames DEF UntestedThreads
  <2> QED
    BY <2>1, <2>2, <2>3, <2>4, <2>5, SpinlockStaticTable DEF Passes, Ready
<1>21. CASE d = SignalDriver
  <2>1. /\ d.name = "signal_ldd"
        /\ d.init = signal_driver_init /\ d.unwind = signal_driver_unwind
        /\ d.exit = signal_driver_exit
    BY <1>21 DEF SignalDriver
  <2>2. d.file \cup d.irq \subseteq {}
    BY <1>21 DEF SignalDriver
  <2>3. MCLeaves[d] = {}
    BY <2>1, LeavesByName
  <2>4. d \notin MCSafe
    BY <2>1, SafeNames
  <2>5. d \notin UntestedThreads /\ d \notin OwnWorkqueueDriver
    BY <2>1, ExceptionNames
  <2> QED
    BY <2>1, <2>2, <2>3, <2>4, <2>5, SignalTable DEF Passes, Ready
<1> QED
  BY <1>1, <1>2, <1>3, <1>4, <1>5, <1>6, <1>7, <1>8, <1>9, <1>10, <1>11,
     <1>12, <1>13, <1>14, <1>15, <1>16, <1>17, <1>18, <1>19, <1>20,
     <1>21 DEF AllDrivers

\* The course itself: some or all of its drivers, said to leave and to be safe
\* as MCDriverLifecycle lists them.
LessonDrivers ==
  /\ Drivers \subseteq AllDrivers
  /\ Leaves = MCLeaves
  /\ SafeDrivers = MCSafe \cap Drivers

\* The tables of the lessons pass the audits that the theorems above ask for,
\* with nothing in the lists of leftovers that is not really left behind, no
\* safe driver missing from the list of safe ones and no exception too many.
THEOREM TablesPass == LessonDrivers => (Spec => []AuditsAgree)
<1> SUFFICES ASSUME LessonDrivers PROVE Spec => []AuditsAgree
  OBVIOUS
<1>1. TypeOK => AuditsAgree
  <2> SUFFICES ASSUME drv \in Drivers PROVE AuditsAgree
    BY DEF TypeOK
  <2>1. Passes(drv) /\ Leaves[drv] = MCLeaves[drv]
    BY TablesAudited DEF LessonDrivers
  <2>2. drv \in SafeDrivers <=> drv \in MCSafe
    BY DEF LessonDrivers
  <2> QED
    BY <2>1, <2>2 DEF Passes, Audited, AuditsAgree
<1> QED
  BY <1>1, TypeCorrect, PTL

\* Hence, of every driver of the course and with any number of users: whatever
\* call of its init function fails, a refused load and an unload leave behind
\* only what is listed, the safe drivers release only what is held, dependents
\* go first, and the handlers find what they dereference.
THEOREM LessonsLoadAndUnload ==
  LessonDrivers =>
    (Spec => [](/\ LeavesOnlyKnown /\ ReleasesOnlyHeld
                /\ DependentsFirst /\ HandlersReady))
<1> SUFFICES ASSUME LessonDrivers
             PROVE  Spec => [](/\ LeavesOnlyKnown /\ ReleasesOnlyHeld
                               /\ DependentsFirst /\ HandlersReady)
  OBVIOUS
<1>1. \A d \in Drivers : /\ Covering(d, Leaves[d])
                        /\ Ordered(d, Leaves[d])
                        /\ Ready(d)
  BY TablesAudited DEF LessonDrivers, Passes, Audited
<1>2. \A d \in SafeDrivers : Safe(d)
  BY TablesAudited DEF LessonDrivers, Passes
<1>3. Spec => []LeavesOnlyKnown
  BY <1>1, CoveringSuffices
<1>4. Spec => []ReleasesOnlyHeld
  BY <1>2, SafeSuffices
<1>5. Spec => []DependentsFirst
  BY <1>1, OrderedSuffices
<1>6. Spec => []HandlersReady
  BY <1>1, ReadySuffices
<1> QED
  BY <1>3, <1>4, <1>5, <1>6, PTL

\* Of every driver but the one with its own work queue: after rmmod the next
\* insmod meets nothing of the driver that it would fail on, whatever loads were
\* refused before.
THEOREM LessonsReload ==
  LessonDrivers /\ OwnWorkqueueDriver \cap Drivers = {}
    => (Spec => []ReloadAfterRmmod)
<1> SUFFICES ASSUME LessonDrivers, OwnWorkqueueDriver \cap Drivers = {}
             PROVE  Spec => []ReloadAfterRmmod
  OBVIOUS
<1>1. \A d \in Drivers : Covering(d, Leaves[d]) /\ Reloadable(d, Leaves[d])
  BY TablesAudited DEF LessonDrivers, Passes, Audited
<1> QED
  BY <1>1, ReloadSuffices

\* Of every driver but those of lessons 16 and 17: after a load that returned
\* success its threads exist.
THEOREM LessonsReportThreads ==
  LessonDrivers /\ UntestedThreads \cap Drivers = {}
    => (Spec => []ReportedThreadsExist)
<1> SUFFICES ASSUME LessonDrivers, UntestedThreads \cap Drivers = {}
             PROVE  Spec => []ReportedThreadsExist
  OBVIOUS
<1>1. \A d \in Drivers : Reported(d)
  BY TablesAudited DEF LessonDrivers, Passes
<1> QED
  BY <1>1, ReportedSuffices

===============================================================================
