-------------------------- MODULE DeferredWorkProofs --------------------------
(***************************************************************************)
(* Theorems about DeferredWork, for any number of users, values and        *)
(* interrupts.                                                             *)
(***************************************************************************)
EXTENDS DeferredWork, TLAPS

\* What the proofs need to know of the four drivers' init and exit functions.
LEMMA VariantFacts ==
  ASSUME NEW d \in AllVariants
  PROVE  /\ Len(d.init) \in 1..2
         /\ Len(d.exit) \in 1..3
         /\ d.static \in BOOLEAN
         /\ d.static => \A i \in 1..Len(d.exit) :
                          d.exit[i] \notin {"destroy", "free"}
         /\ ~d.static => Len(d.init) = 2 /\ d.init[2] = "ready"
<1>1. CASE d = WorkStatic
  BY <1>1 DEF WorkStatic
<1>2. CASE d = WorkOwnQueue
  BY <1>2 DEF WorkOwnQueue
<1>3. CASE d = TaskletStatic
  BY <1>3 DEF TaskletStatic
<1>4. CASE d = TaskletDyna
  BY <1>4 DEF TaskletDyna
<1> QED
  BY <1>1, <1>2, <1>3, <1>4 DEF AllVariants

\* The driver with its own queue destroys it, then frees its interrupt, and
\* has no writes.
LEMMA OwnQueueFacts ==
  ASSUME NEW d \in AllVariants, d.name = "wq_dyna_ldd"
  PROVE  /\ ~d.static
         /\ ~d.written
         /\ Len(d.exit) = 2
         /\ d.exit[1] = "destroy"
         /\ d.exit[2] = "irq"
<1>1. d = WorkOwnQueue
  BY DEF AllVariants, WorkStatic, WorkOwnQueue, TaskletStatic, TaskletDyna
<1> QED
  BY <1>1 DEF WorkOwnQueue

-----------------------------------------------------------------------------
\* Types are kept; in particular no init or exit function has a fourth step.
THEOREM TypeCorrect == Spec => []TypeOK
<1> USE ConstantsAssumption
<1>1. Init => TypeOK
  <2> SUFFICES ASSUME Init PROVE TypeOK
    OBVIOUS
  <2>1. drv.static \in BOOLEAN
    BY VariantFacts DEF Init
  <2>2. ready \in BOOLEAN /\ line \in BOOLEAN /\ pending \in BOOLEAN
        /\ unserved \in BOOLEAN
    BY <2>1 DEF Init
  <2> QED
    BY <2>2 DEF Init, TypeOK
<1>2. TypeOK /\ [Next]_vars => TypeOK'
  <2> SUFFICES ASSUME TypeOK, [Next]_vars PROVE TypeOK'
    OBVIOUS
  <2> USE DEF TypeOK, module, numbers
  <2>1. Len(drv.init) \in 1..2 /\ Len(drv.exit) \in 1..3
    BY VariantFacts
  <2>2. CASE InitStep
    <3>1. line' \in BOOLEAN /\ ready' \in BOOLEAN
      BY <2>2, Zenon DEF InitStep
    <3>2. pc' \in 1..4
      BY <2>1, <2>2 DEF InitStep
    <3> QED BY <2>2, <3>1, <3>2 DEF InitStep
  <2>3. CASE InitReturn BY <2>3 DEF InitReturn
  <2>4. CASE Rmmod BY <2>4 DEF Rmmod
  <2>5. CASE ExitStep
    <3>1. line' \in BOOLEAN /\ ready' \in BOOLEAN
      BY <2>5, Zenon DEF ExitStep
    <3>2. pc' \in 1..4
      BY <2>1, <2>5 DEF ExitStep
    <3> QED BY <2>5, <3>1, <3>2 DEF ExitStep
  <2>6. CASE ExitReturn BY <2>6 DEF ExitReturn
  <2>7. CASE Interrupt BY <2>7 DEF Interrupt
  <2>8. CASE Count BY <2>8 DEF Count
  <2>9. CASE Look BY <2>9 DEF Look
  <2>10. CASE phase # "oops" /\ HandlerSchedule
    BY <2>10 DEF HandlerSchedule, Schedule, Oops
  <2>11. ASSUME NEW u \in Users, NEW v \in Values, Store(u, v) PROVE TypeOK'
    BY <2>11 DEF Store
  <2>12. ASSUME NEW u \in Users, WriteSchedule(u), phase # "oops"
         PROVE TypeOK'
    BY <2>12 DEF WriteSchedule, Schedule, Oops
  <2>13. CASE phase # "oops" /\ StartRun
    BY <2>13 DEF StartRun, Oops
  <2>14. CASE phase # "oops" /\ Show
    BY <2>14 DEF Show, Oops
  <2>15. CASE phase # "oops" /\ EndRun
    BY <2>15 DEF EndRun, Oops
  <2>16. CASE UNCHANGED vars BY <2>16 DEF vars
  <2> QED
    BY <2>2, <2>3, <2>4, <2>5, <2>6, <2>7, <2>8, <2>9, <2>10, <2>11, <2>12,
       <2>13, <2>14, <2>15, <2>16 DEF Next, Module, Handler, Runner
<1> QED
  BY <1>1, <1>2, PTL DEF Spec

-----------------------------------------------------------------------------
(* No event is lost.  NothingLost speaks of quiet moments only.  At every  *)
(* moment an event that no run has followed is on its way to one: its own  *)
(* handler or write has yet to schedule, or the item is pending, or a run  *)
(* has started that has not looked yet.                                    *)

Coming ==
  \/ pending
  \/ run = "started"
  \/ hpc \in {"look", "schedule"}
  \/ \E u \in Users : wpc[u] = "schedule"

ServedInv == phase # "oops" => (unserved \/ shown # value => Coming)

\* Nothing that an interrupt or a write has asked for is lost when the handler
\* skips its schedule or two schedules become one run.
THEOREM EventsKept == Spec => []NothingLost
<1>1. Init => ServedInv
  BY DEF Init, ServedInv
<1>2. TypeOK /\ ServedInv /\ [Next]_vars => ServedInv'
  <2> SUFFICES ASSUME TypeOK, ServedInv, [Next]_vars PROVE ServedInv'
    OBVIOUS
  <2> USE DEF ServedInv, Coming, module, numbers
  <2>1. CASE InitStep BY <2>1 DEF InitStep
  <2>2. CASE InitReturn BY <2>2 DEF InitReturn
  <2>3. CASE Rmmod BY <2>3 DEF Rmmod
  <2>4. CASE ExitStep BY <2>4 DEF ExitStep
  <2>5. CASE ExitReturn BY <2>5 DEF ExitReturn
  <2>6. CASE Interrupt BY <2>6 DEF Interrupt
  <2>7. CASE Count BY <2>7 DEF Count
  <2>8. CASE Look BY <2>8 DEF Look
  <2>9. CASE phase # "oops" /\ HandlerSchedule
    BY <2>9 DEF HandlerSchedule, Schedule, Oops
  <2>10. ASSUME NEW u \in Users, NEW v \in Values, Store(u, v)
         PROVE ServedInv'
    BY <2>10 DEF Store, TypeOK
  <2>11. ASSUME NEW u \in Users, WriteSchedule(u), phase # "oops"
         PROVE ServedInv'
    BY <2>11 DEF WriteSchedule, Schedule, Oops, TypeOK
  <2>12. CASE phase # "oops" /\ StartRun BY <2>12 DEF StartRun, Oops
  <2>13. CASE phase # "oops" /\ Show BY <2>13 DEF Show, Oops
  <2>14. CASE phase # "oops" /\ EndRun BY <2>14 DEF EndRun, Oops
  <2>15. CASE UNCHANGED vars BY <2>15 DEF vars
  <2> QED
    BY <2>1, <2>2, <2>3, <2>4, <2>5, <2>6, <2>7, <2>8, <2>9, <2>10, <2>11,
       <2>12, <2>13, <2>14, <2>15 DEF Next, Module, Handler, Runner
<1>3. ServedInv => NothingLost
  BY DEF ServedInv, Coming, NothingLost, Quiet
<1> QED
  BY <1>1, <1>2, <1>3, TypeCorrect, PTL DEF Spec

-----------------------------------------------------------------------------
(* Where faults are possible.  ReadyInv: in which phases the item exists.  *)
(* QueueInv: the own queue is empty once it is destroyed, and nobody is    *)
(* left to fill it once the interrupt is freed too.                        *)

ReadyInv ==
  /\ drv.static => ready
  /\ phase = "init" /\ pc > Len(drv.init) => ready
  /\ phase = "live" => ready
  /\ fault # "none" => phase = "oops"

QueueInv ==
  drv.name = "wq_dyna_ldd" =>
    /\ ~ready => ~pending /\ run = "idle"
    /\ (phase = "exit" /\ pc > 1) \/ phase = "gone" => ~ready
    /\ (phase = "exit" /\ pc > 2) \/ phase = "gone" => ~line /\ hpc = "idle"
    /\ \A u \in Users : wpc[u] = "idle"

\* An item that is ready stays so until the exit function takes it away.
LEMMA ReadyKept == TypeOK /\ ReadyInv /\ [Next]_vars => ReadyInv'
<1> SUFFICES ASSUME TypeOK, ReadyInv, [Next]_vars PROVE ReadyInv'
  OBVIOUS
<1> USE DEF ReadyInv, module, numbers
<1>1. drv \in AllVariants /\ pc \in 1..4
  BY ConstantsAssumption DEF TypeOK
<1>2. CASE InitStep
  <2>1. drv' = drv /\ phase' = "init" /\ fault' = fault
    BY <1>2 DEF InitStep
  <2>2. drv.static => ready'
    BY <1>2, Zenon DEF InitStep
  <2>3. ASSUME pc' > Len(drv.init), ~drv.static PROVE ready'
    <3>1. drv.init[pc] = "ready"
      BY <1>1, <1>2, <2>3, VariantFacts DEF InitStep
    <3> QED BY <1>2, <3>1, Zenon DEF InitStep
  <2>4. fault' # "none" => phase' = "oops"
    BY <1>2, <2>1 DEF InitStep
  <2> QED BY <2>1, <2>2, <2>3, <2>4, Zenon
<1>3. CASE ExitStep
  <2>1. drv' = drv /\ phase' = "exit" /\ fault' = fault
    BY <1>3 DEF ExitStep
  <2>2. ASSUME drv.static PROVE ready'
    <3>1. drv.exit[pc] \notin {"destroy", "free"}
      BY <1>1, <1>3, <2>2, VariantFacts DEF ExitStep
    <3> QED BY <1>3, <2>2, <3>1, Zenon DEF ExitStep
  <2>3. fault' # "none" => phase' = "oops"
    BY <1>3, <2>1 DEF ExitStep
  <2> QED BY <2>1, <2>2, <2>3, Zenon
<1>4. CASE InitReturn BY <1>1, <1>4 DEF InitReturn
<1>5. CASE Rmmod BY <1>5 DEF Rmmod
<1>6. CASE ExitReturn BY <1>6 DEF ExitReturn
<1>7. CASE Interrupt BY <1>7 DEF Interrupt
<1>8. CASE Count BY <1>8 DEF Count
<1>9. CASE Look BY <1>9 DEF Look
<1>10. CASE HandlerSchedule BY <1>10 DEF HandlerSchedule, Schedule, Oops
<1>11. ASSUME NEW u \in Users, NEW v \in Values, Store(u, v) PROVE ReadyInv'
  BY <1>11 DEF Store
<1>12. ASSUME NEW u \in Users, WriteSchedule(u) PROVE ReadyInv'
  BY <1>12 DEF WriteSchedule, Schedule, Oops
<1>13. CASE StartRun BY <1>13 DEF StartRun, Oops
<1>14. CASE Show BY <1>14 DEF Show, Oops
<1>15. CASE EndRun BY <1>15 DEF EndRun, Oops
<1>16. CASE UNCHANGED vars BY <1>16 DEF vars
<1> QED
  BY <1>2, <1>3, <1>4, <1>5, <1>6, <1>7, <1>8, <1>9, <1>10, <1>11, <1>12,
     <1>13, <1>14, <1>15, <1>16 DEF Next, Module, Handler, Runner

\* The own queue stays empty once it is destroyed.
LEMMA QueueKept ==
  TypeOK /\ ReadyInv /\ QueueInv /\ [Next]_vars => QueueInv'
<1> SUFFICES ASSUME TypeOK, ReadyInv, QueueInv, [Next]_vars,
                    drv'.name = "wq_dyna_ldd"
             PROVE  QueueInv'
  BY DEF QueueInv
<1> USE DEF QueueInv, module, numbers
<1>1. drv' = drv
  BY DEF Next, Module, InitStep, InitReturn, ExitStep, ExitReturn, Rmmod,
         Interrupt, Handler, Count, Look, HandlerSchedule, Store,
         WriteSchedule, Runner, StartRun, Show, EndRun, vars
<1>2. drv \in AllVariants /\ pc \in 1..4 /\ wpc \in [Users -> {"idle", "schedule"}]
  BY ConstantsAssumption DEF TypeOK
<1>3. ~drv.written /\ Len(drv.exit) = 2
      /\ drv.exit[1] = "destroy" /\ drv.exit[2] = "irq"
  BY <1>1, <1>2, OwnQueueFacts
<1>4. CASE InitStep
  <2>1. ~ready' => ~ready
    BY <1>4, Zenon DEF InitStep
  <2> QED BY <1>1, <1>4, <2>1 DEF InitStep
<1>5. CASE ExitStep
  <2>1. pc \in 1..2 /\ phase = "exit" /\ phase' = "exit" /\ pc' = pc + 1
    BY <1>2, <1>3, <1>5 DEF ExitStep
  <2>2. CASE pc = 1
    <3>1. ~ready' /\ ~pending' /\ run' = "idle"
      BY <1>3, <1>5, <2>2, Zenon DEF ExitStep
    <3> QED BY <1>1, <1>5, <2>1, <2>2, <3>1 DEF ExitStep
  <2>3. CASE pc = 2
    <3>1. ~line' /\ hpc' = "idle"
      BY <1>3, <1>5, <2>3, Zenon DEF ExitStep
    <3>2. ~ready /\ ~pending /\ run = "idle"
      BY <1>1, <2>1, <2>3
    <3>3. ~ready' /\ ~pending' /\ run' = "idle"
      BY <1>5, <3>2, Zenon DEF ExitStep
    <3> QED BY <1>1, <1>5, <2>1, <3>1, <3>3 DEF ExitStep
  <2> QED BY <2>1, <2>2, <2>3
<1>6. CASE InitReturn BY <1>1, <1>6 DEF InitReturn
<1>7. CASE Rmmod BY <1>1, <1>7 DEF Rmmod
<1>8. CASE ExitReturn BY <1>1, <1>2, <1>3, <1>8 DEF ExitReturn
<1>9. CASE Interrupt BY <1>1, <1>9 DEF Interrupt
<1>10. CASE Count BY <1>1, <1>10 DEF Count
<1>11. CASE Look BY <1>1, <1>11 DEF Look
<1>12. CASE phase # "oops" /\ HandlerSchedule
  BY <1>1, <1>12 DEF HandlerSchedule, Schedule, Oops
<1>13. ASSUME NEW u \in Users, NEW v \in Values, Store(u, v) PROVE QueueInv'
  BY <1>3, <1>13 DEF Store
<1>14. ASSUME NEW u \in Users, WriteSchedule(u) PROVE QueueInv'
  BY <1>1, <1>14 DEF WriteSchedule
<1>15. CASE StartRun BY <1>1, <1>15 DEF StartRun, Oops
<1>16. CASE Show BY <1>1, <1>16 DEF Show, Oops
<1>17. CASE EndRun BY <1>1, <1>17 DEF EndRun, Oops
<1>18. CASE UNCHANGED vars BY <1>18 DEF vars
<1> QED
  BY <1>4, <1>5, <1>6, <1>7, <1>8, <1>9, <1>10, <1>11, <1>12, <1>13, <1>14,
     <1>15, <1>16, <1>17, <1>18 DEF Next, Module, Handler, Runner

\* What a driver's table of known faults holds.
LEMMA KnownFaultsFacts ==
  ASSUME NEW d \in AllVariants
  PROVE  /\ d.static => "gone" \in KnownFaults[d.name]
         /\ ~d.static => {"init", "exit"} \subseteq KnownFaults[d.name]
         /\ ~d.static /\ d.name # "wq_dyna_ldd" => "gone" \in KnownFaults[d.name]
<1>1. d.name \in {e.name : e \in AllVariants}
  OBVIOUS
<1>2. KnownFaults[d.name] =
        CASE d.name \in {"wq_static_ldd", "tasklet_static_ldd"} -> {"gone"}
          [] d.name = "wq_dyna_ldd" -> {"init", "exit"}
          [] OTHER -> {"init", "exit", "gone"}
  BY <1>1, Zenon DEF KnownFaults
<1>3. CASE d = WorkStatic BY <1>2, <1>3 DEF WorkStatic
<1>4. CASE d = WorkOwnQueue BY <1>2, <1>4 DEF WorkOwnQueue
<1>5. CASE d = TaskletStatic BY <1>2, <1>5 DEF TaskletStatic
<1>6. CASE d = TaskletDyna BY <1>2, <1>6 DEF TaskletDyna
<1> QED
  BY <1>3, <1>4, <1>5, <1>6 DEF AllVariants

\* A fault comes only in the phases listed for the driver: never between the
\* return of its init function and the start of its exit function, and with an
\* own queue never after it.
THEOREM FaultsBounded == Spec => []FaultsOnlyWhereKnown
<1> DEFINE FaultInv == ReadyInv /\ QueueInv /\ FaultsOnlyWhereKnown
<1> USE ConstantsAssumption
<1>1. Init => FaultInv
  <2> SUFFICES ASSUME Init PROVE FaultInv
    OBVIOUS
  <2>1. drv \in AllVariants
    BY DEF Init
  <2>2. Len(drv.init) \in 1..2
    BY <2>1, VariantFacts
  <2>3. ReadyInv
    <3>1. drv.static => ready
      BY Zenon DEF Init
    <3>2. pc = 1 /\ phase = "init" /\ fault = "none"
      BY Zenon DEF Init
    <3>3. ~(pc > Len(drv.init))
      BY <2>2, <3>2
    <3> QED BY <3>1, <3>2, <3>3, Zenon DEF ReadyInv
  <2>4. QueueInv
    BY DEF Init, QueueInv
  <2> QED
    BY <2>3, <2>4 DEF Init, FaultsOnlyWhereKnown
<1>2. TypeOK /\ FaultInv /\ [Next]_vars => FaultInv'
  <2> SUFFICES ASSUME TypeOK, FaultInv, [Next]_vars
               PROVE  FaultsOnlyWhereKnown'
    BY ReadyKept, QueueKept
  <2>1. drv \in AllVariants
    BY DEF TypeOK
  <2>2. CASE fault' = fault /\ drv' = drv
    BY <2>2 DEF FaultsOnlyWhereKnown
  <2>3. CASE drv' = drv /\ fault' = phase /\ phase # "oops"
             /\ (~ready \/ phase = "gone") /\ drv.static
    <3>1. phase = "gone"
      BY <2>3 DEF ReadyInv
    <3> QED BY <2>1, <2>3, <3>1, KnownFaultsFacts DEF FaultsOnlyWhereKnown
  <2>4. CASE drv' = drv /\ fault' = phase /\ phase # "oops"
             /\ (~ready \/ phase = "gone") /\ ~drv.static
             /\ (drv.name = "wq_dyna_ldd" => phase # "gone")
    <3>1. phase \in {"init", "exit", "gone"}
      BY <2>4 DEF TypeOK, ReadyInv
    <3> QED BY <2>1, <2>4, <3>1, KnownFaultsFacts DEF FaultsOnlyWhereKnown
  <2>5. drv.name = "wq_dyna_ldd" =>
          ~drv.static /\ (phase = "gone" =>
             hpc = "idle" /\ ~pending /\ run = "idle"
             /\ \A u \in Users : wpc[u] = "idle")
    BY <2>1, OwnQueueFacts DEF QueueInv
  <2>6. \/ fault' = fault /\ drv' = drv
        \/ /\ drv' = drv /\ fault' = phase /\ phase # "oops"
           /\ ~ready \/ phase = "gone"
           /\ \/ hpc # "idle" \/ pending \/ run # "idle"
              \/ \E u \in Users : wpc[u] # "idle"
    BY DEF Next, Module, InitStep, InitReturn, ExitStep, ExitReturn, Rmmod,
           Interrupt, Handler, Count, Look, HandlerSchedule, Schedule, Store,
           WriteSchedule, Runner, StartRun, Show, EndRun, Oops, Alive, vars,
           module
  <2> QED
    BY <2>2, <2>3, <2>4, <2>5, <2>6
<1>3. FaultInv => FaultsOnlyWhereKnown
  OBVIOUS
<1> QED
  BY <1>1, <1>2, <1>3, TypeCorrect, PTL DEF Spec

-----------------------------------------------------------------------------
(* Requests are merged and served, never dropped: each step of the machine *)
(* is a step of MergedRequests or leaves the requests alone.               *)
Open == {h \in Holders : phase # "oops" /\ Holds(h)}

\* The holders are different from each other.
LEMMA HoldersDiffer ==
  /\ <<"handler">> \in Holders /\ <<"item">> \in Holders /\ <<"run">> \in Holders
  /\ \A u \in Users : <<"write", u>> \in Holders
  /\ <<"handler">> # <<"item">> /\ <<"handler">> # <<"run">> /\ <<"item">> # <<"run">>
  /\ \A u \in Users : <<"write", u>> \notin {<<"handler">>, <<"item">>, <<"run">>}
  /\ \A u, v \in Users : <<"write", u>> = <<"write", v>> => u = v
<1>1. \A h \in {<<"handler">>, <<"item">>, <<"run">>} : Len(h) = 1
  OBVIOUS
<1>2. \A u \in Users : Len(<<"write", u>>) = 2
  OBVIOUS
<1>3. \A u, v \in Users : <<"write", u>> = <<"write", v>> => u = v
  OBVIOUS
<1>4. <<"handler">>[1] = "handler" /\ <<"item">>[1] = "item" /\ <<"run">>[1] = "run"
  OBVIOUS
<1>5. \A u \in Users : <<"write", u>> \in {"write"} \X Users
  OBVIOUS
<1> QED
  BY <1>1, <1>2, <1>3, <1>4, <1>5 DEF Holders

\* A step that leaves the holders alone is not seen.
LEMMA Stutters ==
  ASSUME phase # "oops", phase' # "oops",
         UNCHANGED <<wpc, pending, value, shown, unserved>>,
         hpc' = hpc \/ {hpc, hpc'} \subseteq {"idle", "count"},
         run' = "started" <=> run = "started"
  PROVE  UNCHANGED Merged!vars
<1>1. \A h : Holds(h)' <=> Holds(h)
  BY DEF Holds
<1>2. Open' = Open
  BY <1>1 DEF Open, Holders
<1> QED
  BY <1>2, Zenon DEF Merged!vars, Open

\* Once something is used that does not exist, nothing is promised.
LEMMA OopsBreaks ==
  ASSUME phase # "oops", phase' = "oops", UNCHANGED <<value, shown, unserved>>
  PROVE  Merged!Next
<1>1. Open' = {}
  BY DEF Open
<1> QED
  BY <1>1 DEF Merged!Next, Merged!Break, Open

\* The handler has begun: its request is open.
LEMMA CountAsks ==
  ASSUME TypeOK, Count, phase # "oops"
  PROVE  Merged!Ask(<<"handler">>)
<1>1. ~Holds(<<"handler">>)
  BY HoldersDiffer DEF Count, Holds
<1>2. \A h \in Holders : Holds(h)' <=> Holds(h) \/ h = <<"handler">>
  BY HoldersDiffer DEF Count, Holds
<1>3. phase' # "oops"
  BY DEF Count, module
<1>4. Open' = Open \cup {<<"handler">>} /\ <<"handler">> \notin Open
  BY <1>1, <1>2, <1>3, HoldersDiffer DEF Open, Holders, Count
<1>5. value' \in Values /\ unserved' = TRUE /\ shown' = shown
  BY DEF Count, TypeOK
<1> QED
  BY <1>3, <1>4, <1>5 DEF Merged!Ask, Open

\* So is that of a write that has stored its number.
LEMMA StoreAsks ==
  ASSUME TypeOK, phase # "oops", NEW u \in Users, NEW v \in Values, Store(u, v)
  PROVE  Merged!Ask(<<"write", u>>)
<1>1. wpc' = [wpc EXCEPT ![u] = "schedule"] /\ wpc[u] = "idle"
  BY DEF Store
<1>2. ~Holds(<<"write", u>>)
  BY <1>1, HoldersDiffer DEF Holds
<1>3. \A w \in Users : wpc'[w] = "schedule" <=> wpc[w] = "schedule" \/ w = u
  BY <1>1 DEF TypeOK
<1>4. \A h \in Holders : Holds(h)' <=> Holds(h) \/ h = <<"write", u>>
  BY <1>3, HoldersDiffer DEF Store, Holds
<1>5. phase' # "oops"
  BY DEF Store, module
<1>6. Open' = Open \cup {<<"write", u>>} /\ <<"write", u>> \notin Open
  BY <1>2, <1>4, <1>5, HoldersDiffer DEF Open
<1>7. value' \in Values /\ unserved' = TRUE /\ shown' = shown
  BY DEF Store
<1> QED
  BY <1>5, <1>6, <1>7 DEF Merged!Ask, Open

\* A handler that finds the item pending gives up its request for the item's.
LEMMA LookMerges ==
  ASSUME phase # "oops", Look
  PROVE  Merged!Next \/ UNCHANGED Merged!vars
<1>1. CASE pending
  <2>1. \A h \in Holders : Holds(h)' <=> Holds(h) /\ h # <<"handler">>
    BY <1>1, HoldersDiffer DEF Look, Holds
  <2>2. Holds(<<"handler">>) /\ Holds(<<"item">>)
    BY <1>1 DEF Look, Holds
  <2>3. phase' # "oops" /\ UNCHANGED <<value, shown, unserved>>
    BY DEF Look, module, numbers
  <2>4. Open' = Open \ {<<"handler">>} /\ <<"handler">> \in Open
        /\ Open # {<<"handler">>}
    BY <2>1, <2>2, <2>3, HoldersDiffer DEF Open
  <2>5. Merged!Merge(<<"handler">>)
    BY <2>3, <2>4 DEF Merged!Merge, Open
  <2> QED
    BY <2>5, HoldersDiffer DEF Merged!Next
<1>2. CASE ~pending
  <2>1. \A h : Holds(h)' <=> Holds(h)
    BY <1>2 DEF Look, Holds
  <2>2. Open' = Open
    BY <2>1 DEF Open, Holders, Look, module
  <2> QED
    BY <2>2, Zenon DEF Merged!vars, Open, Look, module, numbers
<1> QED
  BY <1>1, <1>2

\* Scheduling hands the request on to the item, or merges it with the one the
\* item has already.
LEMMA ScheduleHandsOn ==
  ASSUME phase # "oops", Schedule, NEW h \in Holders, h # <<"item">>, Holds(h),
         UNCHANGED <<run, value, shown, unserved>>,
         \A i \in Holders : i # <<"item">> =>
           (Holds(i)' <=> Holds(i) /\ i # h)
  PROVE  Merged!Next
<1>1. CASE ~ready
  BY <1>1, OopsBreaks DEF Schedule, Oops
<1>2. CASE ready
  <2>1. phase' # "oops" /\ Holds(<<"item">>)'
    BY <1>2 DEF Schedule, Holds
  <2>2. Open' = (Open \ {h}) \cup {<<"item">>}
    BY <2>1, HoldersDiffer DEF Open
  <2>3. h \in Open
    BY DEF Open
  <2>4. CASE pending
    <3>1. <<"item">> \in Open
      BY <2>4, HoldersDiffer DEF Open, Holds
    <3>2. Open' = Open \ {h} /\ Open # {h}
      BY <2>2, <3>1
    <3>3. Merged!Merge(h)
      BY <2>1, <2>3, <3>2 DEF Merged!Merge, Open
    <3> QED
      BY <3>3 DEF Merged!Next
  <2>5. CASE ~pending
    <3>1. <<"item">> \notin Open
      BY <2>5, HoldersDiffer DEF Open, Holds
    <3>2. Merged!HandOn(h, <<"item">>)
      BY <2>1, <2>2, <2>3, <3>1 DEF Merged!HandOn, Open
    <3> QED
      BY <3>2, HoldersDiffer DEF Merged!Next
  <2> QED
    BY <2>4, <2>5
<1> QED
  BY <1>1, <1>2

LEMMA HandlerHandsOn ==
  ASSUME phase # "oops", HandlerSchedule
  PROVE  Merged!Next
<1>1. Holds(<<"handler">>)
  BY DEF HandlerSchedule, Holds
<1>2. \A i \in Holders : i # <<"item">> =>
        (Holds(i)' <=> Holds(i) /\ i # <<"handler">>)
  BY HoldersDiffer DEF HandlerSchedule, Holds
<1> QED
  BY <1>1, <1>2, ScheduleHandsOn, HoldersDiffer DEF HandlerSchedule, numbers

LEMMA WriteHandsOn ==
  ASSUME TypeOK, phase # "oops", NEW u \in Users, WriteSchedule(u)
  PROVE  Merged!Next
<1>1. Holds(<<"write", u>>)
  BY DEF WriteSchedule, Holds
<1>2. \A w \in Users : wpc'[w] = "schedule" <=> wpc[w] = "schedule" /\ w # u
  BY DEF WriteSchedule, TypeOK
<1>3. \A i \in Holders : i # <<"item">> =>
        (Holds(i)' <=> Holds(i) /\ i # <<"write", u>>)
  BY <1>2, HoldersDiffer DEF WriteSchedule, Holds
<1> QED
  BY <1>1, <1>3, ScheduleHandsOn, HoldersDiffer DEF WriteSchedule, numbers

\* The kernel clears the bit: the request is now the run's.
LEMMA StartHandsOn ==
  ASSUME phase # "oops", StartRun
  PROVE  Merged!Next
<1>1. CASE ~Alive
  BY <1>1, OopsBreaks DEF StartRun, Oops, numbers
<1>2. CASE Alive
  <2>1. \A h \in Holders :
          Holds(h)' <=> (Holds(h) /\ h # <<"item">>) \/ h = <<"run">>
    BY <1>2, HoldersDiffer DEF StartRun, Holds
  <2>2. Holds(<<"item">>) /\ ~Holds(<<"run">>)
    BY HoldersDiffer DEF StartRun, Holds
  <2>3. phase' # "oops" /\ UNCHANGED <<value, shown, unserved>>
    BY <1>2 DEF StartRun, numbers
  <2>4. Open' = (Open \ {<<"item">>}) \cup {<<"run">>}
        /\ <<"item">> \in Open /\ <<"run">> \notin Open
    BY <2>1, <2>2, <2>3, HoldersDiffer DEF Open
  <2>5. Merged!HandOn(<<"item">>, <<"run">>)
    BY <2>3, <2>4 DEF Merged!HandOn, Open
  <2> QED
    BY <2>5, HoldersDiffer DEF Merged!Next
<1> QED
  BY <1>1, <1>2

\* The log line of the function: the request is closed, with the number of now.
LEMMA ShowServes ==
  ASSUME phase # "oops", Show
  PROVE  Merged!Next
<1>1. CASE ~Alive
  BY <1>1, OopsBreaks DEF Show, Oops
<1>2. CASE Alive
  <2>1. \A h \in Holders : Holds(h)' <=> Holds(h) /\ h # <<"run">>
    BY <1>2, HoldersDiffer DEF Show, Holds
  <2>2. Holds(<<"run">>)
    BY DEF Show, Holds
  <2>3. phase' # "oops" /\ value' = value /\ shown' = value /\ unserved' = FALSE
    BY <1>2 DEF Show
  <2>4. Open' = Open \ {<<"run">>} /\ <<"run">> \in Open
    BY <2>1, <2>2, <2>3, HoldersDiffer DEF Open
  <2>5. Merged!Serve(<<"run">>)
    BY <2>3, <2>4 DEF Merged!Serve, Open
  <2> QED
    BY <2>5, HoldersDiffer DEF Merged!Next
<1> QED
  BY <1>1, <1>2

\* Work items and tasklets keep the promise of MergedRequests, for any number of
\* writers, numbers and interrupts: every request is merged with one that is
\* still to be served or served itself, and no run comes without a request.
THEOREM Refinement == Spec => Implements
<1>1. Init => Merged!Init
  <2> SUFFICES ASSUME Init PROVE Merged!Init
    OBVIOUS
  <2>1. \A h : ~Holds(h)
    BY DEF Init, Holds
  <2> QED
    BY <2>1 DEF Init, Merged!Init
<1>2. TypeOK /\ [Next]_vars => [Merged!Next]_(Merged!vars)
  <2> SUFFICES ASSUME TypeOK, [Next]_vars
               PROVE  Merged!Next \/ UNCHANGED Merged!vars
    OBVIOUS
  <2>1. CASE phase # "oops" /\ (InitStep \/ InitReturn \/ ExitStep \/ ExitReturn
                                \/ Rmmod \/ Interrupt)
    <3>1. /\ UNCHANGED <<wpc, pending, run, value, shown, unserved>>
          /\ phase' # "oops"
          /\ hpc' = hpc \/ {hpc, hpc'} \subseteq {"idle", "count"}
      BY <2>1 DEF InitStep, InitReturn, ExitStep, ExitReturn, Rmmod, Interrupt,
                  numbers, module
    <3> QED
      BY <2>1, <3>1, Stutters
  <2>2. CASE phase # "oops" /\ Count
    BY <2>2, CountAsks, HoldersDiffer DEF Merged!Next
  <2>3. CASE phase # "oops" /\ Look
    BY <2>3, LookMerges
  <2>4. CASE phase # "oops" /\ HandlerSchedule
    BY <2>4, HandlerHandsOn
  <2>5. ASSUME NEW u \in Users, NEW v \in Values, Store(u, v), phase # "oops"
        PROVE  Merged!Next
    BY <2>5, StoreAsks, HoldersDiffer DEF Merged!Next
  <2>6. ASSUME NEW u \in Users, WriteSchedule(u), phase # "oops"
        PROVE  Merged!Next
    BY <2>6, WriteHandsOn
  <2>7. CASE phase # "oops" /\ StartRun
    BY <2>7, StartHandsOn
  <2>8. CASE phase # "oops" /\ Show
    BY <2>8, ShowServes
  <2>9. CASE phase # "oops" /\ EndRun
    <3>1. CASE Alive
      <4>1. /\ UNCHANGED <<hpc, wpc, pending, value, shown, unserved>>
            /\ run = "ending" /\ run' = "idle" /\ phase' # "oops"
        BY <2>9, <3>1 DEF EndRun, numbers
      <4> QED
        BY <2>9, <4>1, Stutters
    <3>2. CASE ~Alive
      BY <2>9, <3>2, OopsBreaks DEF EndRun, Oops, numbers
    <3> QED
      BY <3>1, <3>2
  <2>10. CASE UNCHANGED vars
    <3>1. \A h : Holds(h)' <=> Holds(h)
      BY <2>10 DEF vars, Holds
    <3>2. Open' = Open
      BY <2>10, <3>1 DEF Open, Holders, vars
    <3> QED
      BY <2>10, <3>2, Zenon DEF Merged!vars, Open, vars
  <2> QED
    BY <2>1, <2>2, <2>3, <2>4, <2>5, <2>6, <2>7, <2>8, <2>9, <2>10
       DEF Next, Module, Handler, Runner
<1> QED
  BY <1>1, <1>2, TypeCorrect, PTL DEF Spec, Implements, Merged!Spec
===============================================================================
