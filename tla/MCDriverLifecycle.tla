-------------------------- MODULE MCDriverLifecycle --------------------------
(***************************************************************************)
(* DriverLifecycle on the tables of the lessons' drivers.                  *)
(***************************************************************************)
EXTENDS DriverLifecycle, DriverTables, TLC

\* What each driver leaves behind at worst.
MCLeaves ==
  [d \in AllDrivers |->
     CASE d.name \in {"wq_dyna_dev", "wq_static_dev"} -> {"device", "thread"}
       [] d.name = "led" -> {"device"}
       [] d.name \in {"interrupt_ldd", "wq_static_ldd"} -> {"gpio"}
       [] d.name = "wq_dyna_ldd" -> {"gpio", "device"}
       [] OTHER -> {}]

\* The drivers that never release what they do not hold.
MCSafe ==
  {CharddDyna, CharddStatic, Dfile, InterDfile, Ioctl, Procfs, WqDynaDev,
   WqStaticDev, Led, LinkedListDriver, Kthread}

\* Those whose threads may be missing after a load that reported them.
UntestedThreads == {MutexDriver, SpinlockDyna, SpinlockStatic}

\* The one that cannot be loaded twice.
OwnWorkqueueDriver == {WqDyna}

UserSymmetry == Permutations(Users)

\* The lists above are right: the tables pass the audits that the properties
\* are derived from in DriverLifecycleProofs, and would not with one thing less
\* that stays behind, with one more driver called safe, or with one exception
\* less to the other two lists.
AuditsAgree ==
  /\ Covering(drv, Leaves[drv]) /\ Ordered(drv, Leaves[drv]) /\ Ready(drv)
  /\ \A r \in Leaves[drv] : ~Covering(drv, Leaves[drv] \ {r})
  /\ drv \in SafeDrivers <=> Safe(drv)
  /\ drv \in UntestedThreads <=> ~Reported(drv)
  /\ drv \in OwnWorkqueueDriver <=> ~Reloadable(drv, Leaves[drv])
===============================================================================
