------------------------------ MODULE WaitQueue ------------------------------
(***************************************************************************)
(* wq_dyna_dev.c and wq_static_dev.c: a kernel thread sleeps until a read  *)
(* of the device sets a flag.  The flag is a plain variable; only the      *)
(* order of the accesses, and the kernel's wait_event and wake_up, keep    *)
(* the thread from sleeping through an event.                              *)
(*                                                                         *)
(* The behaviour starts when the init function has returned.               *)
(***************************************************************************)
EXTENDS Naturals

CONSTANTS
  Users,      \* processes that read the device
  MaxReads    \* bound of the model: how many reads happen in all

ASSUME MaxReadsAssumption == MaxReads \in Nat

VARIABLES
  loaded,     \* the module's code and data exist
  flag,       \* 0 nothing, 1 a read, 2 the exit function (which never says so)
  count,      \* events the thread has reported
  tpc,        \* where thread_handle is
  waiting,    \* the thread is queued and marked as sleeping
  rpc,        \* rpc[u]: where u's device_read is
  reads,      \* history: how many reads have set the flag
  unreported  \* history: a read has set the flag since the last report

thread  == <<tpc, waiting>>
history == <<reads, unreported>>
vars    == <<loaded, flag, count, tpc, waiting, rpc, reads, unreported>>

Init ==
  /\ loaded = TRUE
  /\ flag = 0
  /\ count = 0
  /\ tpc = "loop"
  /\ waiting = FALSE
  /\ rpc = [u \in Users |-> "idle"]
  /\ reads = 0
  /\ unreported = FALSE

-----------------------------------------------------------------------------
(* thread_handle.  Nobody calls kthread_stop, so kthread_should_stop() is  *)
(* false at the head of the loop, every time.                              *)

Loop ==
  /\ tpc = "loop"
  /\ tpc' = "check"
  /\ UNCHANGED <<loaded, flag, count, waiting, rpc, history>>

(* wait_event_interruptible: look; queue, look again; sleep; and so on.    *)

Check ==
  /\ tpc = "check"
  /\ tpc' = IF flag # 0 THEN "awake" ELSE "prepare"
  /\ UNCHANGED <<loaded, flag, count, waiting, rpc, history>>

Prepare ==
  /\ tpc = "prepare"
  /\ waiting' = TRUE
  /\ tpc' = "recheck"
  /\ UNCHANGED <<loaded, flag, count, rpc, history>>

Recheck ==
  /\ tpc = "recheck"
  /\ IF flag # 0
     THEN tpc' = "awake" /\ waiting' = FALSE
     ELSE tpc' = "schedule" /\ UNCHANGED waiting
  /\ UNCHANGED <<loaded, flag, count, rpc, history>>

\* schedule() returns once a wake-up has taken the thread off the queue.
Schedule ==
  /\ tpc = "schedule"
  /\ ~waiting
  /\ tpc' = "prepare"
  /\ UNCHANGED <<loaded, flag, count, waiting, rpc, history>>

\* Mutant: the event of a read is taken for the exit function's.
TestFlag_M ==
  /\ tpc = "awake"
  /\ tpc' = IF flag = 1 THEN "done" ELSE "count"
  /\ UNCHANGED <<loaded, flag, count, waiting, rpc, history>>

\* if (flag == 2) return 0
TestFlag ==
  /\ tpc = "awake"
  /\ tpc' = IF flag = 2 THEN "done" ELSE "count"
  /\ UNCHANGED <<loaded, flag, count, waiting, rpc, history>>

\* The report: "thread: event from read function count = ..., ++count".
Report ==
  /\ tpc = "count"
  /\ count' = count + 1
  /\ unreported' = FALSE
  /\ tpc' = "clear"
  /\ UNCHANGED <<loaded, flag, waiting, rpc, reads>>

\* Mutant: the flag is not reset.
ClearFlag_M ==
  /\ tpc = "clear"
  /\ tpc' = "loop"
  /\ UNCHANGED <<loaded, flag, count, waiting, rpc, history>>

\* flag = 0, whatever has been stored there since the report.
ClearFlag ==
  /\ tpc = "clear"
  /\ flag' = 0
  /\ tpc' = "loop"
  /\ UNCHANGED <<loaded, count, waiting, rpc, history>>

-----------------------------------------------------------------------------
(* device_read *)

\* Mutant: the wake-up is forgotten.
SetFlag_M2(u) ==
  /\ rpc[u] = "idle"
  /\ reads < MaxReads
  /\ flag' = 1
  /\ reads' = reads + 1
  /\ unreported' = TRUE
  /\ UNCHANGED <<loaded, count, thread, rpc>>

SetFlag(u) ==
  /\ rpc[u] = "idle"
  /\ reads < MaxReads
  /\ flag' = 1
  /\ reads' = reads + 1
  /\ unreported' = TRUE
  /\ rpc' = [rpc EXCEPT ![u] = "wake"]
  /\ UNCHANGED <<loaded, count, thread>>

\* wake_up_interruptible
WakeUp(u) ==
  /\ rpc[u] = "wake"
  /\ waiting' = FALSE
  /\ rpc' = [rpc EXCEPT ![u] = "idle"]
  /\ UNCHANGED <<loaded, flag, count, tpc, history>>

-----------------------------------------------------------------------------
\* waitqueue_exit removes the device and returns: it neither sets the flag
\* nor stops the thread, and (no .owner) does not wait for readers.  What
\* remains of the thread has no code any more; the behaviour ends here.
Exit ==
  /\ loaded' = FALSE
  /\ UNCHANGED <<flag, count, thread, rpc, history>>

Thread == Loop \/ Check \/ Prepare \/ Recheck \/ Schedule \/ TestFlag
            \/ Report \/ ClearFlag

Next ==
  /\ loaded
  /\ \/ Thread
     \/ \E u \in Users : SetFlag(u) \/ WakeUp(u)
     \/ Exit

Spec == Init /\ [][Next]_vars

\* The scheduler runs the thread, and a read that has begun goes on; nobody
\* has to read or to unload.
FairSpec ==
  /\ Spec
  /\ WF_vars(loaded /\ Thread)
  /\ \A u \in Users : WF_vars(loaded /\ WakeUp(u))

-----------------------------------------------------------------------------
(* Properties. *)

TypeOK ==
  /\ loaded \in BOOLEAN
  /\ flag \in {0, 1, 2}
  /\ count \in Nat
  /\ tpc \in {"loop", "check", "prepare", "recheck", "schedule", "awake",
              "count", "clear", "done"}
  /\ waiting \in BOOLEAN
  /\ rpc \in [Users -> {"idle", "wake"}]
  /\ reads \in Nat
  /\ unreported \in BOOLEAN

\* The thread never sleeps on an event, unless the read that set the flag
\* is still on its way to wake it.
NoMissedWakeup ==
  tpc = "schedule" /\ waiting /\ flag # 0 => \E u \in Users : rpc[u] = "wake"

\* The thread reports no event that no read has caused: a flag left over
\* from one turn of the loop is not counted again in the next.
ReportsAreReads == count <= reads

\* A read whose flag is not overwritten by the reset is reported in the end.
ReadIsReported ==
  \A n \in 0..MaxReads :
    flag = 1 /\ tpc # "clear" /\ count = n ~> count > n \/ ~loaded

\* The thread logs "event from read function" with a count: after a read
\* comes such a line, whenever the read happened.
EveryReadReported == unreported ~> ~unreported \/ ~loaded

-----------------------------------------------------------------------------
\* ReportsAreReads made inductive: a raised flag that was not reported yet
\* stands for a read that was not reported yet.
ReportInv ==
  /\ count <= reads
  /\ flag # 0 /\ tpc # "clear" => count < reads
  /\ tpc \in {"awake", "count"} => flag # 0
===============================================================================
