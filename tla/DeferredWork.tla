----------------------------- MODULE DeferredWork -----------------------------
(***************************************************************************)
(* Lessons 12 and 15: an interrupt handler, and in lesson 15 also a write, *)
(* has a function run later, through a work item or a tasklet.  Both have  *)
(* one pending bit: scheduling sets it, and it is cleared just before the  *)
(* function runs.  The two static drivers have their item ready when they  *)
(* are loaded; the two dynamic ones make it ready after the interrupt is   *)
(* requested, and destroy it before the interrupt is freed.                *)
(*                                                                         *)
(* The behaviour starts after cdev_add.  Calls that fail are the subject   *)
(* of DriverLifecycle.                                                     *)
(***************************************************************************)
EXTENDS Naturals, Sequences

CONSTANTS
  Variants,        \* the drivers to look at
  Users,           \* processes that write to the device
  Values,          \* numbers they write
  Zero,            \* the initial one
  MaxInterrupts    \* bound of the model: interrupts in all

\* The steps of init and exit that matter here: "irq" requests or frees the
\* interrupt, "ready" makes the item usable, "kill" (tasklet_kill) waits until
\* it is neither pending nor running, "destroy" (flush_workqueue with
\* destroy_workqueue) waits and ends the queue, "free" ends its memory.
\* static: the item is ready from the start; tested: the handler looks at the
\* pending bit itself; written: writes schedule too.
WorkStatic ==
  [name |-> "wq_static_ldd", init |-> <<"irq">>, exit |-> <<"irq">>,
   static |-> TRUE, tested |-> TRUE, written |-> FALSE]

\* Mutant: the exit function leaves the queue alone.
WorkOwnQueue_M ==
  [name |-> "wq_dyna_ldd", init |-> <<"irq", "ready">>, exit |-> <<"irq">>,
   static |-> FALSE, tested |-> TRUE, written |-> FALSE]

WorkOwnQueue ==
  [name |-> "wq_dyna_ldd", init |-> <<"irq", "ready">>,
   exit |-> <<"destroy", "irq">>,
   static |-> FALSE, tested |-> TRUE, written |-> FALSE]

TaskletStatic ==
  [name |-> "tasklet_static_ldd", init |-> <<"irq">>,
   exit |-> <<"kill", "irq">>,
   static |-> TRUE, tested |-> FALSE, written |-> TRUE]

TaskletDyna ==
  [name |-> "tasklet_dyna_ldd", init |-> <<"irq", "ready">>,
   exit |-> <<"kill", "free", "irq">>,
   static |-> FALSE, tested |-> FALSE, written |-> TRUE]

AllVariants == {WorkStatic, WorkOwnQueue, TaskletStatic, TaskletDyna}

ASSUME ConstantsAssumption ==
  /\ Variants \subseteq AllVariants
  /\ Zero \in Values
  /\ MaxInterrupts \in Nat

VARIABLES
  drv,        \* the driver of this behaviour; never changes
  phase,      \* "init", "live", "exit", "gone"; "oops" after a fault
  pc,         \* the next step of the init or exit function
  line,       \* the interrupt is requested
  ready,      \* the item can be scheduled and run
  pending,    \* its pending bit
  run,        \* where the function is
  hpc,        \* where the interrupt handler is
  wpc,        \* wpc[u]: where u's write is; a file is open while not idle
  count,      \* interrupts so far; in lesson 12 count_irq
  value,      \* the number written last (lesson 15)
  shown,      \* the number in the function's last line
  unserved,   \* history: an event has come that no run has followed
  fault       \* history: the phase in which the fault came; "none"

module  == <<drv, phase, pc, line, ready, fault>>
numbers == <<count, value, shown, unserved>>
vars    == <<drv, phase, pc, line, ready, pending, run, hpc, wpc,
             count, value, shown, unserved, fault>>

Init ==
  /\ drv \in Variants
  /\ phase = "init"
  /\ pc = 1
  /\ line = FALSE
  /\ ready = drv.static
  /\ pending = FALSE
  /\ run = "idle"
  /\ hpc = "idle"
  /\ wpc = [u \in Users |-> "idle"]
  /\ count = 0
  /\ value = Zero
  /\ shown = Zero
  /\ unserved = FALSE
  /\ fault = "none"

\* Something is used that does not exist.
Oops ==
  /\ phase' = "oops"
  /\ fault' = phase

-----------------------------------------------------------------------------
(* The init and exit functions. *)

InitStep ==
  /\ phase = "init"
  /\ pc <= Len(drv.init)
  /\ line' = (line \/ drv.init[pc] = "irq")
  /\ ready' = (ready \/ drv.init[pc] = "ready")
  /\ pc' = pc + 1
  /\ UNCHANGED <<drv, phase, fault, pending, run, hpc, wpc, numbers>>

InitReturn ==
  /\ phase = "init"
  /\ pc > Len(drv.init)
  /\ phase' = "live"
  /\ UNCHANGED <<drv, pc, line, ready, fault, pending, run, hpc, wpc, numbers>>

Rmmod ==
  /\ phase = "live"
  /\ \A u \in Users : wpc[u] = "idle"
  /\ phase' = "exit"
  /\ pc' = 1
  /\ UNCHANGED <<drv, line, ready, fault, pending, run, hpc, wpc, numbers>>

\* destroy_workqueue and tasklet_kill return at a moment when the item is
\* neither pending nor running; free_irq waits for the handler.
ExitStep ==
  /\ phase = "exit"
  /\ pc <= Len(drv.exit)
  /\ drv.exit[pc] \in {"destroy", "kill"} => ~pending /\ run = "idle"
  /\ drv.exit[pc] = "irq" => hpc = "idle"
  /\ line' = (line /\ drv.exit[pc] # "irq")
  /\ ready' = (ready /\ drv.exit[pc] \notin {"destroy", "free"})
  /\ pc' = pc + 1
  /\ UNCHANGED <<drv, phase, fault, pending, run, hpc, wpc, numbers>>

\* The exit function returns and the module's code and data go.
ExitReturn ==
  /\ phase = "exit"
  /\ pc > Len(drv.exit)
  /\ phase' = "gone"
  /\ UNCHANGED <<drv, pc, line, ready, fault, pending, run, hpc, wpc, numbers>>

-----------------------------------------------------------------------------
(* schedule_work, queue_work, tasklet_schedule. *)

Schedule ==
  IF ready
  THEN pending' = TRUE /\ UNCHANGED <<phase, fault>>
  ELSE Oops /\ UNCHANGED pending

(* The interrupt handler; a line's handler does not run twice at once.     *)

Interrupt ==
  /\ phase # "oops"
  /\ line
  /\ hpc = "idle"
  /\ count < MaxInterrupts
  /\ hpc' = "count"
  /\ UNCHANGED <<module, pending, run, wpc, numbers>>

\* The handler has begun; in lesson 12 atomic_inc.
Count ==
  /\ hpc = "count"
  /\ count' = count + 1
  /\ unserved' = TRUE
  /\ hpc' = IF drv.tested THEN "look" ELSE "schedule"
  /\ UNCHANGED <<module, pending, run, wpc, value, shown>>

\* Mutant: work_busy() in place of work_pending().
Look_M ==
  /\ hpc = "look"
  /\ hpc' = IF pending \/ run # "idle" THEN "idle" ELSE "schedule"
  /\ UNCHANGED <<module, pending, run, wpc, numbers>>

\* if (!work_pending(...))
Look ==
  /\ hpc = "look"
  /\ hpc' = IF pending THEN "idle" ELSE "schedule"
  /\ UNCHANGED <<module, pending, run, wpc, numbers>>

HandlerSchedule ==
  /\ hpc = "schedule"
  /\ Schedule
  /\ hpc' = "idle"
  /\ UNCHANGED <<drv, pc, line, ready, run, wpc, numbers>>

-----------------------------------------------------------------------------
(* rootv_write of lesson 15. *)

\* Mutant: a number that has just been shown is not worth a run.
Store_M(u, v) ==
  /\ drv.written
  /\ phase \in {"init", "live"}
  /\ wpc[u] = "idle"
  /\ value' = v
  /\ unserved' = TRUE
  /\ wpc' = [wpc EXCEPT ![u] = IF v = shown THEN "idle" ELSE "schedule"]
  /\ UNCHANGED <<module, pending, run, hpc, count, shown>>

\* kstrtoint stores the number.  (Text that is no number changes nothing.)
Store(u, v) ==
  /\ drv.written
  /\ phase \in {"init", "live"}
  /\ wpc[u] = "idle"
  /\ value' = v
  /\ unserved' = TRUE
  /\ wpc' = [wpc EXCEPT ![u] = "schedule"]
  /\ UNCHANGED <<module, pending, run, hpc, count, shown>>

WriteSchedule(u) ==
  /\ wpc[u] = "schedule"
  /\ Schedule
  /\ wpc' = [wpc EXCEPT ![u] = "idle"]
  /\ UNCHANGED <<drv, pc, line, ready, run, hpc, numbers>>

-----------------------------------------------------------------------------
(* The kernel runs the item: never twice at once, on another processor or  *)
(* between two steps of whoever has scheduled it.                          *)

Alive == ready /\ phase # "gone"

StartRun ==
  /\ pending
  /\ run = "idle"
  /\ IF Alive
     THEN pending' = FALSE /\ run' = "started" /\ UNCHANGED <<phase, fault>>
     ELSE Oops /\ UNCHANGED <<pending, run>>
  /\ UNCHANGED <<drv, pc, line, ready, hpc, wpc, numbers>>

\* Mutant: the function schedules itself again.
Show_M ==
  /\ run = "started"
  /\ IF Alive
     THEN /\ shown' = value
          /\ unserved' = FALSE
          /\ run' = "ending"
          /\ pending' = TRUE
          /\ UNCHANGED <<phase, fault>>
     ELSE Oops /\ UNCHANGED <<shown, unserved, run, pending>>
  /\ UNCHANGED <<drv, pc, line, ready, hpc, wpc, count, value>>

\* workqueue_fn, tasklet_fn: one line of log, in lesson 15 with the value.
Show ==
  /\ run = "started"
  /\ IF Alive
     THEN /\ shown' = value
          /\ unserved' = FALSE
          /\ run' = "ending"
          /\ UNCHANGED <<phase, fault>>
     ELSE Oops /\ UNCHANGED <<shown, unserved, run>>
  /\ UNCHANGED <<drv, pc, line, ready, pending, hpc, wpc, count, value>>

EndRun ==
  /\ run = "ending"
  /\ IF Alive
     THEN run' = "idle" /\ UNCHANGED <<phase, fault>>
     ELSE Oops /\ UNCHANGED run
  /\ UNCHANGED <<drv, pc, line, ready, pending, hpc, wpc, numbers>>

-----------------------------------------------------------------------------
Module  == InitStep \/ InitReturn \/ ExitStep \/ ExitReturn
Handler == Count \/ Look \/ HandlerSchedule
Runner  == StartRun \/ Show \/ EndRun

Next ==
  /\ phase # "oops"
  /\ \/ Module \/ Rmmod
     \/ Interrupt \/ Handler
     \/ \E u \in Users : (\E v \in Values : Store(u, v)) \/ WriteSchedule(u)
     \/ Runner

Spec == Init /\ [][Next]_vars

\* Processors run handlers, tasks and what is scheduled; nobody has to press
\* the button, write or unload.
FairSpec ==
  /\ Spec
  /\ WF_vars(phase # "oops" /\ Handler)
  /\ WF_vars(phase # "oops" /\ Runner)
  /\ \A u \in Users : WF_vars(phase # "oops" /\ WriteSchedule(u))

-----------------------------------------------------------------------------
(* Properties. *)

TypeOK ==
  /\ drv \in Variants
  /\ phase \in {"init", "live", "exit", "gone", "oops"}
  /\ pc \in 1..4
  /\ line \in BOOLEAN
  /\ ready \in BOOLEAN
  /\ pending \in BOOLEAN
  /\ run \in {"idle", "started", "ending"}
  /\ hpc \in {"idle", "count", "look", "schedule"}
  /\ wpc \in [Users -> {"idle", "schedule"}]
  /\ count \in Nat
  /\ value \in Values
  /\ shown \in Values
  /\ unserved \in BOOLEAN
  /\ fault \in {"none", "init", "live", "exit", "gone"}

\* Whenever nothing is scheduled, running or about to be scheduled, every
\* interrupt and every write has been followed by a run, and the last line
\* shows the number written last: a skipped or a merged schedule loses
\* nothing, since the run that is still to come stands for all.
Quiet ==
  /\ ~pending
  /\ run = "idle"
  /\ hpc \in {"idle", "count"}
  /\ \A u \in Users : wpc[u] = "idle"
NothingLost == phase # "oops" /\ Quiet => ~unserved /\ shown = value

\* Every interrupt and every write is followed by a run in the end.
EventsServed == unserved ~> ~unserved \/ phase = "oops"

\* Between the end of the init function and the start of the exit function
\* no handler, no write and no run ever meets an item that does not exist.
\* The static drivers fault only when the item runs after the module has gone
\* (one does not wait for it, the other does before the interrupt is freed).
\* The driver with its own queue faults only before the queue exists and
\* after it is destroyed: nothing of it outlives the module.
KnownFaults ==
  [n \in {d.name : d \in AllVariants} |->
     CASE n \in {"wq_static_ldd", "tasklet_static_ldd"} -> {"gone"}
       [] n = "wq_dyna_ldd" -> {"init", "exit"}
       [] OTHER -> {"init", "exit", "gone"}]
FaultsOnlyWhereKnown == fault = "none" \/ fault \in KnownFaults[drv.name]

\* Handler, writes, pending bit and run hold the requests that are open, at
\* most one each.  Until something is used that does not exist, requests are
\* merged and served as MergedRequests says: none is dropped, and no run comes
\* that no interrupt and no write has asked for.
Holders == {<<"handler">>, <<"item">>, <<"run">>} \cup ({"write"} \X Users)
Holds(h) ==
  \/ h = <<"handler">> /\ hpc \in {"look", "schedule"}
  \/ h = <<"item">> /\ pending
  \/ h = <<"run">> /\ run = "started"
  \/ \E u \in Users : h = <<"write", u>> /\ wpc[u] = "schedule"

Merged ==
  INSTANCE MergedRequests WITH
    intact <- phase # "oops",
    open   <- {h \in Holders : phase # "oops" /\ Holds(h)}

Implements == Merged!Spec
===============================================================================
