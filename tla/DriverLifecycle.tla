--------------------------- MODULE DriverLifecycle ---------------------------
(***************************************************************************)
(* Loading, use and unloading of one driver module.  insmod runs the init  *)
(* function, whose calls may fail and jump to an error label; rmmod runs   *)
(* the exit function.  Meanwhile processes open, call and close the device *)
(* file, and the interrupt line fires: nothing stops them but what the     *)
(* kernel itself checks (the module's reference count, free_irq waiting    *)
(* for a handler).  The programs come from a table (DriverTables); the     *)
(* kernel's side of each call is external and is modelled here by what the *)
(* drivers rely on.                                                        *)
(***************************************************************************)
EXTENDS Naturals, Sequences

CONSTANTS
  Drivers,           \* a set of driver tables
  Leaves,            \* Leaves[d]: what d is said to leave behind at worst
  SafeDrivers,       \* those said to undo no more than they do
  Users              \* processes that use the device file

VARIABLES
  drv,       \* the driver of this behaviour; never changes
  phase,     \* where the module is in its life
  pc,        \* the next step of the program that is running
  held,      \* resources that exist
  fds,       \* users that have the device file open
  inCall,    \* users inside a file operation of the driver
  irqBusy    \* the interrupt handler is running

vars == <<drv, phase, pc, held, fds, inCall, irqBusy>>

-----------------------------------------------------------------------------
(* The shape of a table. *)

Silent == {"never", "ignored", "oops"}   \* outcomes that are not a jump

\* Where `goto l' lands in the list of clean-up statements; past its end
\* when the init function returns at once.
Target(d, l) ==
  CHOOSE k \in 1..Len(d.unwind) + 1 :
    /\ k = Len(d.unwind) + 1 \/ d.unwind[k].at = l
    /\ \A j \in 1..k - 1 : d.unwind[j].at # l

\* The clean-up statements of d from its label l on.
Cleanup(d) == [k \in 1..Len(d.unwind) |-> d.unwind[k].put]

\* proc_remove takes the directory's files along, and dropping the last
\* reference of a kobject removes its attribute files.
Freed(r) == {r} \cup (IF r = "procdir" THEN {"procfile"}
                      ELSE IF r = "kobj" THEN {"attr"} ELSE {})

\* Memory of the module itself: it goes when the module goes.
ModuleLocal == {"waitq", "lock", "work", "tasklet_init"}

\* Handles that kthread_stop follows: an error pointer there is fatal.
ThreadHandles == {"thread", "thread1", "thread2"}

IsDriver(d) ==
  /\ d.init \in Seq([get : STRING, err : STRING])
  /\ d.unwind \in Seq([at : STRING, put : STRING])
  /\ d.exit \in Seq(STRING)
  /\ d.owner \in BOOLEAN
  /\ \A i \in 1..Len(d.init) :
       Target(d, d.init[i].err) \in 1..Len(d.unwind) + 1

ASSUME DriversAssumption ==
  /\ \A d \in Drivers : IsDriver(d)
  /\ SafeDrivers \subseteq Drivers

-----------------------------------------------------------------------------
Init ==
  /\ drv \in Drivers
  /\ phase = "absent"
  /\ pc = 1
  /\ held = {}
  /\ fds = {}
  /\ inCall = {}
  /\ irqBusy = FALSE

\* insmod.  Not modelled: loading again while a descriptor of an earlier,
\* freed instance is still open (what its use does is undefined).
Insmod ==
  /\ phase \in {"absent", "refused"}
  /\ fds = {}
  /\ phase' = "init"
  /\ pc' = 1
  /\ UNCHANGED <<drv, held, fds, inCall, irqBusy>>

\* A call of the init function succeeds.  A name or a line that is still
\* taken cannot be taken again; a second thread can be created.
InitStep ==
  /\ phase = "init"
  /\ pc <= Len(drv.init)
  /\ drv.init[pc].get \notin held \ ThreadHandles
  /\ held' = held \cup ({drv.init[pc].get} \ {"none"})
  /\ pc' = pc + 1
  /\ UNCHANGED <<drv, phase, fds, inCall, irqBusy>>

\* Mutant: the jump lands one statement too early.
InitFail_M ==
  /\ phase = "init"
  /\ pc <= Len(drv.init)
  /\ drv.init[pc].err \notin Silent
  /\ pc' = Target(drv, drv.init[pc].err) - 1
  /\ phase' = "unwind"
  /\ UNCHANGED <<drv, held, fds, inCall, irqBusy>>

\* A call of the init function fails: the label it names decides.
InitFail ==
  /\ phase = "init"
  /\ pc <= Len(drv.init)
  /\ LET err == drv.init[pc].err IN
     \/ /\ err = "ignored"
        /\ pc' = pc + 1
        /\ phase' = phase
     \/ /\ err = "oops"
        /\ pc' = pc
        /\ phase' = "oops"
     \/ /\ err \notin Silent
        /\ pc' = Target(drv, err)
        /\ phase' = "unwind"
  /\ UNCHANGED <<drv, held, fds, inCall, irqBusy>>

InitReturn ==
  /\ phase = "init"
  /\ pc > Len(drv.init)
  /\ phase' = "live"
  /\ UNCHANGED <<drv, pc, held, fds, inCall, irqBusy>>

\* rmmod is refused while the reference count is not zero; only an open
\* file of a driver whose fops name their owner counts.
Rmmod ==
  /\ phase = "live"
  /\ drv.owner => fds = {}
  /\ phase' = "exit"
  /\ pc' = 1
  /\ UNCHANGED <<drv, held, fds, inCall, irqBusy>>

\* The list that is being worked off: error labels, or the exit function.
Todo == IF phase = "exit" THEN drv.exit ELSE Cleanup(drv)

\* One release.  free_irq waits for a running handler; kthread_stop on an
\* error pointer oopses; the other calls ignore what does not exist.
ReleaseStep ==
  /\ phase \in {"unwind", "exit"}
  /\ pc <= Len(Todo)
  /\ LET r == Todo[pc] IN
     /\ r = "irq" => ~irqBusy
     /\ IF r \in ThreadHandles \ held
        THEN phase' = "oops" /\ UNCHANGED <<pc, held>>
        ELSE phase' = phase /\ pc' = pc + 1 /\ held' = held \ Freed(r)
  /\ UNCHANGED <<drv, fds, inCall, irqBusy>>

\* The init function returns its error, or the exit function returns; the
\* module's memory is freed.
Unloaded ==
  /\ phase \in {"unwind", "exit"}
  /\ pc > Len(Todo)
  /\ phase' = IF phase = "exit" THEN "absent" ELSE "refused"
  /\ held' = held \ ModuleLocal
  /\ UNCHANGED <<drv, pc, fds, inCall, irqBusy>>

-----------------------------------------------------------------------------
(* The module's surroundings. *)

\* While its code exists.
Present == phase \in {"init", "unwind", "live", "exit"}

\* Mutant: open() takes no part in the reference count.
Open_M(u) ==
  /\ Present
  /\ u \notin fds
  /\ "cdev" \in held
  /\ fds' = fds \cup {u}
  /\ UNCHANGED <<drv, phase, pc, held, inCall, irqBusy>>

\* open() of the device file finds the cdev; try_module_get refuses a
\* module that is going away.
Open(u) ==
  /\ Present
  /\ u \notin fds
  /\ "cdev" \in held
  /\ drv.owner => phase # "exit"
  /\ fds' = fds \cup {u}
  /\ UNCHANGED <<drv, phase, pc, held, inCall, irqBusy>>

Enter(u) ==
  /\ Present
  /\ u \in fds \ inCall
  /\ inCall' = inCall \cup {u}
  /\ UNCHANGED <<drv, phase, pc, held, fds, irqBusy>>

Leave(u) ==
  /\ u \in inCall
  /\ inCall' = inCall \ {u}
  /\ UNCHANGED <<drv, phase, pc, held, fds, irqBusy>>

Close(u) ==
  /\ u \in fds \ inCall
  /\ fds' = fds \ {u}
  /\ UNCHANGED <<drv, phase, pc, held, inCall, irqBusy>>

IrqEnter ==
  /\ "irq" \in held
  /\ ~irqBusy
  /\ irqBusy' = TRUE
  /\ UNCHANGED <<drv, phase, pc, held, fds, inCall>>

IrqReturn ==
  /\ irqBusy
  /\ irqBusy' = FALSE
  /\ UNCHANGED <<drv, phase, pc, held, fds, inCall>>

-----------------------------------------------------------------------------
Module == Insmod \/ InitStep \/ InitFail \/ InitReturn \/ Rmmod
            \/ ReleaseStep \/ Unloaded

Environment == \/ \E u \in Users : Open(u) \/ Enter(u) \/ Leave(u) \/ Close(u)
               \/ IrqEnter
               \/ IrqReturn

Next == Module \/ Environment

Spec == Init /\ [][Next]_vars

-----------------------------------------------------------------------------
(* Properties. *)

TypeOK ==
  /\ drv \in Drivers
  /\ phase \in {"absent", "refused", "init", "unwind", "live", "exit", "oops"}
  /\ pc \in Nat \ {0}
  /\ held \in SUBSET STRING
  /\ fds \in SUBSET Users
  /\ inCall \in SUBSET fds
  /\ irqBusy \in BOOLEAN

\* Whatever call failed and whatever users and interrupts did meanwhile, and
\* however often the driver was loaded before, a refused insmod and a
\* completed rmmod leave nothing in the kernel but what the driver is known to
\* leave: for most of them nothing at all.
LeavesOnlyKnown ==
  phase \in {"absent", "refused"} => held \subseteq Leaves[drv]

\* No error path and no exit function of a safe driver releases what was not
\* acquired, or what an earlier release of the same list has taken along.
ReleasesOnlyHeld ==
  drv \in SafeDrivers /\ phase \in {"unwind", "exit"} /\ pc <= Len(Todo) =>
    Todo[pc] \in held

\* What hangs on something else in the kernel's tree is gone before it: a
\* device before its class and number, an attribute before its kobject;
\* unless it is one of the things that stay behind anyway.
DependsOn == {<<"device", "class">>, <<"device", "region">>,
              <<"cdev", "region">>, <<"attr", "kobj">>,
              <<"procfile", "procdir">>}
DependentsFirst ==
  \A p \in DependsOn : p[1] \in held \ Leaves[drv] => p[2] \in held

\* Once loaded, a driver whose fops name their owner is not unloaded under
\* an open file, nor does a file operation overlap with its exit function.
NoOpenAcrossUnload ==
  drv.owner /\ phase \in {"exit", "absent"} => fds = {} /\ inCall = {}

\* After an insmod that returned success, with whatever failures the init
\* function did not notice, the handlers find all they dereference; and no
\* interrupt handler runs on a line that was given back.
HandlersReady ==
  /\ phase = "live" => drv.file \cup drv.irq \subseteq held
  /\ irqBusy => "irq" \in held

\* The init functions of lessons 14, 16 and 17 log that their threads were
\* created: after a load that returned success, the threads exist.  Lessons 16
\* and 17 do not keep that: they take an error pointer for a thread.
ReportedThreadsExist ==
  phase = "live" =>
    \A i \in 1..Len(drv.init) :
      drv.init[i].get \in ThreadHandles => drv.init[i].get \in held

\* After rmmod the next insmod is not bound to fail on something that the
\* driver itself left taken.
ReloadAfterRmmod ==
  phase = "absent" =>
    \A i \in 1..Len(drv.init) :
      drv.init[i].err \notin Silent =>
        drv.init[i].get \notin held \ ThreadHandles

-----------------------------------------------------------------------------
(* What a table must satisfy for the properties above: audits of the       *)
(* source text, from which DriverLifecycleProofs derives them.             *)

\* What may, and what must, exist before step i of the init function.
MayHold(d, i) == {d.init[j].get : j \in 1..i - 1} \ ({"none"} \cup ModuleLocal)
MustHold(d, i) ==
  {d.init[j].get : j \in {m \in 1..i - 1 : d.init[m].err # "ignored"}} \ {"none"}

FreedFrom(list, k) == UNION {Freed(list[j]) : j \in k..Len(list)}

\* From k on, the list releases members of S only, and none of them twice.
SafeFrom(list, k, S) ==
  \A j \in k..Len(list) :
    list[j] \in S /\ \A m \in k..j - 1 : list[j] \notin Freed(list[m])

\* For LeavesOnlyKnown: every path out gives back all but the things in rest.
Covering(d, rest) ==
  /\ \A i \in 1..Len(d.init) : d.init[i].err \notin Silent =>
       MayHold(d, i) \subseteq
         FreedFrom(Cleanup(d), Target(d, d.init[i].err)) \cup rest
  /\ MayHold(d, Len(d.init) + 1) \subseteq FreedFrom(d.exit, 1) \cup rest

\* For ReleasesOnlyHeld.
Safe(d) ==
  /\ \A i \in 1..Len(d.init) : d.init[i].err \notin Silent =>
       SafeFrom(Cleanup(d), Target(d, d.init[i].err), MustHold(d, i))
  /\ SafeFrom(d.exit, 1, MustHold(d, Len(d.init) + 1))

\* For DependentsFirst: the thing that is hung on is acquired earlier by a
\* tested call, and released later or together.
OrderedList(list, hangs, on) ==
  \A j \in 1..Len(list) : on \in Freed(list[j]) =>
    hangs \in Freed(list[j]) \/ hangs \notin FreedFrom(list, j + 1)

Ordered(d, rest) ==
  \A p \in DependsOn : p[1] \notin rest =>
    /\ \A i \in 1..Len(d.init) : d.init[i].get = p[1] => p[2] \in MustHold(d, i)
    /\ OrderedList(Cleanup(d), p[1], p[2]) /\ OrderedList(d.exit, p[1], p[2])

\* For HandlersReady: tested calls acquire what the handlers dereference.
Ready(d) == d.file \cup d.irq \subseteq MustHold(d, Len(d.init) + 1)

\* For ReportedThreadsExist: the creation of a thread is tested.
Reported(d) ==
  \A i \in 1..Len(d.init) : d.init[i].get \in ThreadHandles =>
    d.init[i].get \in MustHold(d, Len(d.init) + 1)

\* For ReloadAfterRmmod: what may stay behind, if it stands in the way of the
\* next load, stays after a refused load only.
Reloadable(d, rest) ==
  \A i \in 1..Len(d.init) :
    d.init[i].err \notin Silent /\ d.init[i].get \in rest \ ThreadHandles =>
      d.init[i].get \in FreedFrom(d.exit, 1)

\* The inductive forms: what is held is always what the rest of the current
\* list still gives back, or is known to stay; what the rest releases is
\* always held; what tested calls have acquired is there; what the exit
\* function has given back is not.
LeakInv ==
  /\ phase \in {"absent", "refused"} => held \subseteq Leaves[drv]
  /\ phase = "init" =>
       held \subseteq MayHold(drv, pc) \cup ModuleLocal \cup Leaves[drv]
  /\ phase = "live" =>
       held \subseteq MayHold(drv, Len(drv.init) + 1) \cup ModuleLocal
                      \cup Leaves[drv]
  /\ phase \in {"unwind", "exit"} =>
       held \subseteq FreedFrom(Todo, pc) \cup ModuleLocal \cup Leaves[drv]

SafeInv == phase \in {"unwind", "exit"} => SafeFrom(Todo, pc, held)

ReadyInv ==
  /\ phase = "init" => /\ pc <= Len(drv.init) + 1
                       /\ MustHold(drv, pc) \subseteq held
  /\ phase = "live" => MustHold(drv, Len(drv.init) + 1) \subseteq held
  /\ irqBusy => "irq" \in held

ReturnedInv ==
  /\ phase = "exit" => \A j \in 1..pc - 1 : Freed(drv.exit[j]) \cap held = {}
  /\ phase = "absent" => FreedFrom(drv.exit, 1) \cap held = {}
===============================================================================
