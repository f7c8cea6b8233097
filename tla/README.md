# Linux device driver course: models and proofs

The repository is a course of eighteen lessons. Each lesson is a small Linux
kernel module (some in a static and a dynamic variant): a character device and
one mechanism of the kernel. This directory models them in TLA+, checks the
models with TLC and proves their main properties with TLAPS.

## 1. The system

### Components

| Lesson | State | Operations | What is hard |
|---|---|---|---|
| 001 hello, 002 parameters | none that matters | load, unload | nothing |
| 003 device numbers, 004 device file | kernel registrations | load, unload | a failing call in the middle |
| 005 device file | registrations, `k_buffer` | read, write | the buffer is allocated last, freed first; no `.owner` |
| 006 ioctl | array of ten numbers | READ, WRITE, RW commands | two processes, no lock; no `.owner` |
| 007 procfs | two variables, a proc file | ioctl, proc read/write | a read that never reaches end of file |
| 008 wait queue | `flag`, `count`, a thread | read wakes the thread | missed or wiped-out events; the thread outlives the module |
| 009 sysfs | one value | read/write of device and attribute | two ways to one value, ignored conversion errors |
| 010 LED | a GPIO line | write | the failing GPIO leaves the device |
| 011 interrupt | a counter | interrupt handler, read | interrupt against read; partial reads |
| 012 work queue | a work item, an atomic counter | interrupt handler, work, read | the pending bit; interrupts before the queue exists and after it is gone |
| 013 linked list | a list | write appends, read prints | two writers, no lock; text longer than the buffer |
| 014 kernel thread | a counter, a thread | read; stop at unload | error pointers; stopping |
| 015 tasklet | a value, a tasklet | interrupt handler, write, tasklet | coalescing; interrupts after `tasklet_kill` |
| 016 mutex, 017 spinlock | a counter, two threads, a lock | threads count, read | lost updates, order of the log, stopping, when the lock is ready |
| 018 signal | pointer to a task | ioctl registers, interrupt signals, release | the pointer goes stale |

### How they interact

The parts of a driver run concurrently: the init and exit functions (`insmod`,
`rmmod`), processes inside file operations, interrupt handlers, and kernel
threads, work items or tasklets. They share the module's global variables, and
nothing but the kernel's own rules keeps them apart: `cdev_add` makes the
device usable before the init function is done, `free_irq` waits for a running
handler, an open file keeps a module with `.owner` loaded, `kthread_stop` waits
for the thread.

### What makes it correct

* Whatever call of an init function fails, the driver gives back all it has
  taken and nothing else; the exit function does the same; the driver can be
  loaded again.
* Handlers never run without what they dereference, and no code of a module
  runs after it is gone.
* No event is lost or reported twice (008, 011, 012, 015, 018), no increment is
  lost (016, 017), the list stays a list (013).
* A read delivers the value once and ends (007, 009, 011-014, 016, 017).
* Threads go on, reads return, unloading ends.

`PROJECT.json` lists the hazards at the lines where they bite.

## 2. Modules

### `DriverTables`, `DriverLifecycle`, `MCDriverLifecycle`: load, use, unload

The init and exit functions of all drivers have one shape: a sequence of calls
each of which may fail and jump to a label, statements under labels that fall
through to the end, and a list of releases. `DriverTables` writes each of them
down as such a table, statement by statement, from the source:
`inter_dfile_init` is the sequence of calls of `inter_dfile_init()` with the
label each failure jumps to, `inter_dfile_unwind` the statements under its
labels in textual order, `inter_dfile_exit` the releases of
`inter_dfile_exit()`. The driver's record adds whether its `file_operations`
name their owner and what its handlers dereference that has to be prepared. A
failure that the code does not test, or tests wrongly (an error pointer against
NULL), is `"ignored"`; following an error pointer is `"oops"`.

`DriverLifecycle` executes a table. Its variables are the driver, the phase
(`absent`, `refused`, `init`, `unwind`, `live`, `exit`, `oops`), the statement
`pc` that is next, the set `held` of resources that exist, the users `fds` with
the file open and `inCall` inside a handler, and `irqBusy`.

| Action | Code |
|---|---|
| `InitStep`, `InitFail`, `InitReturn` | a call of the init function succeeds, fails; the function returns 0 |
| `ReleaseStep`, `Unloaded` | a statement under a label or of the exit function; its return and the end of the module's memory |
| `Insmod`, `Rmmod` | the loader; `Rmmod` is refused while the reference count is not zero |
| `Open`, `Enter`, `Leave`, `Close` | a process uses the file; with `.owner`, `Open` fails once the module is going |
| `IrqEnter`, `IrqReturn` | the handler runs while the line is requested |

Two constants say what is expected of a driver: `Leaves[d]` lists what stays in
the kernel at worst (nothing for fifteen of the twenty-one), `SafeDrivers` those
that release no more than they hold. Six audits (`Covering`, `Safe`, `Ordered`,
`Ready`, `Reported`, `Reloadable`) say of a table's text, without running it, what
the properties need.

External, modelled by what the drivers rely on: `free_irq` waits for the
handler, removing a proc directory or a kobject takes its files along,
`kthread_stop` on an error pointer is fatal, memory of the module goes with the
module, a name or a line that is still taken cannot be taken again, whereas a
second thread of the same name can be created.

### `WaitQueue`: lesson 8

`thread_handle` with `wait_event_interruptible` unfolded (look, queue, look
again, sleep), `device_read` as its two steps (set the flag, wake up), and the
exit function, which may come at any moment and ends the behaviour. The
accesses to `flag` are taken in program order: the kernel's queueing and waking
are full barriers around them. `reads` and `unreported` are history variables.
`Exit` does not touch the thread because `waitqueue_exit` does not.
`kthread_should_stop()` is never true there since nobody calls `kthread_stop`.

### `AtomicCounter`, `LockedCounter`: lessons 16 and 17

`value++` is a load and a store, the log line is a third access under the lock,
and the read handler takes the lock for its snapshot. The init function makes
the lock ready after `cdev_add` (mutex, dynamic spinlock: the behaviour starts in
phase `"lock_init"`) or finds it ready (`DEFINE_SPINLOCK`: it starts in
`"create"`; `Starts` says which of them are looked at), creates the threads one
after the other; the exit function stops them one after the other, waiting for
each. The behaviour begins after `cdev_add`. `kthread_stop` does not cut `msleep` short. An unlock frees
the lock whoever holds it, as in the kernel without lock debugging. `turns` (how
often each thread has counted), `logged` and `snap` (what the log and the readers
have got) are history.

Readers come as soon as the device is there, so that in two of the three drivers
they may come before the lock is ready (`spinlock_dyna_ldd.c:121-126`,
`mutex_ldd.c:115-120`). `LockInit` then frees a lock that a reader holds: a thread
is inside together with the reader, whose unlock frees the lock under whoever has
it next. TLC shows it (`counter_early`). `torn`, a history variable, remembers
that a reader was at the lock when it was made ready. From then on the lock word is
anything (`Confused`: the tickets of a spinlock have started again, and those
drawn before let in two or nobody). What the properties say of the lock is void
from there to the next load, and the history stands still meanwhile; that
unloading leaves no thread behind holds all the same. A mutex before `mutex_init`
is all zeroes and has no list for those who wait: a reader that has to wait may be
killed or stay for ever (`ReadLost`). A reader that comes early and has left by
then does no harm, and with a lock defined at compile time there is no
such moment: `torn` stays false.

`AtomicCounter` is what this promises: one step adds one to the counter and to
the thread's turns, a read copies the counter. `LockedCounter` implements it
with `value`, `turns` and `snap` mapped to themselves; the atomic step is the
store. Without the lock two stores of one value would each be a turn that adds
nothing, which the abstract specification does not allow. Its promise holds while
it is `intact` (here: not `torn`), and again from the next load on.

### `MergedRequests`, `DeferredWork`: lessons 12 and 15

The interrupt handler of lesson 12 counts, looks at the pending bit of the work
item and schedules it if the bit is clear (`Count`, `Look`,
`HandlerSchedule`); that of lesson 15 schedules the tasklet at once, and so
does a write after it has stored its number (`Store`, `WriteSchedule`). The
kernel clears the bit, runs the function, which prints the number as it is
then (`StartRun`, `Show`), and may be asked again meanwhile. A record per driver
(`WorkStatic`, `WorkOwnQueue`, `TaskletStatic`, `TaskletDyna`) lists the steps of
its init and exit function that matter here; `ready` says whether the item can
be used. Using an item that does not exist, or running in a module that is gone,
is a fault, and `fault` keeps the phase in which it came. `unserved` is a history
variable.

External: scheduling sets the one pending bit, a pending item is run, never
twice at once; `tasklet_kill` and `destroy_workqueue` return when the item is
neither pending nor running. Work that is queued while `destroy_workqueue` waits
is taken as queued before or after it. Numbers are members of a set; a write
whose text is no number changes nothing and is left out.

`MergedRequests` is what scheduling promises. An interrupt or a write opens a
request (`Ask`); a request is handed on (`HandOn`), given up for another one that
is still open (`Merge`), or closed by a run that shows the number as it is then
(`Serve`). It is never dropped, so that an event without a run has an open
request, and no run comes that nothing has asked for. In `DeferredWork` a request
is held by the handler between its count and its schedule, by a write between its
store and its schedule, by the item while it is pending, and by the run until it
shows (`Holders`, `Holds`). Scheduling a pending item, and a handler that finds it
pending, are merges; the start of a run hands the item's request on. From a fault
on the promise is void (`Break`).

### `AppendOnlyList`, `LinkedList`: lesson 13

`add_node` is an allocation, the load of the list's tail and the four stores of
`__list_add`; writers run among the steps of each other, of a reader that walks
the list node by node and of `delete_all_nodes`. `ordered` says whether the
stores are made in the order of `<linux/list.h>` or in any order (plain stores
of C, on any machine). The two stores of `INIT_LIST_HEAD` belong to the allocation
also then: they are not put off beyond those of `__list_add`. `added` lists the nodes in the order of their last store
and `raced` remembers that two writers were linking at a time; both are history.
A read keeps its nodes in `got` until the 256 bytes are full (`Room` lines, and
the one `snprintf` cuts).

`AppendOnlyList` is the promise: a write appends in one step, a read returns a
prefix of the list, at least what was there when it began, or as much as fits.
The mapping takes the last store for the append. Once two writers have collided,
or with unordered stores, the promise is void (`intact`) until the next load;
what is left then is said by `LinksAgree`, `FreedUntouched`, `NoNodeTwice` and
`WalksEnd`.

### `SignalDriver`: lesson 18

The pointer `task`, its registration by ioctl, `rootv_release` as its test and
its clearing, and the interrupt handler. `task` is a plain variable: the handler
loads it for its test (`Interrupt`) and, as the compiler likes, a second time as
the argument of `send_sig_info` (`Argument`), and then sends (`Send`). What it has
loaded is in `hit`. If that is NULL, or the structure of a task that is gone, it
does not come back; nothing is said of what happens then.

Around them the life of tasks. A task is a thread: it is started, forked with a
copy of its parent's open files, or cloned to share the table of its creator
(`mates`); it opens the device, hands an open file to another task through a socket
(`Pass`), closes it for all who share its table, exits and is reaped, and its
structure is used again. `registered`, `shared` (two tasks have referred to one
open file, in whichever of these ways) and `lapped` (a registration during
another task's release) are history. External: the last reference calls release;
the files of a table are closed when the last task that uses it exits; the
structure of a reaped task is freed after a grace period that waits for running
interrupt handlers.

Once a file is shared, the last closer need not be the registered task: the
pointer stays, `RegisteredHoldsFile` fails, and a signal may go to a structure
that belongs to somebody else. Two of the properties therefore say `~shared`. None
of them forbids that the argument is NULL although the pointer was tested, or that a
registration made between the two steps of a release is forgotten: the code allows
both.

### `TextStream`, `ReadText`, `MCReadText`: the read handlers

Nine lessons write a number into a buffer and copy a part of it to a process that
reads until it gets 0. They differ in how they use the size asked for, the
offset, and the length of the text. A record per handler (`MCReadText`) gives
its kind, the characters before the number, the size of the buffer and whether
the length is that of the buffer's string (`strlen`) or what `snprintf` reports;
one action per kind (`ReadClip`: 011, 012; `ReadRest`: 013, 014; `ReadWhole`:
009; `ReadString`: 016, 017; `ReadAgain`: 005, 007; `ReadClaim`: 010) and
`ReadFault` for a bad address. A number is known by how many characters it has,
a piece by its first and last character; the number changes at any time
(`Change` stands for interrupts, threads and writes). `seen` and `changed` are
history.

`TextStream` is what a reader expects: pieces that follow on each other, then the
end. The handlers implement it for a process that asks for enough at once, while
the number keeps its length and fits into the buffer (`Intact`). The rest of the
condition is not for convenience: every handler copies from the beginning of its
buffer, whatever the offset, so that a reader with a smaller size gets the first
characters again and again (as many bytes as the text has, but not the text) in
lessons 11 to 14; `"value: "` with three digits is cut in lessons 16 and 17; a
longer text leaves the buffer in lessons 9, 11, 12 and 13.

### `AtomicData`, `SharedData`, `MCSharedData`: lessons 5, 6, 7, 9

Data that several processes read, write and multiply without a lock, copied cell
by cell. A record per data (`MCSharedData`) says how many cells stand for it,
which commands there are, whether a write deals with all of them, with at most
all, or with as many as it was asked for (`length`), whether it is fetched into a
buffer of its own first (009), and which calls hide a bad address.
`copy_from_user` straight into the data may stop at any cell, and fills the rest
with zeroes; `arr[i] *= n` is a load and a store. A number is known by the write it
comes from and the multiplications it has been through.
`op`, `past`, `before` and `spilled` are history.

`device_write` of lesson 5 copies what it was asked for into its 1024 bytes
(`inter_df.c:43`). `WritePast` is that copy behind the last cell: what lies there is
not the driver's, so that the model keeps to the cells and remembers that the
write has gone on (`spilled`); one cell too many stands for any number of them.

`AtomicData` does each command in one step. `SharedData` implements it as long as
no command overlaps one that changes the data, and in any case for a single cell
that nobody multiplies (007's `value`, 009's `sysfs_value`), until a write has gone
on behind the last cell; the mapping shows the data as they were before the
command that is under way. With overlap the
commands mix, factors are lost and reads are torn, as the code has it; what is
still true then is `NoOldNumber`, `NoLateFactor` and `NoFactorLost`.

## 3. What is checked

All runs allow every interleaving. Bounds: two users or processes (what one does
between two steps of another), as a symmetry set in the lifecycle and the
shared-data runs, one process in `counter_early`; the code's own two threads; a word
of `W` = 2 values, so that the counter wraps; `MaxReads` = 4 reads, enough to raise
the flag before, during and after each stage of the thread and once more; `MaxInterrupts` = 3 interrupts (one
being served, one merged with it, one after it) and two numbers; a list of three
nodes (two that collide and one before or after them) and a buffer of two lines,
so that it overflows; three task structures and two files, both as symmetry sets
(the registered task, one that shares or registers too, and one to be used again); numbers of 1 to 11
characters (what fits each buffer, the first that does not, the longest an `int`
has) and sizes from 1 to more than any text; two cells (the one a copy is at and
the one it is not) and four commands (two that overlap, one before and one
after).

| Run | Shows |
|---|---|
| `lifecycle` | All twenty-one drivers, each loaded, used and unloaded any number of times with any call failing. What stays behind is nothing for fifteen of them and at most the listed things for the six others (`LeavesOnlyKnown`); apart from these, what hangs on something else goes before it (`DependentsFirst`). Eleven never release what they do not hold (`ReleasesOnlyHeld`). No driver with `.owner` is unloaded under an open file (`NoOpenAcrossUnload`). After a successful load handlers find what they dereference, and none runs on a line given back (`HandlersReady`). `AuditsAgree`: every table passes the audits the theorems of section 4 assume, and would not with a smaller `Leaves`, one more member of `SafeDrivers` one exception less to `ReloadAfterRmmod` (next run) or one less to `ReportedThreadsExist` (lessons 16 and 17 log the creation of a thread also when `kthread_run` has returned an error pointer: `UntestedThreads`; proved of the others). |
| `lifecycle_reload` | Violated: the dynamic work queue driver cannot be loaded twice. Proved of the others. |
| `waitqueue_reads` | No missed wake-up, no spurious report, and every flag that survives is reported in the end. |
| `waitqueue_dropped` | Violated: a read between the report and the reset of the flag is wiped out. |
| `counter` | Two threads and two readers that come from the first moment, in all three drivers. Unless the lock is made ready at the moment a reader is at it: exclusion (`ExclusiveUnlessTorn`), order of the log, refinement of `AtomicCounter`; unloading ends, reads return and no thread starves (`UnloadTerminates`, `NobodyStarves`). In any case a clean unload (`NothingRunsUnloaded`). |
| `counter_early` | Violated: in lesson 16 and the dynamic driver of lesson 17 a reader that holds the lock when it is made ready is inside together with a thread (`MutualExclusion`). |
| `deferred` | The four drivers of lessons 12 and 15. A handler that skips its schedule, and schedules that merge, lose nothing: when all is quiet every event has been followed by a run, which has shown the last number (`NothingLost`), every event comes to a run (`EventsServed`), and `MergedRequests` is implemented: no request is dropped and no run comes unasked (`Implements`). A loaded driver never meets a missing item; what can happen in the windows of the init and exit functions and afterwards is listed per driver (`FaultsOnlyWhereKnown`). |
| `linked_list` | Two writers, a reader and unloading, ordered and unordered stores. Links agree at every finished node and freed links are not used, although writers collide (`LinksAgree`, `FreedUntouched`); with ordered stores no read meets a node twice; without a collision nothing leaks and the list is the append-only one; every read and every unload ends. |
| `linked_list_lost` | Violated: of two overlapping writes one loses its node, and both have logged success. |
| `signal` | While no two tasks have referred to one open file, the pointer is cleared before its task is gone (`RegisteredHoldsFile`), and a handler that has loaded it, once or twice, holds NULL or a registered task (`SignalsReachRegistrants`); nobody else takes a registration away except between the test and the clearing in its release (`RegistrationKept`). |
| `read_text` | All read handlers. No piece leaves the buffer where `strlen` is used, or where the text fits (`InsideBuffer`); lessons 13 and 14 return as many bytes as the text has, for every size (`RestAddsUp`); reading ends although numbers grow and addresses are bad in between, except in lessons 5, 7 and 10 (`ReadsEnd`); and `TextStream` is implemented. |
| `shared_data` | The five shared data. Without overlap commands are atomic, with partial writes, retries and hidden errors included (`Implements`); a write of everything is not undone by commands that came before it (`NoOldNumber`); a factor does not reach numbers written after it has returned (`NoLateFactor`); a multiplication that overlaps nothing reaches every number although its report fails (`NoFactorLost`). Only a write of lesson 5, whose length nobody checks, is ever behind the last cell (`TypeOK`); from then on nothing is promised as a whole. |

The type invariants of `WaitQueue`, `DeferredWork`, `LinkedList` and `ReadText` are in
no run: they are proved for every instance (section 4).

Deadlock is checked in all runs but those whose machine may stop: an oops or an unload
ends the lifecycle, the wait queue and the deferred work; a handler that has
loaded NULL, or the structure of a task that is gone, ends the signal run; the
commands of `shared_data` are used up.

Fairness. `WaitQueue`: the thread runs, and a read that has set the flag goes
on to its wake-up (weak fairness): the scheduler does not stop runnable tasks.
`DeferredWork`: handlers, writes that have begun and scheduled items
go on (weak fairness). `LinkedList`: a write that has begun to link, a read and
the exit function go on. `ReadText`: a process that has the file open goes on
reading (the user's loop; nothing is said about when it closes).
`LockedCounter`: the same for threads, readers and the init and exit functions,
and strong fairness for taking the lock: spinlocks of the two targets queue
their waiters, and a mutex is handed over to a waiter that has been passed
over. A lock made ready under a reader may let nobody in, so that
`UnloadTerminates` and `NobodyStarves` speak of a lock that is not `torn`. Nobody is obliged to load, unload, read or fail.

Every property of a passing run is broken by a mutant of the code: a forgotten
release, swapped releases, a clean-up label that is one too early, a missing
test of `kmalloc`, a thread that skips the lock, a lock given up before the log
line, a forgotten wake-up, a flag that is not reset, and so on (operators with
the suffix `_M`, before the definition they replace).

## 4. What is proved

`DriverLifecycleProofs`, for every set of tables and of users:

* `TypeCorrect`. Assumes of a table only that it is one (`DriversAssumption`).
* `UnloadWaitsForFiles`: `NoOpenAcrossUnload`; inductive as it stands.
* `ReadySuffices`: if tested calls acquire what the handlers dereference
  (`Ready`), `HandlersReady`. The invariant `ReadyInv` (what the tested calls so
  far have acquired is there; a running handler's line is there) holds for every
  table and carries the other proofs too.
* `CoveringSuffices`: if what may exist where a call fails is released from its
  label on, and what may exist at the end by the exit function, all but `Leaves`
  (`Covering`), then `LeavesOnlyKnown`. The property speaks of two phases; `LeakInv`
  says of every moment that what is held is what the rest of the current list
  frees, or stays.
* `SafeSuffices`: if what a list releases must exist where it is entered, and no
  earlier release of the list takes it along (`Safe`), then `ReleasesOnlyHeld`.
  `SafeInv` carries that through the list.
* `OrderedSuffices`: if moreover whatever is hung on is acquired before, by a tested
  call, and released later or together (`Ordered`), then `DependentsFirst`.
* `ReportedSuffices`: if the creation of every thread is tested (`Reported`),
  `ReportedThreadsExist`, from `ReadyInv`.
* `ReloadSuffices`: if what may stay behind and stands in the way of the next load
  is released by the exit function (`Covering`, `Reloadable`), `ReloadAfterRmmod`.
  `ReturnedInv` says, of any table, that what the exit function has come past is
  gone.

The audits are hypotheses about the tables' text. The second part of the module
proves them of the twenty-one tables (eighteen lemmas, since some variants share
their programs), line by line: where the jump of each call lands (`LabelReached`), what may and what must be held there, and
what is released from there on. So the theorems hold of the course's drivers
(`LessonDrivers`: some or all of them, with the lists of `MCDriverLifecycle`)
for any number of users, with no hypothesis left but that the tables are well formed
(`DriversAssumption`, which TLC evaluates on them):

* `TablesPass`: `AuditsAgree`. The lists are exact: the tables fail the audits with a
  leftover less, with one more safe driver, or with an exception less.
* `LessonsLoadAndUnload`: `LeavesOnlyKnown`, `ReleasesOnlyHeld`, `DependentsFirst` and
  `HandlersReady`.
* `LessonsReload`: `ReloadAfterRmmod`, of all drivers but the one with its own work
  queue.
* `LessonsReportThreads`: `ReportedThreadsExist`, of all drivers but the three of
  lessons 16 and 17.

`WaitQueueProofs`, for any number of readers and reads: `TypeCorrect`,
`WakeupNotMissed` (`NoMissedWakeup`, inductive because of the look after
queueing) and `NoSpuriousReport` (`ReportsAreReads`, from `ReportInv`: a flag
that is up and not yet reported is a read not yet counted).

`LockedCounterProofs`, for any number of threads and readers, any word and each of
the three drivers, readers coming from the first moment: `TypeCorrect`,
`Exclusion` (`ExclusiveUnlessTorn`), `CleanUnload` (`NothingRunsUnloaded`),
`LogOrder` (`LogInOrder`) and `Refinement` (`Implements`); and `StaticExclusion`,
that with a lock defined at compile time `MutualExclusion` holds without a
condition. They rest on one invariant: `LockInv` (who is inside holds the lock,
unless it is torn), `PhaseInv` (which threads exist, and that nobody reads, in
each phase of init and exit, torn or not) and `CountInv` (a loaded register is
current; the log lags by the line about to be printed). The step that needs the
argument is `LockInit`: no thread exists yet, and if no reader is at the lock nobody
is inside. TLC checked each part before it was proved.
`Refinement` has one lemma for each way a step touches what the counter shows: a
store is a whole turn (by `CountInv`, nobody has counted since the load), a
reader's load is the read, `Insmod` the reload, and every other step stutters.

`DeferredWorkProofs`, for any number of users, values and interrupts:
`TypeCorrect`; `EventsKept` (`NothingLost`, from `ServedInv`: an event without a
run is at every moment on its way to one); `FaultsBounded`
(`FaultsOnlyWhereKnown`, from `ReadyInv`, the phases in which the item exists,
and `QueueInv`, which keeps a destroyed queue empty); and `Refinement`
(`Implements`), with one lemma for each way a step touches a request: a count and a
store ask, a look merges, a schedule hands on or merges, a start hands on, the
function serves, a fault breaks, and every other step stutters. It needs no
invariant but the types: the holders differ.

`LinkedListProofs`, for any number of nodes, writers and readers:

* `TypeCorrect`, `AgreementKept` (`LinksAgree`) and `FreedLinksUnused`
  (`FreedUntouched`), for every order of the stores. One invariant (`Inv`): a node in
  the hand of a writer is nobody else's, and no `next` leads to it but its own and,
  from the writer's last store on, that of the tail it found; allocated nodes lead
  to allocated nodes or to the head, all others nowhere. It needs no assumption on
  collisions: a collision cuts nodes off, but both ends of every link that is left
  belong to finished writes.
* `ReadsNeverRepeat` (`NoNodeTwice`), with stores in program order and however
  writers collide. Collisions leave no single order of the nodes, but there is a
  rank (`RankInv`): nodes can be numbered so that every link leads upwards, a writer
  loading the tail giving its node the next number above all others. `HandInv` is
  what makes that possible: a node whose writer has not yet replaced its loop onto
  itself is linked by nobody.
* `UnloadFreesAll` (`NothingLeaks`), without a collision and for every order of the
  stores. `KeptInv`: every allocated node is in the chain, where the one link that
  may be missing is that of the node just added, or in the hand of a writer; in the
  exit function the chain is shorter by the nodes freed.
* `Refinement` (`Implements`). `ListInv` says that without a collision and with ordered
  stores the links are the sequence `added`, apart from the one writer's unfinished
  stores, and that a reader has collected the first elements of it.

`SignalDriverProofs`, for any number of tasks, threads and files: `TypeCorrect`,
`PointerIsCurrent` (`RegisteredHoldsFile`), `SignalsArrive`
(`SignalsReachRegistrants`, for both loads), `RegistrationStays`. While nothing is
shared, every file belongs to one table and every table that has files to one
task, so that the last closer of a file is its only user; and what the handler
holds is a task that cannot be reaped. `MateInv` says what a shared table is: those
who use it agree on who they are and on their files.

`ReadTextProofs`, for every set of handlers, widths and sizes: `TypeCorrect`,
`PiecesInside` (`InsideBuffer`), `BytesAddUp`
(`RestAddsUp`, because the offset never passes the length while the text does not
change) and `Refinement` (`Implements`: within its condition a stream is at its
beginning, or has its one piece and the offset is at or past the end).

`SharedDataProofs`, for any number of processes, commands and cells and any set of
data: `SharedDataTypes`, `WritesFinal` (`NoOldNumber`), `FactorsInTime`
(`NoLateFactor`), `FactorsKept` (`NoFactorLost`) and `SharedDataImplements`
(`Implements`). The properties are about finished commands, the invariant `Inv`
about those under way:

* `CommandInv`, `PastInv`, `NumberInv`: a command belongs to one process, its past are
  commands that had returned before it began, and numbers come from commands that
  have begun.
* `LateInv`: not only the cells but also the numbers that multiplications have loaded
  have no factor from the past of their write.
* `OldInv`: a full write that no multiplication has overlapped leaves nothing older
  in the cells it has passed, nor in what later multiplications have loaded. A
  multiplication that may still be refused does not count, since it has stored
  nothing.
* `FactorInv`: the same for a multiplication that overlaps nothing, and its factor.
* `IntactInv`, for the refinement: while no write has gone on behind the last cell,
  without overlap, a read has collected what the cells
  hold, and the data are `before` with the command applied to the cells it has
  passed. It is not needed for a single cell, where each store is the whole command.

Only model-checked: the liveness properties (`WalksEnd`, `ReadsEnd`, `EventsServed`,
`UnloadTerminates`, `NobodyStarves`, `ReadIsReported`), for which the prover has no
rule (fairness and ENABLED). The theorems about `LinkedList` and `ReadText` are
stated of `Safety`, their specifications without the fairness. Induction over data
and RECURSIVE operators are out of the prover's reach too; no module needs them.

## 5. What is not modelled, and what could come next

Left out for good: lessons 1 and 2 (no state), log texts, Makefiles, the user
programs except as users of the device, the hardware level of a GPIO line
(lesson 10's `device_write` sets it and nobody reads it back), and the use of a
file descriptor that has outlived its module (undefined).

Left out of a module that models the rest: in lesson 13 the numbers in the nodes,
with the log line that reads one after `kfree`, and a write without memory, which
changes nothing; in lesson 5 what a write of more than 1024 bytes does to the memory
behind the buffer;
in `ReadText` reads at a position of the process's choice (`pread`) and the
characters themselves; in `LockedCounter` calls that fail, which are in
`DriverLifecycle`.

What could come next: `ENABLED` and fairness in the prover, for the liveness
properties; a composition of `DriverLifecycle` with the modules of the mechanisms,
which begin after `cdev_add` and take over from it what is held there.
