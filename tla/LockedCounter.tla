---------------------------- MODULE LockedCounter ----------------------------
(***************************************************************************)
(* mutex_ldd.c, spinlock_dyna_ldd.c and spinlock_static_ldd.c: kernel      *)
(* threads that count under a lock, a read handler that takes the lock for *)
(* its snapshot, and an exit function that stops the threads in turn.      *)
(* Mutex and spinlock differ only in how a waiter waits, which is not      *)
(* visible here; what matters is when the lock becomes usable: before the  *)
(* module's code runs (DEFINE_SPINLOCK), or by a call of the init function *)
(* that comes after cdev_add.                                              *)
(*                                                                         *)
(* The behaviour starts just after cdev_add.  Calls that fail are the      *)
(* subject of DriverLifecycle.                                             *)
(***************************************************************************)
EXTENDS Naturals

CONSTANTS
  NumThreads,   \* thread1 .. (2 in the code)
  Users,        \* processes that open, read and close the device file
  W,            \* unsigned int wraps at W (2^32)
  Starts        \* what the init functions do after cdev_add: make the lock
                \* ready ("lock_init"), or go on to the threads ("create")

ASSUME ConstantsAssumption ==
  /\ NumThreads \in Nat \ {0}
  /\ W \in Nat \ {0}
  /\ Starts \subseteq {"lock_init", "create"}

Threads == 1..NumThreads

VARIABLES
  phase,    \* where the init or the exit function is
  k,        \* the thread it deals with next
  locked,   \* the lock is taken
  value,    \* the counter
  reg,      \* reg[t]: the register that value++ loads into
  tpc,      \* tpc[t]: where thread t is; "none" before its creation
  stop,     \* stop[t]: what kthread_should_stop() returns in t
  torn,     \* history: the lock was made ready while a reader was at it
  rpc,      \* rpc[u]: where u's read is; a file is open while it is not idle
  snap,     \* history: snap[u]: t_value of u's last read
  logged,   \* history: the value in the last line "thread<t>, value = ..."
  turns     \* history: how often t has stored its increment, modulo W

module  == <<phase, k, stop, torn>>
data    == <<value, reg, logged, turns>>
readers == <<rpc, snap>>
vars    == <<phase, k, locked, value, reg, tpc, stop, torn, rpc, snap, logged,
             turns>>

Critical == {"load", "store", "print", "unlock"}

\* The history of counts, lines and reads is kept for as long as something is
\* said of it.
Noted(old, new) == IF torn THEN old ELSE new

Init ==
  /\ phase \in Starts
  /\ k = 1
  /\ locked = FALSE
  /\ value = 0
  /\ reg = [t \in Threads |-> 0]
  /\ tpc = [t \in Threads |-> "none"]
  /\ stop = [t \in Threads |-> FALSE]
  /\ torn = FALSE
  /\ rpc = [u \in Users |-> "idle"]
  /\ snap = [u \in Users |-> 0]
  /\ logged = 0
  /\ turns = [t \in Threads |-> 0]

-----------------------------------------------------------------------------
(* The init and exit functions. *)

\* mutex_init, spin_lock_init: whatever the lock was, it is free now.  The
\* device has been there for readers since cdev_add, and one of them may hold
\* the lock or wait for it.
LockInit ==
  /\ phase = "lock_init"
  /\ phase' = "create"
  /\ locked' = FALSE
  /\ torn' = \E u \in Users : rpc[u] \in {"lock", "load", "unlock"}
  /\ UNCHANGED <<k, tpc, stop, data, readers>>

\* From then on the lock word cannot be relied on: the tickets of a spinlock
\* have started again, and those drawn before let in two or nobody.
Confused ==
  /\ torn
  /\ locked' \in BOOLEAN
  /\ UNCHANGED <<module, tpc, data, readers>>

\* kthread_run
Create ==
  /\ phase = "create"
  /\ k \in Threads
  /\ tpc' = [tpc EXCEPT ![k] = "test"]
  /\ k' = k + 1
  /\ UNCHANGED <<phase, locked, stop, torn, data, readers>>

InitReturn ==
  /\ phase = "create"
  /\ k \notin Threads
  /\ phase' = "live"
  /\ UNCHANGED <<k, locked, tpc, stop, torn, data, readers>>

\* rmmod: the open files of a driver that names its owner hold it back.
Rmmod ==
  /\ phase = "live"
  /\ \A u \in Users : rpc[u] = "idle"
  /\ phase' = "stop"
  /\ k' = 1
  /\ UNCHANGED <<locked, tpc, stop, torn, data, readers>>

\* kthread_stop: tell the thread, then wait until it has returned.
StopThread ==
  /\ phase = "stop"
  /\ stop' = [stop EXCEPT ![k] = TRUE]
  /\ phase' = "join"
  /\ UNCHANGED <<k, locked, tpc, torn, data, readers>>

\* Mutant: the exit function does not wait.
JoinThread_M ==
  /\ phase = "join"
  /\ k' = k + 1
  /\ phase' = IF k = NumThreads THEN "unloaded" ELSE "stop"
  /\ UNCHANGED <<locked, tpc, stop, torn, data, readers>>

JoinThread ==
  /\ phase = "join"
  /\ tpc[k] = "done"
  /\ k' = k + 1
  /\ phase' = IF k = NumThreads THEN "unloaded" ELSE "stop"
  /\ UNCHANGED <<locked, tpc, stop, torn, data, readers>>

\* insmod of this driver or of another one: the module's data are fresh.
Insmod ==
  /\ phase = "unloaded"
  /\ phase' \in Starts
  /\ k' = 1
  /\ locked' = FALSE
  /\ value' = 0
  /\ logged' = 0
  /\ reg' = [t \in Threads |-> 0]
  /\ turns' = [t \in Threads |-> 0]
  /\ tpc' = [t \in Threads |-> "none"]
  /\ stop' = [t \in Threads |-> FALSE]
  /\ torn' = FALSE
  /\ snap' = [u \in Users |-> 0]
  /\ UNCHANGED rpc

-----------------------------------------------------------------------------
(* thread_fn1 and thread_fn2. *)

\* Mutant: the loop forgets to look at kthread_should_stop().
Test_M(t) ==
  /\ tpc[t] = "test"
  /\ tpc' = [tpc EXCEPT ![t] = "lock"]
  /\ UNCHANGED <<module, locked, data, readers>>

\* while (!kthread_should_stop())
Test(t) ==
  /\ tpc[t] = "test"
  /\ tpc' = [tpc EXCEPT ![t] = IF stop[t] THEN "done" ELSE "lock"]
  /\ UNCHANGED <<module, locked, data, readers>>

\* Mutant: thread_fn2 does not take the lock.
Lock_M(t) ==
  /\ tpc[t] = "lock"
  /\ t # 2 => ~locked
  /\ locked' = TRUE
  /\ tpc' = [tpc EXCEPT ![t] = "load"]
  /\ UNCHANGED <<module, data, readers>>

Lock(t) ==
  /\ tpc[t] = "lock"
  /\ ~locked
  /\ locked' = TRUE
  /\ tpc' = [tpc EXCEPT ![t] = "load"]
  /\ UNCHANGED <<module, data, readers>>

\* value++ is a load and a store.
Load(t) ==
  /\ tpc[t] = "load"
  /\ reg' = [reg EXCEPT ![t] = value]
  /\ tpc' = [tpc EXCEPT ![t] = "store"]
  /\ UNCHANGED <<module, locked, value, logged, turns, readers>>

\* Mutant: the counter does not wrap.
Store_M(t) ==
  /\ tpc[t] = "store"
  /\ value' = reg[t] + 1
  /\ turns' = Noted(turns, [turns EXCEPT ![t] = (@ + 1) % W])
  /\ tpc' = [tpc EXCEPT ![t] = "print"]
  /\ UNCHANGED <<module, locked, reg, logged, readers>>

\* Mutant: the lock is given up before the line is printed.
Store_M2(t) ==
  /\ tpc[t] = "store"
  /\ value' = (reg[t] + 1) % W
  /\ turns' = Noted(turns, [turns EXCEPT ![t] = (@ + 1) % W])
  /\ locked' = FALSE
  /\ tpc' = [tpc EXCEPT ![t] = "print"]
  /\ UNCHANGED <<module, reg, logged, readers>>

Store(t) ==
  /\ tpc[t] = "store"
  /\ value' = (reg[t] + 1) % W
  /\ turns' = Noted(turns, [turns EXCEPT ![t] = (@ + 1) % W])
  /\ tpc' = [tpc EXCEPT ![t] = "print"]
  /\ UNCHANGED <<module, locked, reg, logged, readers>>

\* pr_info reads the counter once more, still under the lock.
LogValue(t) ==
  /\ tpc[t] = "print"
  /\ logged' = Noted(logged, value)
  /\ tpc' = [tpc EXCEPT ![t] = "unlock"]
  /\ UNCHANGED <<module, locked, value, reg, turns, readers>>

Unlock(t) ==
  /\ tpc[t] = "unlock"
  /\ locked' = FALSE
  /\ tpc' = [tpc EXCEPT ![t] = "sleep"]
  /\ UNCHANGED <<module, data, readers>>

\* msleep(1000) is not cut short by kthread_stop.
Sleep(t) ==
  /\ tpc[t] = "sleep"
  /\ tpc' = [tpc EXCEPT ![t] = "test"]
  /\ UNCHANGED <<module, locked, data, readers>>

-----------------------------------------------------------------------------
(* rootv_open .. rootv_read .. rootv_release of one process. *)

\* Every driver can be read as soon as cdev_add is done, whether or not its
\* lock is ready.
ReadBegin(u) ==
  /\ phase \in {"lock_init", "create", "live"}
  /\ rpc[u] = "idle"
  /\ rpc' = [rpc EXCEPT ![u] = "lock"]
  /\ UNCHANGED <<module, locked, data, tpc, snap>>

\* A mutex that mutex_init has not seen yet is all zeroes: free, but without
\* a list for those who wait.  A reader that has to, and does not get it by
\* looking again, is killed and closes its file, or stays for ever.
ReadLost(u) ==
  /\ phase = "lock_init"
  /\ rpc[u] = "lock"
  /\ locked
  /\ \E end \in {"idle", "lost"} : rpc' = [rpc EXCEPT ![u] = end]
  /\ UNCHANGED <<module, locked, data, tpc, snap>>

ReadLock(u) ==
  /\ rpc[u] = "lock"
  /\ ~locked
  /\ locked' = TRUE
  /\ rpc' = [rpc EXCEPT ![u] = "load"]
  /\ UNCHANGED <<module, data, tpc, snap>>

ReadLoad(u) ==
  /\ rpc[u] = "load"
  /\ snap' = Noted(snap, [snap EXCEPT ![u] = value])
  /\ rpc' = [rpc EXCEPT ![u] = "unlock"]
  /\ UNCHANGED <<module, locked, data, tpc>>

\* Mutant: a read returns without unlocking.
ReadUnlock_M(u) ==
  /\ rpc[u] = "unlock"
  /\ rpc' = [rpc EXCEPT ![u] = "copy"]
  /\ UNCHANGED <<module, locked, data, tpc, snap>>

\* The kernel does not check who unlocks.
ReadUnlock(u) ==
  /\ rpc[u] = "unlock"
  /\ locked' = FALSE
  /\ rpc' = [rpc EXCEPT ![u] = "copy"]
  /\ UNCHANGED <<module, data, tpc, snap>>

\* The text is formatted and copied outside the lock; the file is closed.
ReadReturn(u) ==
  /\ rpc[u] = "copy"
  /\ rpc' = [rpc EXCEPT ![u] = "idle"]
  /\ UNCHANGED <<module, locked, data, tpc, snap>>

-----------------------------------------------------------------------------
Module == LockInit \/ Create \/ InitReturn \/ StopThread \/ JoinThread

Thread(t) == Test(t) \/ Lock(t) \/ Load(t) \/ Store(t) \/ LogValue(t)
               \/ Unlock(t) \/ Sleep(t)

Reader(u) == ReadLock(u) \/ ReadLoad(u) \/ ReadUnlock(u) \/ ReadReturn(u)

Next == \/ Module \/ Rmmod \/ Insmod \/ Confused
        \/ \E t \in Threads : Thread(t)
        \/ \E u \in Users : ReadBegin(u) \/ ReadLost(u) \/ Reader(u)

Spec == Init /\ [][Next]_vars

\* The scheduler runs whoever can run, and the lock is handed on in turn: a
\* ticket or queued spinlock by its queue, a mutex by the hand-off that a
\* waiter which has slept asks for.  Nobody has to load, unload or read.
FairSpec ==
  /\ Spec
  /\ WF_vars(Module)
  /\ \A t \in Threads : WF_vars(Thread(t)) /\ SF_vars(Lock(t))
  /\ \A u \in Users : WF_vars(Reader(u)) /\ SF_vars(ReadLock(u))

-----------------------------------------------------------------------------
(* Properties. *)

TypeOK ==
  /\ phase \in {"lock_init", "create", "live", "stop", "join", "unloaded"}
  /\ k \in 1..NumThreads + 1
  /\ phase \in {"stop", "join"} => k \in Threads
  /\ locked \in BOOLEAN
  /\ value \in 0..W - 1
  /\ logged \in 0..W - 1
  /\ reg \in [Threads -> 0..W - 1]
  /\ turns \in [Threads -> 0..W - 1]
  /\ tpc \in [Threads -> Critical \cup {"none", "test", "lock", "sleep", "done"}]
  /\ stop \in [Threads -> BOOLEAN]
  /\ torn \in BOOLEAN
  /\ rpc \in [Users -> {"idle", "lock", "lost", "load", "unlock", "copy"}]
  /\ snap \in [Users -> 0..W - 1]

InThread(t) == tpc[t] \in Critical
InRead(u)   == rpc[u] \in {"load", "unlock"}

\* Between taking and giving up the lock a thread or a reader is alone, as
\* "### Lesson 16   - Mutex" (README.md:19) leads one to expect.  Violated
\* where the lock is made ready after cdev_add: the reader that has it loses
\* it, and its own unlock then frees the lock of somebody else.
MutualExclusion ==
  /\ \A s, t \in Threads : InThread(s) /\ InThread(t) => s = t
  /\ \A u, v \in Users : InRead(u) /\ InRead(v) => u = v
  /\ \A t \in Threads, u \in Users : ~(InThread(t) /\ InRead(u))

\* What is left of it in all three drivers: nobody meets between lock and
\* unlock unless a reader was at the lock at the very moment it was made
\* ready.  One that comes early and has left by then does no harm, and a lock
\* defined at compile time has no such moment.
ExclusiveUnlessTorn == ~torn => MutualExclusion

\* The lines "thread<t>, value = n" come in counting order: none is printed
\* twice and none is missing, whichever thread prints it, unless the lock was
\* made ready under a reader.
LogInOrder ==
  [][\A t \in Threads :
       ~torn /\ tpc[t] = "print" /\ tpc'[t] # "print" =>
         logged' = (logged + 1) % W]_vars

\* When the exit function has returned, no thread can run code of the
\* module any more, whatever became of the lock, and none took the lock with
\* it.
NothingRunsUnloaded ==
  phase = "unloaded" => /\ \A t \in Threads : tpc[t] = "done"
                        /\ \A u \in Users : rpc[u] = "idle"
                        /\ ~torn => ~locked

\* The threads and the readers implement the atomic counter: no increment
\* is lost and no read sees a value the counter never had.  A lock made ready
\* under a reader ends the promise until the next load.
Counter == INSTANCE AtomicCounter WITH intact <- ~torn
Implements == Counter!Spec

\* rmmod ends: every thread leaves its loop, even one that waits for the
\* lock when it is told to stop, if the lock is sound.
UnloadTerminates == phase = "stop" /\ ~torn ~> phase = "unloaded"

\* Nobody starves: a read that waits for a lock that is ready and sound gets
\* it and returns, however busy the threads are, and each thread goes on
\* counting until it is stopped.
NobodyStarves ==
  /\ \A u \in Users :
       rpc[u] = "lock" /\ phase # "lock_init" /\ ~torn ~> rpc[u] = "idle"
  /\ \A t \in Threads :
       tpc[t] = "test" /\ ~torn ~> tpc[t] \in {"print", "done"}

-----------------------------------------------------------------------------
(* The inductive invariant that LockedCounterProofs rests on. *)

\* The lock is never held by nobody, and who is inside holds it.
LockInv ==
  ~torn =>
    /\ MutualExclusion
    /\ locked <=> \/ \E t \in Threads : InThread(t)
                  \/ \E u \in Users : InRead(u)

\* The init and exit functions know which threads exist and which are gone.
PhaseInv ==
  /\ phase = "lock_init" \/ torn => "lock_init" \in Starts
  /\ phase = "lock_init" => ~torn /\ \A t \in Threads : tpc[t] = "none"
  /\ phase = "create" => \A t \in Threads : t >= k => tpc[t] = "none"
  /\ phase \in {"stop", "join"} =>
       \A t \in Threads : t < k => tpc[t] = "done"
  /\ phase = "unloaded" => \A t \in Threads : tpc[t] = "done"
  /\ phase \in {"stop", "join", "unloaded"} =>
       \A u \in Users : rpc[u] = "idle"

\* A loaded register is current; the log lags behind by the line that is
\* about to be printed, if any.
CountInv ==
  ~torn =>
    /\ \A t \in Threads : tpc[t] = "store" => reg[t] = value
    /\ \A t \in Threads : tpc[t] = "print" => value = (logged + 1) % W
    /\ (\A t \in Threads : tpc[t] # "print") => logged = value
===============================================================================
