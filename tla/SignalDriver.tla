----------------------------- MODULE SignalDriver -----------------------------
(***************************************************************************)
(* Lesson 18 (018_signal/signal_ldd.c): a process registers by an ioctl,   *)
(* the interrupt handler sends it a signal, and rootv_release forgets it,  *)
(* all through one pointer to a task.                                      *)
(*                                                                         *)
(* rootv_release is called by whoever drops the last reference to an open  *)
(* file, and clears the pointer if that task is the one registered.  Tasks *)
(* come and go, and their structures are used again for other tasks.  A    *)
(* task is a thread: some of them share one table of open files, others    *)
(* inherit a copy of it, and a file can be handed from one to another.     *)
(***************************************************************************)
CONSTANTS
  Tasks,     \* the task structures the system has
  Files,     \* bound: open files at a time
  None       \* NULL

ASSUME NoneAssumption == None \notin Tasks

VARIABLES
  state,     \* state[t]: "free", "alive", "exiting" or "zombie"
  mates,     \* mates[t]: the tasks that use the same table of open files
  fds,       \* fds[t]: the open files of the device in t's table
  at,        \* at[t]: "run", or within rootv_release: "test" or "clear"
  task,      \* the driver's pointer
  irq,       \* where the interrupt handler is: "idle", "argument" or "send"
  hit,       \* what it has loaded from the pointer
  registered,\* history: the tasks that have registered since they exist
  shared,    \* history: two tasks have referred to one open file
  lapped     \* history: a registration during somebody's release

tasks   == <<state, mates, fds, at>>
handler == <<irq, hit>>
history == <<registered, shared, lapped>>
vars    == <<tasks, task, handler, history>>

Init ==
  /\ state = [t \in Tasks |-> "free"]
  /\ mates = [t \in Tasks |-> {t}]
  /\ fds = [t \in Tasks |-> {}]
  /\ at = [t \in Tasks |-> "run"]
  /\ task = None
  /\ irq = "idle"
  /\ hit = None
  /\ registered = {}
  /\ shared = FALSE
  /\ lapped = FALSE

-----------------------------------------------------------------------------
(* Tasks.                                                                  *)
Running(t) == state[t] = "alive" /\ at[t] = "run"

(* A program is started that has none of the files.                        *)
Start(t) ==
  /\ state[t] = "free"
  /\ state' = [state EXCEPT ![t] = "alive"]
  /\ registered' = registered \ {t}
  /\ UNCHANGED <<mates, fds, at, task, handler, shared, lapped>>

(* A child gets a copy of the table, with the open files.  Its structure   *)
(* may have been that of a task that is gone.                              *)
Fork(t) ==
  /\ Running(t)
  /\ \E c \in Tasks :
       /\ state[c] = "free"
       /\ state' = [state EXCEPT ![c] = "alive"]
       /\ fds' = [fds EXCEPT ![c] = fds[t]]
       /\ registered' = registered \ {c}
  /\ shared' = (shared \/ fds[t] # {})
  /\ UNCHANGED <<mates, at, task, handler, lapped>>

(* A thread uses the table of the one that has created it.                 *)
Clone(t) ==
  /\ Running(t)
  /\ \E c \in Tasks :
       /\ state[c] = "free"
       /\ state' = [state EXCEPT ![c] = "alive"]
       /\ fds' = [fds EXCEPT ![c] = fds[t]]
       /\ mates' = [u \in Tasks |-> IF u \in mates[t] \cup {c}
                                    THEN mates[t] \cup {c} ELSE mates[u]]
       /\ registered' = registered \ {c}
  /\ shared' = (shared \/ fds[t] # {})
  /\ UNCHANGED <<at, task, handler, lapped>>

(* t's table gets a file, which all who use the table refer to from now on.*)
Receive(t, f) ==
  fds' = [u \in Tasks |-> IF u \in mates[t] THEN fds[u] \cup {f} ELSE fds[u]]

Open(t) ==
  /\ Running(t)
  /\ \E f \in Files :
       /\ \A u \in Tasks : f \notin fds[u]
       /\ Receive(t, f)
  /\ shared' = (shared \/ mates[t] # {t})
  /\ UNCHANGED <<state, mates, at, task, handler, registered, lapped>>

(* An open file is handed on through a socket.                             *)
Pass(t) ==
  /\ Running(t)
  /\ \E u \in Tasks \ mates[t], f \in fds[t] : Running(u) /\ Receive(u, f)
  /\ shared' = TRUE
  /\ UNCHANGED <<state, mates, at, task, handler, registered, lapped>>

\* Mutant: the file is kept instead of the task.
Register_M(t) ==
  /\ Running(t) /\ fds[t] # {}
  /\ task' \in fds[t]
  /\ registered' = registered \cup {t}
  /\ lapped' = (lapped \/ \E u \in Tasks : at[u] = "clear")
  /\ UNCHANGED <<tasks, handler, shared>>

(* ioctl(REG_CURRENT_TASK)                                                 *)
Register(t) ==
  /\ Running(t) /\ fds[t] # {}
  /\ task' = t
  /\ registered' = registered \cup {t}
  /\ lapped' = (lapped \/ \E u \in Tasks : at[u] = "clear")
  /\ UNCHANGED <<tasks, handler, shared>>

(* Dropping a reference, by close or on the way out of the last task that  *)
(* uses the table; the last reference calls rootv_release.                 *)
Close(t) ==
  /\ at[t] = "run"
  /\ state[t] = "alive" \/ (state[t] = "exiting" /\ mates[t] = {t})
  /\ \E f \in fds[t] :
       /\ fds' = [u \in Tasks |-> IF u \in mates[t] THEN fds[u] \ {f} ELSE fds[u]]
       /\ at' = [at EXCEPT ![t] = IF \E u \in Tasks \ mates[t] : f \in fds[u]
                                 THEN "run" ELSE "test"]
  /\ UNCHANGED <<state, mates, task, handler, history>>

\* Mutant: release forgets the registration whoever has it.
ReleaseTest_M(t) ==
  /\ at[t] = "test"
  /\ at' = [at EXCEPT ![t] = IF task # None THEN "clear" ELSE "run"]
  /\ UNCHANGED <<state, mates, fds, task, handler, history>>

\* Mutant: the test is the wrong way round.
ReleaseTest_M2(t) ==
  /\ at[t] = "test"
  /\ at' = [at EXCEPT ![t] = IF task = t THEN "run" ELSE "clear"]
  /\ UNCHANGED <<state, mates, fds, task, handler, history>>

(* if (ref_task == task)                                                   *)
ReleaseTest(t) ==
  /\ at[t] = "test"
  /\ at' = [at EXCEPT ![t] = IF task = t THEN "clear" ELSE "run"]
  /\ UNCHANGED <<state, mates, fds, task, handler, history>>

\* Mutant: the pointer is left.
ReleaseClear_M(t) ==
  /\ at[t] = "clear"
  /\ at' = [at EXCEPT ![t] = "run"]
  /\ UNCHANGED <<state, mates, fds, task, handler, history>>

(* task = NULL                                                             *)
ReleaseClear(t) ==
  /\ at[t] = "clear"
  /\ task' = None
  /\ at' = [at EXCEPT ![t] = "run"]
  /\ UNCHANGED <<state, mates, fds, handler, history>>

(* A task ends, by itself or by a signal.  The table goes with the last    *)
(* one that uses it, and its files are closed; then the task is a zombie.  *)
Exit(t) ==
  /\ Running(t)
  /\ state' = [state EXCEPT ![t] = "exiting"]
  /\ UNCHANGED <<mates, fds, at, task, handler, history>>

LeaveTable(t) ==
  /\ state[t] = "exiting" /\ at[t] = "run" /\ mates[t] # {t}
  /\ mates' = [u \in Tasks |-> IF u = t THEN {t} ELSE mates[u] \ {t}]
  /\ fds' = [fds EXCEPT ![t] = {}]
  /\ UNCHANGED <<state, at, task, handler, history>>

ExitDone(t) ==
  /\ state[t] = "exiting" /\ at[t] = "run" /\ mates[t] = {t} /\ fds[t] = {}
  /\ state' = [state EXCEPT ![t] = "zombie"]
  /\ UNCHANGED <<mates, fds, at, task, handler, history>>

(* Its structure is freed after a grace period, which waits for the        *)
(* interrupt handlers that have begun before.                              *)
Reap(t) ==
  /\ state[t] = "zombie" /\ irq = "idle"
  /\ state' = [state EXCEPT ![t] = "free"]
  /\ UNCHANGED <<mates, fds, at, task, handler, history>>

-----------------------------------------------------------------------------
(* The interrupt handler.                                                  *)

(* if (task != NULL)                                                       *)
Interrupt ==
  /\ irq = "idle"
  /\ task # None
  /\ irq' = "argument"
  /\ hit' = task
  /\ UNCHANGED <<tasks, task, history>>

(* The argument of send_sig_info is the pointer once more: what the test   *)
(* has loaded, or a second load, as the compiler likes.                    *)
Argument ==
  /\ irq = "argument"
  /\ irq' = "send"
  /\ hit' \in {hit, task}
  /\ UNCHANGED <<tasks, task, history>>

(* send_sig_info: signals the task, or returns an error if it is a zombie. *)
(* With NULL, or a structure that is free, there is no saying what happens:*)
(* the handler does not come back from it.                                 *)
Send ==
  /\ irq = "send" /\ hit # None /\ state[hit] # "free"
  /\ irq' = "idle"
  /\ hit' = None
  /\ UNCHANGED <<tasks, task, history>>

(* rmmod, when no file is open and no handler runs, and insmod.            *)
Reload ==
  /\ irq = "idle"
  /\ \A t \in Tasks : fds[t] = {} /\ at[t] = "run"
  /\ task' = None
  /\ shared' = FALSE
  /\ lapped' = FALSE
  /\ UNCHANGED <<tasks, handler, registered>>

-----------------------------------------------------------------------------
Process(t) ==
  \/ Start(t) \/ Fork(t) \/ Clone(t)
  \/ Open(t) \/ Pass(t) \/ Register(t) \/ Close(t)
  \/ ReleaseTest(t) \/ ReleaseClear(t)
  \/ Exit(t) \/ LeaveTable(t) \/ ExitDone(t) \/ Reap(t)

Next ==
  \/ \E t \in Tasks : Process(t)
  \/ Interrupt
  \/ Argument
  \/ Send
  \/ Reload

Spec == Init /\ [][Next]_vars

-----------------------------------------------------------------------------
(* Every variable has its type, and whoever has ended has no table, no     *)
(* open file and is not in the middle of closing one.                      *)
TypeOK ==
  /\ state \in [Tasks -> {"free", "alive", "exiting", "zombie"}]
  /\ mates \in [Tasks -> SUBSET Tasks]
  /\ fds \in [Tasks -> SUBSET Files]
  /\ at \in [Tasks -> {"run", "test", "clear"}]
  /\ task \in Tasks \cup {None}
  /\ irq \in {"idle", "argument", "send"}
  /\ hit \in Tasks \cup {None}
  /\ registered \subseteq Tasks
  /\ shared \in BOOLEAN /\ lapped \in BOOLEAN
  /\ \A t \in Tasks : state[t] \in {"free", "zombie"} =>
       mates[t] = {t} /\ fds[t] = {} /\ at[t] = "run"

(* If no two tasks have referred to one open file, the pointer names a     *)
(* task that has the device open or is closing it: rootv_release forgets a *)
(* task before it is gone, although it clears the pointer only when the    *)
(* last reference is dropped and only if the one who drops it is the one   *)
(* registered.                                                             *)
RegisteredHoldsFile ==
  ~shared =>
    \A t \in Tasks : task = t =>
      state[t] \in {"alive", "exiting"} /\ (fds[t] # {} \/ at[t] # "run")

(* And the interrupt handler, which goes on with what it has loaded while  *)
(* the task closes, exits and is reaped, holds no structure that is free   *)
(* or belongs to another task, which has not registered.  It may hold NULL *)
(* although it has tested the pointer: a release clears it in between.     *)
SignalsReachRegistrants ==
  ~shared =>
    \A t \in Tasks : irq # "idle" /\ hit = t =>
      state[t] # "free" /\ t \in registered

(* A task that has a file open loses its registration to the next one that *)
(* registers or by closing a file itself; others clear the pointer under   *)
(* it only if it registered between the two steps of their release.        *)
RegistrationKept ==
  [][\A t \in Tasks :
       task = t /\ task' = None /\ fds[t] # {} /\ ~lapped =>
         at[t] = "clear"]_vars
=============================================================================
