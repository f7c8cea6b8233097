-------------------------- MODULE SignalDriverProofs --------------------------
(***************************************************************************)
(* Proofs about SignalDriver, for any number of tasks and files.           *)
(***************************************************************************)
EXTENDS SignalDriver, TLAPS

(* Who uses a table of open files sees the same files in it as its mates.  *)
MateInv ==
  \A t, u \in Tasks :
    /\ t \in mates[t]
    /\ u \in mates[t] => mates[u] = mates[t] /\ fds[u] = fds[t]

(* Unless files are shared, an open file belongs to one task.              *)
FileInv ==
  ~shared => \A t, u \in Tasks : t # u => fds[t] \cap fds[u] = {}

(* Whoever is about to clear the pointer clears its own, unless somebody   *)
(* has registered meanwhile.                                               *)
ClearInv ==
  ~lapped => \A t \in Tasks : at[t] = "clear" => task = t

RegisteredInv ==
  ~shared => \A t \in Tasks : task = t => t \in registered

Inv ==
  /\ TypeOK /\ MateInv /\ FileInv /\ ClearInv /\ RegisteredInv
  /\ RegisteredHoldsFile /\ SignalsReachRegistrants

USE NoneAssumption DEF tasks, handler, history

(* Without processes the invariant holds.                                  *)
LEMMA InitInv == Init => Inv
<1> SUFFICES ASSUME Init PROVE Inv
  OBVIOUS
<1> USE DEF Init
<1>1. TypeOK
  BY DEF TypeOK
<1>2. MateInv /\ FileInv
  BY DEF MateInv, FileInv
<1>3. ClearInv /\ RegisteredInv /\ RegisteredHoldsFile /\ SignalsReachRegistrants
  BY DEF ClearInv, RegisteredInv, RegisteredHoldsFile, SignalsReachRegistrants
<1>4. QED
  BY <1>1, <1>2, <1>3 DEF Inv

(* A task that is new starts alone.                                        *)
LEMMA StartInv ==
  ASSUME Inv, NEW t \in Tasks, Start(t)
  PROVE  Inv'
<1> USE DEF Start
<1>1. TypeOK'
  BY DEF Inv, TypeOK
<1>2. MateInv' /\ FileInv' /\ ClearInv'
  BY DEF Inv, MateInv, FileInv, ClearInv
<1>3. RegisteredHoldsFile'
  BY DEF Inv, TypeOK, RegisteredHoldsFile
<1>4. RegisteredInv' /\ SignalsReachRegistrants'
  BY DEF Inv, TypeOK, RegisteredInv, RegisteredHoldsFile,
         SignalsReachRegistrants
<1>5. QED
  BY <1>1, <1>2, <1>3, <1>4 DEF Inv

(* The end of a task.  A table that is shared holds no file of a task that *)
(* shares none.                                                            *)
LEMMA EndInv ==
  ASSUME Inv, NEW t \in Tasks, Exit(t) \/ LeaveTable(t) \/ ExitDone(t) \/ Reap(t)
  PROVE  Inv'
<1>1. CASE Exit(t) \/ ExitDone(t) \/ Reap(t)
  <2> USE DEF Exit, ExitDone, Reap, Running
  <2>1. TypeOK'
    BY <1>1 DEF Inv, TypeOK
  <2>2. MateInv' /\ FileInv' /\ ClearInv'
    BY <1>1 DEF Inv, MateInv, FileInv, ClearInv
  <2>3. RegisteredHoldsFile'
    BY <1>1 DEF Inv, TypeOK, RegisteredHoldsFile
  <2>4. RegisteredInv' /\ SignalsReachRegistrants'
    BY <1>1 DEF Inv, TypeOK, RegisteredInv, SignalsReachRegistrants
  <2>5. QED
    BY <2>1, <2>2, <2>3, <2>4 DEF Inv
<1>2. CASE LeaveTable(t)
  <2> USE DEF LeaveTable
  <2>1. TypeOK'
    BY <1>2 DEF Inv, TypeOK
  <2>2. MateInv'
    BY <1>2 DEF Inv, TypeOK, MateInv
  <2>3. FileInv' /\ ClearInv' /\ RegisteredInv' /\ SignalsReachRegistrants'
    BY <1>2 DEF Inv, TypeOK, FileInv, ClearInv, RegisteredInv,
                SignalsReachRegistrants
  <2>4. ~shared => fds[t] = {}
    <3>1. PICK u \in Tasks : u # t /\ u \in mates[t]
      BY <1>2 DEF Inv, TypeOK, MateInv
    <3>2. fds[u] = fds[t]
      BY <3>1 DEF Inv, MateInv
    <3>3. QED
      BY <3>1, <3>2 DEF Inv, FileInv
  <2>5. RegisteredHoldsFile'
    BY <1>2, <2>4 DEF Inv, TypeOK, RegisteredHoldsFile
  <2>6. QED
    BY <2>1, <2>2, <2>3, <2>5 DEF Inv
<1>3. QED
  BY <1>1, <1>2

(* A child of a task with open files shares them, whether it has a copy of *)
(* the table or the table itself; another child starts without any.        *)
LEMMA ForkInv ==
  ASSUME Inv, NEW t \in Tasks, Fork(t) \/ Clone(t)
  PROVE  Inv'
<1>1. PICK c \in Tasks :
        /\ state[c] = "free"
        /\ state' = [state EXCEPT ![c] = "alive"]
        /\ fds' = [fds EXCEPT ![c] = fds[t]]
        /\ registered' = registered \ {c}
        /\ \/ mates' = mates
           \/ mates' = [u \in Tasks |-> IF u \in mates[t] \cup {c}
                                        THEN mates[t] \cup {c} ELSE mates[u]]
  BY DEF Fork, Clone
<1>2. /\ Running(t) /\ (~shared' => ~shared /\ fds[t] = {})
      /\ shared' \in BOOLEAN /\ UNCHANGED <<at, task, handler, lapped>>
  BY DEF Fork, Clone, Inv, TypeOK
<1>3. c # t /\ fds[c] = {} /\ at[c] = "run" /\ mates[c] = {c}
  BY <1>1, <1>2 DEF Running, Inv, TypeOK
<1>4. TypeOK'
  <2>1. mates' \in [Tasks -> SUBSET Tasks]
    BY <1>1 DEF Inv, TypeOK
  <2>2. \A u \in Tasks : state'[u] \in {"free", "zombie"} =>
          u # c /\ u \notin mates[t]
    <3>1. \A u \in mates[t] : mates[u] = mates[t] /\ t \in mates[t]
      BY DEF Inv, TypeOK, MateInv
    <3>2. \A u \in Tasks : state[u] \in {"free", "zombie"} => mates[u] = {u} /\ u # t
      BY <1>2 DEF Running, Inv, TypeOK
    <3>3. QED
      BY <1>1, <3>1, <3>2 DEF Inv, TypeOK
  <2>3. QED
    BY <1>1, <1>2, <2>1, <2>2 DEF Inv, TypeOK
<1>5. MateInv'
  <2>1. \A u \in Tasks : c \in mates[u] => u = c
    BY <1>3 DEF Inv, MateInv
  <2>2. CASE mates' = mates
    BY <1>1, <1>3, <2>1, <2>2 DEF Inv, TypeOK, MateInv
  <2>3. CASE mates' = [u \in Tasks |-> IF u \in mates[t] \cup {c}
                                        THEN mates[t] \cup {c} ELSE mates[u]]
    BY <1>1, <1>3, <2>1, <2>3 DEF Inv, TypeOK, MateInv
  <2>4. QED
    BY <1>1, <2>2, <2>3
<1>6. FileInv' /\ ClearInv'
  BY <1>1, <1>2, <1>3 DEF Inv, TypeOK, FileInv, ClearInv
<1>7. ~shared => task # c /\ (irq # "idle" => hit # c)
  BY <1>1, <1>3 DEF Inv, RegisteredHoldsFile, SignalsReachRegistrants
<1>8. RegisteredHoldsFile'
  BY <1>1, <1>2, <1>7 DEF Inv, TypeOK, RegisteredHoldsFile
<1>9. RegisteredInv' /\ SignalsReachRegistrants'
  BY <1>1, <1>2, <1>7 DEF Inv, TypeOK, RegisteredInv, SignalsReachRegistrants
<1>10. QED
  BY <1>4, <1>5, <1>6, <1>8, <1>9 DEF Inv

(* Files come to a table, for all who use it.                              *)
LEMMA ReceiveInv ==
  ASSUME Inv, NEW t \in Tasks, NEW f \in Files, state[t] = "alive",
         Receive(t, f), shared' \in BOOLEAN,
         ~shared' => ~shared /\ mates[t] = {t} /\ \A u \in Tasks : f \notin fds[u],
         UNCHANGED <<state, mates, at, task, handler, registered, lapped>>
  PROVE  Inv'
<1> USE DEF Receive
<1>1. TypeOK'
  <2>1. \A u \in mates[t] : state[u] \notin {"free", "zombie"}
    BY DEF Inv, TypeOK, MateInv
  <2>2. QED
    BY <2>1 DEF Inv, TypeOK
<1>2. MateInv'
  BY DEF Inv, TypeOK, MateInv
<1>3. FileInv'
  BY DEF Inv, TypeOK, FileInv
<1>4. ClearInv' /\ RegisteredInv' /\ SignalsReachRegistrants'
  BY DEF Inv, ClearInv, RegisteredInv, SignalsReachRegistrants
<1>5. RegisteredHoldsFile'
  BY DEF Inv, TypeOK, RegisteredHoldsFile
<1>6. QED
  BY <1>1, <1>2, <1>3, <1>4, <1>5 DEF Inv

(* The operations of the device file.                                      *)
LEMMA FileStepInv ==
  ASSUME Inv, NEW t \in Tasks, Open(t) \/ Pass(t) \/ Register(t) \/ Close(t)
  PROVE  Inv'
<1>1. CASE Open(t)
  <2>1. PICK f \in Files : (\A u \in Tasks : f \notin fds[u]) /\ Receive(t, f)
    BY <1>1 DEF Open
  <2>2. /\ state[t] = "alive" /\ shared' \in BOOLEAN
        /\ ~shared' => ~shared /\ mates[t] = {t}
        /\ UNCHANGED <<state, mates, at, task, handler, registered, lapped>>
    BY <1>1 DEF Open, Running, Inv, TypeOK
  <2>3. QED
    BY <2>1, <2>2, ReceiveInv
<1>2. CASE Pass(t)
  <2>1. PICK u \in Tasks, f \in Files : Running(u) /\ Receive(u, f)
    BY <1>2 DEF Pass, Inv, TypeOK
  <2>2. /\ state[u] = "alive" /\ shared'
        /\ shared' \in BOOLEAN
        /\ UNCHANGED <<state, mates, at, task, handler, registered, lapped>>
    BY <1>2, <2>1 DEF Pass, Running
  <2>3. QED
    BY <2>1, <2>2, ReceiveInv
<1>3. CASE Register(t)
  <2> USE DEF Register, Running
  <2>1. TypeOK'
    BY <1>3 DEF Inv, TypeOK
  <2>2. MateInv' /\ FileInv' /\ ClearInv'
    BY <1>3 DEF Inv, MateInv, FileInv, ClearInv
  <2>3. RegisteredInv' /\ RegisteredHoldsFile' /\ SignalsReachRegistrants'
    BY <1>3 DEF Inv, RegisteredInv, RegisteredHoldsFile,
                SignalsReachRegistrants
  <2>4. QED
    BY <2>1, <2>2, <2>3 DEF Inv
<1>4. CASE Close(t)
  <2>1. PICK f \in fds[t] :
          /\ fds' = [u \in Tasks |-> IF u \in mates[t] THEN fds[u] \ {f} ELSE fds[u]]
          /\ at' = [at EXCEPT ![t] = IF \E u \in Tasks \ mates[t] : f \in fds[u]
                                    THEN "run" ELSE "test"]
    BY <1>4 DEF Close
  <2>2. /\ state[t] \in {"alive", "exiting"} /\ at[t] = "run"
        /\ UNCHANGED <<state, mates, task, handler, history>>
    BY <1>4 DEF Close
  <2>3. TypeOK'
    BY <2>1, <2>2 DEF Inv, TypeOK
  <2>4. MateInv'
    <3>1. mates' = mates
      BY <2>2
    <3>2. \A u, v \in Tasks : v \in mates[u] => fds'[v] = fds'[u]
      <4> SUFFICES ASSUME NEW u \in Tasks, NEW v \in Tasks, v \in mates[u]
                   PROVE  fds'[v] = fds'[u]
        OBVIOUS
      <4>1. fds[v] = fds[u] /\ (v \in mates[t] <=> u \in mates[t])
        BY DEF Inv, MateInv
      <4>2. QED
        BY <2>1, <4>1
    <3>3. QED
      BY <3>1, <3>2 DEF Inv, MateInv
  <2>5. FileInv' /\ RegisteredInv' /\ SignalsReachRegistrants'
    BY <2>1, <2>2
    DEF Inv, TypeOK, FileInv, RegisteredInv, SignalsReachRegistrants
  <2>6. ClearInv'
    BY <2>1, <2>2 DEF Inv, TypeOK, ClearInv
  <2>7. RegisteredHoldsFile'
    <3>1. ~shared => at'[t] = "test"
      <4>1. t \in mates[t] /\ at \in [Tasks -> {"run", "test", "clear"}]
        BY DEF Inv, TypeOK, MateInv
      <4>2. ~shared => \A u \in Tasks : f \in fds[u] => u = t
        BY <2>1 DEF Inv, FileInv
      <4>3. QED
        BY <2>1, <4>1, <4>2
    <3>2. ~shared => \A u \in Tasks : u # t => fds'[u] = fds[u] /\ at'[u] = at[u]
      BY <2>1 DEF Inv, TypeOK, FileInv
    <3>3. QED
      BY <2>2, <3>1, <3>2 DEF Inv, RegisteredHoldsFile
  <2>8. QED
    BY <2>3, <2>4, <2>5, <2>6, <2>7 DEF Inv
<1>5. QED
  BY <1>1, <1>2, <1>3, <1>4

(* rootv_release: with its test true it is about to clear the pointer.     *)
LEMMA ReleaseInv ==
  ASSUME Inv, NEW t \in Tasks, ReleaseTest(t) \/ ReleaseClear(t)
  PROVE  Inv'
<1>1. CASE ReleaseTest(t)
  <2> USE DEF ReleaseTest
  <2>1. TypeOK'
    BY <1>1 DEF Inv, TypeOK
  <2>2. MateInv' /\ FileInv' /\ RegisteredInv' /\ SignalsReachRegistrants'
    BY <1>1 DEF Inv, MateInv, FileInv, RegisteredInv, SignalsReachRegistrants
  <2>3. ClearInv' /\ RegisteredHoldsFile'
    BY <1>1 DEF Inv, TypeOK, ClearInv, RegisteredHoldsFile
  <2>4. QED
    BY <2>1, <2>2, <2>3 DEF Inv
<1>2. CASE ReleaseClear(t)
  <2> USE DEF ReleaseClear
  <2>1. TypeOK'
    BY <1>2 DEF Inv, TypeOK
  <2>2. MateInv' /\ FileInv' /\ RegisteredInv' /\ SignalsReachRegistrants'
    BY <1>2 DEF Inv, MateInv, FileInv, RegisteredInv, SignalsReachRegistrants
  <2>3. ClearInv' /\ RegisteredHoldsFile'
    BY <1>2 DEF Inv, TypeOK, ClearInv, RegisteredHoldsFile
  <2>4. QED
    BY <2>1, <2>2, <2>3 DEF Inv
<1>3. QED
  BY <1>1, <1>2

(* The interrupt handler, whose two loads find a task that is registered   *)
(* and there, or NULL, and a reload.                                       *)
LEMMA DriverInv ==
  ASSUME Inv, Interrupt \/ Argument \/ Send \/ Reload
  PROVE  Inv'
<1> USE DEF Interrupt, Argument, Send, Reload
<1>1. TypeOK'
  BY DEF Inv, TypeOK
<1>2. MateInv' /\ FileInv'
  BY DEF Inv, MateInv, FileInv
<1>3. ClearInv' /\ RegisteredInv' /\ RegisteredHoldsFile'
  BY DEF Inv, ClearInv, RegisteredInv, RegisteredHoldsFile
<1>4. SignalsReachRegistrants'
  BY DEF Inv, RegisteredInv, RegisteredHoldsFile, SignalsReachRegistrants
<1>5. QED
  BY <1>1, <1>2, <1>3, <1>4 DEF Inv

(* Every step keeps the invariant.                                         *)
LEMMA NextInv == Inv /\ [Next]_vars => Inv'
<1> SUFFICES ASSUME Inv, [Next]_vars PROVE Inv'
  OBVIOUS
<1>1. CASE \E t \in Tasks : Process(t)
  BY <1>1, StartInv, EndInv, ForkInv, FileStepInv, ReleaseInv DEF Process
<1>2. CASE Interrupt \/ Argument \/ Send \/ Reload
  BY <1>2, DriverInv
<1>3. CASE UNCHANGED vars
  BY <1>3 DEF vars, Inv, TypeOK, MateInv, FileInv, ClearInv, RegisteredInv,
              RegisteredHoldsFile, SignalsReachRegistrants
<1>4. QED
  BY <1>1, <1>2, <1>3 DEF Next

(* The invariant all theorems of this module rest on.                      *)
THEOREM Invariance == Spec => []Inv
  BY InitInv, NextInv, PTL DEF Spec

(* The types; whoever has ended has no open file.                          *)
THEOREM TypeCorrect == Spec => []TypeOK
<1>1. Inv => TypeOK
  BY DEF Inv
<1>2. QED
  BY <1>1, Invariance, PTL

(* The pointer is cleared before its task is gone, for any number of tasks *)
(* and files, while no two tasks refer to one open file.                   *)
THEOREM PointerIsCurrent == Spec => []RegisteredHoldsFile
<1>1. Inv => RegisteredHoldsFile
  BY DEF Inv
<1>2. QED
  BY <1>1, Invariance, PTL

(* What the handler holds, at its test and at its second load, is no task  *)
(* that is gone or has not registered, while no file is shared.  It may be *)
(* NULL.                                                                   *)
THEOREM SignalsArrive == Spec => []SignalsReachRegistrants
<1>1. Inv => SignalsReachRegistrants
  BY DEF Inv
<1>2. QED
  BY <1>1, Invariance, PTL

(* Nobody else takes a registration away, unless it came in the middle of  *)
(* that one's release.                                                     *)
THEOREM RegistrationStays == Spec => RegistrationKept
<1>1. Inv /\ [Next]_vars =>
        [\A t \in Tasks :
           task = t /\ task' = None /\ fds[t] # {} /\ ~lapped => at[t] = "clear"]_vars
  <2> SUFFICES ASSUME Inv, Next, NEW t \in Tasks,
                      task = t, task' = None, fds[t] # {}, ~lapped
               PROVE  at[t] = "clear"
    OBVIOUS
  <2>1. CASE \E u \in Tasks : ReleaseClear(u)
    BY <2>1 DEF ReleaseClear, Inv, ClearInv
  <2>2. CASE ~\E u \in Tasks : ReleaseClear(u)
    BY <2>2 DEF Next, Process, Start, Fork, Clone, Open, Pass, Register, Close,
                ReleaseTest, Exit, LeaveTable, ExitDone, Reap, Interrupt,
                Argument, Send, Reload
  <2>3. QED
    BY <2>1, <2>2
<1>2. QED
  BY <1>1, Invariance, PTL DEF Spec, RegistrationKept
=============================================================================
