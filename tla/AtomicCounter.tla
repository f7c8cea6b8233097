---------------------------- MODULE AtomicCounter ----------------------------
(***************************************************************************)
(* What the counter of lessons 16 and 17 promises: every turn of a thread  *)
(* adds exactly one, and a read sees the counter at one instant.  Once     *)
(* broken, the promise says nothing until the next load.                   *)
(***************************************************************************)
EXTENDS Naturals

CONSTANTS
  NumThreads,   \* counting threads
  Users,        \* reading processes
  W             \* the counter wraps at W

VARIABLES
  intact,       \* the promise holds
  value,        \* the counter
  turns,        \* turns[t]: how often thread t has counted, modulo W
  snap          \* snap[u]: what u's last read saw

vars == <<intact, value, turns, snap>>

Init ==
  /\ intact = TRUE
  /\ value = 0
  /\ turns = [t \in 1..NumThreads |-> 0]
  /\ snap = [u \in Users |-> 0]

Turn(t) ==
  /\ intact
  /\ value' = (value + 1) % W
  /\ turns' = [turns EXCEPT ![t] = (@ + 1) % W]
  /\ UNCHANGED <<intact, snap>>

Read(u) ==
  /\ intact
  /\ snap' = [snap EXCEPT ![u] = value]
  /\ UNCHANGED <<intact, value, turns>>

Break ==
  /\ intact /\ ~intact'
  /\ UNCHANGED <<value, turns, snap>>

Broken == ~intact /\ ~intact'

\* A new load of the module starts from zero.
Reload ==
  /\ intact'
  /\ value' = 0
  /\ turns' = [t \in 1..NumThreads |-> 0]
  /\ snap' = [u \in Users |-> 0]

Next == \/ \E t \in 1..NumThreads : Turn(t)
        \/ \E u \in Users : Read(u)
        \/ Break
        \/ Broken
        \/ Reload

Spec == Init /\ [][Next]_vars
===============================================================================
