---------------------------- MODULE AppendOnlyList ----------------------------
(***************************************************************************)
(* What the list of lesson 13 promises to the processes that use it: a     *)
(* write adds a number at the end, in one step; a read returns the numbers *)
(* from the first one on, all that were there when it began or as many as  *)
(* its buffer takes.  The list may break, and then promises nothing until  *)
(* the driver is loaded again.                                             *)
(***************************************************************************)
EXTENDS Integers, Sequences

CONSTANTS
  Nodes,     \* what can be added
  Readers,   \* reading processes
  Room       \* how many numbers a read's buffer takes

VARIABLES
  intact,    \* the promise holds
  items,     \* the list
  began,     \* began[r]: its length when r's read began; -1 outside a read
  result     \* result[r]: what r's last read returned

vars == <<intact, items, began, result>>

Empty ==
  /\ items = <<>>
  /\ began = [r \in Readers |-> -1]
  /\ result = [r \in Readers |-> <<>>]

Init == intact \in BOOLEAN /\ Empty

Add(n) ==
  /\ intact
  /\ items' = Append(items, n)
  /\ UNCHANGED <<intact, began, result>>

Begin(r) ==
  /\ intact /\ began[r] = -1
  /\ began' = [began EXCEPT ![r] = Len(items)]
  /\ result' = [result EXCEPT ![r] = <<>>]
  /\ UNCHANGED <<intact, items>>

Return(r) ==
  /\ intact /\ began[r] # -1
  /\ \E k \in 0..Len(items) :
       /\ k <= Room /\ (k >= began[r] \/ k = Room)
       /\ result' = [result EXCEPT ![r] = SubSeq(items, 1, k)]
  /\ began' = [began EXCEPT ![r] = -1]
  /\ UNCHANGED <<intact, items>>

Break == intact /\ ~intact' /\ Empty'

Reload == intact' \in BOOLEAN /\ Empty'

Next ==
  \/ \E n \in Nodes : Add(n)
  \/ \E r \in Readers : Begin(r) \/ Return(r)
  \/ Break
  \/ Reload

Spec == Init /\ [][Next]_vars
=============================================================================
