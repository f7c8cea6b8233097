---------------------------- MODULE MergedRequests ----------------------------
(***************************************************************************)
(* What lessons 12 and 15 expect of a work item or a tasklet.  An interrupt *)
(* or a write opens a request; a request is handed on, or given up for     *)
(* another one that is still open, and never dropped; a run closes one of  *)
(* them and shows the number as it is then.  So there is no more than one  *)
(* run for each event, and none is left without a run that follows it.     *)
(***************************************************************************)
CONSTANTS
  Holders,   \* who may hold a request
  Values,    \* numbers that are written
  Zero       \* the initial one

VARIABLES
  intact,    \* the promise holds
  open,      \* the holders of open requests
  value,     \* the number written last
  shown,     \* the number shown last
  unserved   \* an event has come that no run has followed

vars == <<intact, open, value, shown, unserved>>

Init ==
  /\ intact = TRUE
  /\ open = {}
  /\ value = Zero
  /\ shown = Zero
  /\ unserved = FALSE

(* An interrupt, or with a new number a write.                             *)
Ask(h) ==
  /\ h \notin open
  /\ open' = open \cup {h}
  /\ value' \in Values
  /\ unserved' = TRUE
  /\ UNCHANGED <<intact, shown>>

HandOn(h, i) ==
  /\ h \in open /\ i \notin open
  /\ open' = (open \ {h}) \cup {i}
  /\ UNCHANGED <<intact, value, shown, unserved>>

(* The run that is still to come for another request stands for this one.  *)
Merge(h) ==
  /\ h \in open /\ open # {h}
  /\ open' = open \ {h}
  /\ UNCHANGED <<intact, value, shown, unserved>>

Serve(h) ==
  /\ h \in open
  /\ open' = open \ {h}
  /\ shown' = value
  /\ unserved' = FALSE
  /\ UNCHANGED <<intact, value>>

(* Something was used that does not exist.                                 *)
Break ==
  /\ intact' = FALSE
  /\ open' = {}
  /\ UNCHANGED <<value, shown, unserved>>

Next ==
  /\ intact
  /\ \/ \E h \in Holders : Ask(h) \/ Merge(h) \/ Serve(h)
     \/ \E h, i \in Holders : HandOn(h, i)
     \/ Break

Spec == Init /\ [][Next]_vars
===============================================================================
