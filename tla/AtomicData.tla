------------------------------ MODULE AtomicData ------------------------------
(***************************************************************************)
(* What the commands of lessons 5, 6, 7 and 9 promise to processes that    *)
(* take turns: each command takes place in one step; a write that cannot   *)
(* fetch its argument to the end leaves zeroes behind (or nothing, if the  *)
(* driver fetches it into a buffer of its own first); a multiplication     *)
(* that cannot report has taken place.                                     *)
(***************************************************************************)
EXTENDS Integers

CONSTANTS Processes, Commands

VARIABLES
  intact,    \* the promise holds
  data,      \* the cells: which command a cell's number comes from, whether
             \* it is a zero, and which commands have multiplied it
  result     \* result[p]: what p's last command has brought

vars == <<intact, data, result>>

Number(c, zero) == [by |-> c, zero |-> zero, times |-> {}]
Multiplied(n, c) == [n EXCEPT !.times = @ \cup {c}]

(* How a command has ended, and for a read what it has brought.            *)
Outcome(r) == <<r, <<>>>>

Init ==
  /\ intact = TRUE
  /\ DOMAIN data # {} /\ data = [i \in DOMAIN data |-> Number(0, FALSE)]
  /\ result = [p \in Processes |-> Outcome("none")]

Answer(p, r) == result' = [result EXCEPT ![p] = r]

Read(p) == Answer(p, <<"ok", data>>) /\ UNCHANGED data

(* The first n cells are written, the first k of them with what was given. *)
Write(p, c) ==
  \E n \in DOMAIN data : \E k \in 0..n :
    /\ data' = [i \in DOMAIN data |->
                  IF i > n THEN data[i] ELSE Number(c, i > k)]
    /\ \E r \in {"ok", "error"} : (k = n => r = "ok") /\ Answer(p, Outcome(r))

Multiply(p, c) ==
  /\ data' = [i \in DOMAIN data |-> Multiplied(data[i], c)]
  /\ \E r \in {"ok", "error"} : Answer(p, Outcome(r))

(* Refused, or without effect.                                             *)
Nothing(p) ==
  /\ \E r \in {"ok", "error"} : Answer(p, Outcome(r))
  /\ UNCHANGED data

Command(p) ==
  /\ intact
  /\ \/ Read(p) \/ Nothing(p)
     \/ \E c \in Commands : Write(p, c) \/ Multiply(p, c)
  /\ UNCHANGED intact

Break ==
  /\ intact /\ intact' = FALSE
  /\ data' = <<>>
  /\ result' = [p \in Processes |-> Outcome("none")]

Next == (\E p \in Processes : Command(p)) \/ Break

Spec == Init /\ [][Next]_vars
=============================================================================
