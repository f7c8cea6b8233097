------------------------------ MODULE TextStream ------------------------------
(***************************************************************************)
(* What a process expects of a device file that shows a text: its reads    *)
(* bring the text piece by piece, each character once and in order, and    *)
(* the end of file after the last one.  A stream may break, and promises   *)
(* nothing then.                                                           *)
(***************************************************************************)
EXTENDS Integers, Sequences

VARIABLES
  intact,    \* a text is being read, and the promise holds
  text,      \* how many characters it has
  seen,      \* the pieces read: pairs of a first and a last character
  eof        \* a read has returned 0

vars == <<intact, text, seen, eof>>

Broken ==
  ~intact /\ text = 0 /\ seen = <<>> /\ ~eof

Init == Broken

(* How far the reader is.                                                  *)
Position == IF seen = <<>> THEN 0 ELSE seen[Len(seen)][2]

Open ==
  /\ ~intact /\ intact'
  /\ text' \in Nat
  /\ seen' = <<>> /\ ~eof'

Deliver ==
  /\ intact /\ ~eof
  /\ \E k \in (Position + 1)..text :
       seen' = Append(seen, <<Position + 1, k>>)
  /\ UNCHANGED <<intact, text, eof>>

End ==
  /\ intact /\ ~eof /\ Position = text
  /\ eof'
  /\ UNCHANGED <<intact, text, seen>>

Break == intact /\ Broken'

Next == Open \/ Deliver \/ End \/ Break

Spec == Init /\ [][Next]_vars
=============================================================================
