------------------------------- MODULE ReadText -------------------------------
(***************************************************************************)
(* The read handlers of lessons 5, 7, 9-14, 16 and 17: a number is written *)
(* as text into a buffer of the handler, and a part of it is copied to the *)
(* process that reads the device file until it gets 0.                     *)
(*                                                                         *)
(* The handlers differ in how they use the size that was asked for, the    *)
(* file's offset and the length of the text: a record per handler says     *)
(* how.  All of them copy from the beginning of the buffer.  A number is   *)
(* known by how many characters it has, a piece of text by its first and   *)
(* its last character.                                                     *)
(***************************************************************************)
EXTENDS Integers, Sequences

CONSTANTS
  Formats,   \* the handlers' records, see MCReadText
  Widths,    \* bound: how many characters a number has
  Sizes,     \* bound: how much a process asks for
  MaxSeen    \* bound: how many pieces of a file are remembered

Kinds == {"clip", "rest", "whole", "string", "again", "blind", "claim"}

ASSUME FormatsAssumption ==
  Formats \subseteq [kind : Kinds, label : Nat, size : Nat \ {0}, kept : BOOLEAN]
ASSUME BoundsAssumption ==
  /\ Widths \subseteq Nat \ {0}
  /\ Sizes \subseteq Nat \ {0}
  /\ MaxSeen \in Nat \ {0}

VARIABLES
  format,    \* the driver that is loaded
  width,     \* the number it shows
  opened,    \* the process has the file open
  asked,     \* the size it passes to each read
  off,       \* the file's offset
  answer,    \* what the last read returned; NoAnswer before the first
  seen,      \* history: the pieces read since the file was opened
  changed    \* history: the number has become longer or shorter since then

vars == <<format, width, opened, asked, off, answer, seen, changed>>

NoAnswer == -1
Fault == -14       \* -EFAULT

Smaller(a, b) == IF a <= b THEN a ELSE b

(* Label, number and newline.                                              *)
Full(f, w) == f.label + w + 1

\* Mutant: the result of snprintf is taken for the length of the string.
Length_M(f, w) == Full(f, w)

(* The length the handler goes on with: strlen of its buffer, or what      *)
(* snprintf and sprintf return, the length the text would have.            *)
Length(f, w) ==
  IF f.kept THEN Smaller(Full(f, w), f.size - 1) ELSE Full(f, w)

Init ==
  /\ format \in Formats
  /\ width \in Widths
  /\ opened = FALSE
  /\ asked \in Sizes
  /\ off = 0
  /\ answer = NoAnswer
  /\ seen = <<>>
  /\ changed = FALSE

-----------------------------------------------------------------------------
Open ==
  /\ ~opened
  /\ opened' = TRUE
  /\ asked' \in Sizes
  /\ off' = 0
  /\ answer' = NoAnswer
  /\ seen' = <<>>
  /\ changed' = FALSE
  /\ UNCHANGED <<format, width>>

Close ==
  /\ opened
  /\ opened' = FALSE
  /\ UNCHANGED <<format, width, asked, off, answer, seen, changed>>

(* Interrupts, threads and writes change the number.                       *)
Change ==
  /\ width' \in Widths \ {width}
  /\ changed' = opened
  /\ UNCHANGED <<format, opened, asked, off, answer, seen>>

(* The process reads until it gets 0.                                      *)
Reading == opened /\ answer # 0

(* The first n characters of the buffer are copied, and n is returned.     *)
Deliver(n) ==
  /\ answer' = n
  /\ seen' = IF n > 0 /\ Len(seen) < MaxSeen THEN Append(seen, <<1, n>>)
             ELSE seen
  /\ UNCHANGED <<format, width, opened, asked, changed>>

(* The handlers that look at the offset, and advance it.                   *)
Ends(f) == f.kind \in {"clip", "rest", "whole", "string"}

\* Mutant: one read too many.
AtEnd_M2 == off > Length(format, width)

(* "all data has been sent": return 0.                                     *)
AtEnd == off >= Length(format, width)

ReadEnd ==
  /\ Reading /\ Ends(format) /\ AtEnd
  /\ Deliver(0)
  /\ UNCHANGED off

(* 011, 012: at most what was asked for, counted from the beginning.       *)
ReadClip ==
  /\ Reading /\ format.kind = "clip" /\ ~AtEnd
  /\ LET n == Smaller(asked, Length(format, width))
     IN  Deliver(n) /\ off' = off + n

\* Mutant: the offset is left out of the length.
ReadRest_M ==
  /\ Reading /\ format.kind = "rest" /\ ~AtEnd
  /\ LET n == Smaller(asked, Length(format, width))
     IN  Deliver(n) /\ off' = off + n

(* 013, 014: at most what is left.                                         *)
ReadRest ==
  /\ Reading /\ format.kind = "rest" /\ ~AtEnd
  /\ LET n == Smaller(asked, Length(format, width) - off)
     IN  Deliver(n) /\ off' = off + n

(* 009: all of it, whatever was asked for.                                 *)
ReadWhole ==
  /\ Reading /\ format.kind = "whole" /\ ~AtEnd
  /\ LET n == Length(format, width)
     IN  Deliver(n) /\ off' = off + n

\* Mutant: the offset is not advanced.
ReadString_M ==
  /\ Reading /\ format.kind = "string" /\ ~AtEnd
  /\ Deliver(Length(format, width) + 1)
  /\ UNCHANGED off

(* 016, 017: all of it with the zero at its end; the length that is cut to *)
(* what was asked for is not used.                                         *)
ReadString ==
  /\ Reading /\ format.kind = "string" /\ ~AtEnd
  /\ LET n == Length(format, width) + 1
     IN  Deliver(n) /\ off' = off + n

(* 007's proc file and 005: the buffer, again and again; the offset stays  *)
(* 0, so that 007's test of it never succeeds.                             *)
ReadAgain ==
  /\ Reading /\ format.kind \in {"again", "blind"}
  /\ Deliver(format.size)
  /\ UNCHANGED off

(* 010 copies nothing and claims what was asked for, up to its buffer.     *)
ReadClaim ==
  /\ Reading /\ format.kind = "claim"
  /\ answer' = Smaller(asked, format.size)
  /\ UNCHANGED <<format, width, opened, asked, off, seen, changed>>

(* copy_to_user meets a bad address: the offset stays, and the process may *)
(* try again.  005 returns its size all the same.                          *)
ReadFault ==
  /\ Reading /\ format.kind # "claim"
  /\ Ends(format) => ~AtEnd
  /\ answer' = IF format.kind = "blind" THEN format.size ELSE Fault
  /\ UNCHANGED <<format, width, opened, asked, off, seen, changed>>

Read ==
  \/ ReadEnd \/ ReadClip \/ ReadRest \/ ReadWhole
  \/ ReadString \/ ReadAgain \/ ReadClaim

Next == Open \/ Close \/ Change \/ Read \/ ReadFault

Safety == Init /\ [][Next]_vars

(* A process that has the file open goes on reading; nothing is said about *)
(* when it closes the file or when the number changes.                     *)
Spec == Safety /\ WF_vars(Read)

-----------------------------------------------------------------------------
(* Every variable has its type.                                            *)
TypeOK ==
  /\ format \in Formats
  /\ width \in Widths
  /\ opened \in BOOLEAN
  /\ asked \in Sizes
  /\ off \in Nat
  /\ answer \in Nat \cup {NoAnswer, Fault}
  /\ seen \in Seq({1} \X (Nat \ {0}))
  /\ changed \in BOOLEAN

(* What reaches the process, the zero of a string included, and whether    *)
(* all of it has room in the handler's buffer.                             *)
Bytes(f, w) == IF f.kind = "string" THEN Full(f, w) + 1 ELSE Full(f, w)
Fits(f, w) == Full(f, w) < f.size

(* No piece is longer than the handler's buffer, unless the handler goes   *)
(* on with the length the text would have and the text does not fit.       *)
InsideBuffer ==
  [][answer' # answer /\ answer' > format.size =>
       ~format.kept /\ ~Fits(format, width)]_vars

(* Whatever size the process passes, the handlers of lessons 13 and 14     *)
(* return as many bytes as the text has if it does not change, and then 0. *)
RestAddsUp ==
  opened /\ ~changed /\ format.kind = "rest" /\ answer = 0 =>
    off = Length(format, width)

(* Reading comes to an end, also if the number grows meanwhile, if a size  *)
(* is small or if addresses are bad in between; not so for lessons 5, 7    *)
(* and 10, which never advance the offset.                                 *)
ReadsEnd == opened /\ Ends(format) ~> answer = 0 \/ ~opened

(* A process that asks for enough at once, of a number that fits into the  *)
(* buffer and keeps its length, gets the text once and then the end.       *)
(* Handlers that ignore what was asked for do not need the first.          *)
Intact ==
  /\ opened /\ ~changed
  /\ Ends(format) /\ Fits(format, width)
  /\ format.kind \in {"clip", "rest"} => asked >= Full(format, width)

Stream ==
  INSTANCE TextStream WITH
    intact <- Intact,
    text <- IF Intact THEN Bytes(format, width) ELSE 0,
    seen <- IF Intact THEN seen ELSE <<>>,
    eof <- Intact /\ answer = 0

Implements == Stream!Spec
=============================================================================
