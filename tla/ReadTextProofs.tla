---------------------------- MODULE ReadTextProofs ----------------------------
(***************************************************************************)
(* Proofs about ReadText, for all handlers that the records can describe,  *)
(* all numbers and all sizes: what a read returns, and that the handlers   *)
(* implement the stream of a text where they are used as intended.         *)
(***************************************************************************)
EXTENDS ReadText, TLAPS

USE FormatsAssumption, BoundsAssumption
USE DEF NoAnswer, Fault, Smaller

(* A handler's record is one.                                              *)
LEMMA Format ==
  ASSUME NEW f \in Formats
  PROVE  /\ f.kind \in Kinds
         /\ f.label \in Nat /\ f.size \in Nat \ {0}
         /\ f.kept \in BOOLEAN
  OBVIOUS

(* The length that a handler goes on with: never more than the text, the   *)
(* text if it fits, and with strlen less than the buffer.                  *)
LEMMA LengthFacts ==
  ASSUME NEW f \in Formats, NEW w \in Widths
  PROVE  /\ Full(f, w) \in Nat \ {0, 1}
         /\ Length(f, w) \in Nat /\ Length(f, w) <= Full(f, w)
         /\ Fits(f, w) => Length(f, w) = Full(f, w)
         /\ f.kept => Length(f, w) < f.size
<1>1. f.label \in Nat /\ f.size \in Nat \ {0} /\ w \in Nat \ {0}
  BY Format
<1>2. Full(f, w) \in Nat \ {0, 1}
  BY <1>1 DEF Full
<1>3. QED
  BY <1>1, <1>2 DEF Length, Fits

(* The piece that is remembered of a read.                                 *)
LEMMA Piece ==
  ASSUME NEW n \in Nat, Deliver(n)
  PROVE  /\ answer' = n
         /\ seen' = seen \/ (n # 0 /\ seen' = Append(seen, <<1, n>>))
         /\ UNCHANGED <<format, width, opened, asked, changed>>
<1>1. seen' = seen \/ (n # 0 /\ seen' = Append(seen, <<1, n>>))
  <2>1. CASE n > 0 /\ Len(seen) < MaxSeen
    BY <2>1 DEF Deliver
  <2>2. CASE ~(n > 0 /\ Len(seen) < MaxSeen)
    BY <2>2, Zenon DEF Deliver
  <2>3. QED
    BY <2>1, <2>2
<1>2. QED
  BY <1>1 DEF Deliver

(* What one read step does, whatever the handler: the next offset, and an  *)
(* answer that is positive unless the text is at its end.                  *)
Step ==
  /\ opened /\ answer # 0
  /\ UNCHANGED <<format, width, opened, asked, changed>>
  /\ off' \in Nat /\ answer' \in Nat
  /\ answer' = 0 => Ends(format) /\ AtEnd /\ off' = off
  /\ answer' # 0 => ~(Ends(format) /\ AtEnd)
  /\ format.kind \in {"clip", "rest", "claim"} => answer' <= asked
  /\ format.kind = "rest" /\ ~AtEnd =>
       off' = off + answer' /\ off' <= Length(format, width)
  /\ answer' <= format.size \/ (~format.kept /\ ~Fits(format, width))

LEMMA ReadStep ==
  ASSUME TypeOK, Read
  PROVE  /\ Step
         /\ seen' = seen \/ (answer' # 0 /\ seen' = Append(seen, <<1, answer'>>))
<1> DEFINE len == Length(format, width)
<1>1. /\ len \in Nat /\ off \in Nat /\ asked \in Nat \ {0}
      /\ format.size \in Nat \ {0} /\ format.kept \in BOOLEAN
  BY Format, LengthFacts DEF TypeOK
<1>2. /\ Fits(format, width) => len < format.size
      /\ format.kept => len < format.size
  <2>1. format \in Formats /\ width \in Widths
    BY DEF TypeOK
  <2>2. Fits(format, width) => Full(format, width) < format.size
    BY DEF Fits
  <2>3. QED
    BY <1>1, <2>1, <2>2, LengthFacts
<1>3. (AtEnd <=> off >= len) /\ len = Length(format, width)
  BY DEF AtEnd
<1> HIDE DEF len
<1>4. ASSUME NEW n \in Nat, Deliver(n), opened, answer # 0, off' \in Nat,
             n = 0 => Ends(format) /\ AtEnd /\ off' = off,
             n # 0 => ~(Ends(format) /\ AtEnd),
             format.kind \in {"clip", "rest", "claim"} => n <= asked,
             format.kind = "rest" /\ ~AtEnd => off' = off + n /\ off' <= len,
             n <= format.size \/ (~format.kept /\ ~Fits(format, width))
      PROVE  Step /\ (seen' = seen \/ (answer' # 0 /\ seen' = Append(seen, <<1, answer'>>)))
  <2>1. /\ answer' = n
        /\ seen' = seen \/ (n # 0 /\ seen' = Append(seen, <<1, n>>))
        /\ UNCHANGED <<format, width, opened, asked, changed>>
    BY <1>4, Piece
  <2>2. Step
    BY <1>3, <1>4, <2>1 DEF Step
  <2>3. QED
    BY <2>1, <2>2, Zenon
<1>5. CASE ReadEnd
  <2>1. /\ Deliver(0) /\ opened /\ answer # 0 /\ off' = off
        /\ Ends(format) /\ AtEnd
    BY <1>5 DEF ReadEnd, Reading
  <2>2. QED
    BY <1>1, <1>4, <2>1 DEF Ends
<1>6. CASE ReadClip
  <2> DEFINE n == Smaller(asked, len)
  <2>1. /\ Deliver(n) /\ opened /\ answer # 0 /\ off' = off + n
        /\ format.kind = "clip" /\ ~AtEnd
    BY <1>3, <1>6 DEF ReadClip, Reading
  <2>2. n \in Nat \ {0} /\ n <= asked /\ n <= len
    BY <1>1, <1>3, <2>1
  <2> HIDE DEF n
  <2>3. QED
    BY <1>1, <1>2, <1>4, <2>1, <2>2
<1>7. CASE ReadRest
  <2> DEFINE n == Smaller(asked, len - off)
  <2>1. /\ Deliver(n) /\ opened /\ answer # 0 /\ off' = off + n
        /\ format.kind = "rest" /\ ~AtEnd
    BY <1>3, <1>7 DEF ReadRest, Reading
  <2>2. n \in Nat \ {0} /\ n <= asked /\ n <= len /\ off + n <= len
    BY <1>1, <1>3, <2>1
  <2> HIDE DEF n
  <2>3. QED
    BY <1>1, <1>2, <1>4, <2>1, <2>2
<1>8. CASE ReadWhole
  <2>1. /\ Deliver(len) /\ opened /\ answer # 0 /\ off' = off + len
        /\ format.kind = "whole" /\ ~AtEnd
    BY <1>3, <1>8 DEF ReadWhole, Reading
  <2>2. len # 0
    BY <1>1, <1>3, <2>1
  <2>3. QED
    BY <1>1, <1>2, <1>4, <2>1, <2>2
<1>9. CASE ReadString
  <2>1. /\ Deliver(len + 1) /\ opened /\ answer # 0 /\ off' = off + (len + 1)
        /\ format.kind = "string" /\ ~AtEnd
    BY <1>3, <1>9 DEF ReadString, Reading
  <2>2. len + 1 \in Nat \ {0} /\ off + (len + 1) \in Nat
    BY <1>1
  <2>3. len + 1 <= format.size \/ (~format.kept /\ ~Fits(format, width))
    BY <1>1, <1>2
  <2>4. QED
    BY <1>4, <2>1, <2>2, <2>3
<1>10. CASE ReadAgain
  <2>1. /\ Deliver(format.size) /\ opened /\ answer # 0 /\ off' = off
        /\ format.kind \in {"again", "blind"}
    BY <1>10 DEF ReadAgain, Reading
  <2>2. QED
    BY <1>1, <1>4, <2>1 DEF Ends
<1>11. CASE ReadClaim
  <2>1. Step
    BY <1>1, <1>3, <1>11 DEF ReadClaim, Reading, Step, Ends
  <2>2. QED
    BY <1>11, <2>1, Zenon DEF ReadClaim
<1>12. QED
  BY <1>5, <1>6, <1>7, <1>8, <1>9, <1>10, <1>11, Zenon DEF Read

-----------------------------------------------------------------------------
(* Types: the answers and offsets of every handler.                        *)
THEOREM TypeCorrect == Safety => []TypeOK
<1>1. ASSUME Init PROVE TypeOK
  <2>1. <<>> \in Seq({1} \X (Nat \ {0}))
    OBVIOUS
  <2>2. QED
    BY <1>1, <2>1 DEF Init, TypeOK
<1>2. TypeOK /\ [Next]_vars => TypeOK'
  <2> SUFFICES ASSUME TypeOK, [Next]_vars PROVE TypeOK'
    OBVIOUS
  <2>1. CASE Open \/ Close \/ Change
    <3>1. <<>> \in Seq({1} \X (Nat \ {0}))
      OBVIOUS
    <3>2. CASE Open
      BY <3>1, <3>2 DEF Open, TypeOK
    <3>3. CASE Close \/ Change
      BY <3>3 DEF Close, Change, TypeOK
    <3>4. QED
      BY <2>1, <3>2, <3>3
  <2>2. CASE Read
    <3>1. Step /\ (seen' = seen \/ (answer' # 0 /\ seen' = Append(seen, <<1, answer'>>)))
      BY <2>2, ReadStep
    <3>2. seen \in Seq({1} \X (Nat \ {0})) /\ answer' \in Nat
      BY <3>1 DEF TypeOK, Step
    <3>3. answer' # 0 => <<1, answer'>> \in {1} \X (Nat \ {0})
      BY <3>2
    <3>4. seen' \in Seq({1} \X (Nat \ {0}))
      <4>1. CASE seen' = seen
        BY <3>2, <4>1
      <4>2. CASE answer' # 0 /\ seen' = Append(seen, <<1, answer'>>)
        <5> DEFINE p == <<1, answer'>>
        <5>1. p \in {1} \X (Nat \ {0}) /\ seen' = Append(seen, p)
          BY <3>3, <4>2
        <5> HIDE DEF p
        <5>2. QED
          BY <3>2, <5>1
      <4>3. QED
        BY <3>1, <4>1, <4>2
    <3>5. QED
      BY <3>1, <3>4 DEF TypeOK, Step
  <2>3. CASE ReadFault
    <3>1. format.size \in Nat
      BY Format DEF TypeOK
    <3>2. QED
      BY <2>3, <3>1 DEF ReadFault, TypeOK
  <2>4. CASE UNCHANGED vars
    BY <2>4 DEF vars, TypeOK
  <2>5. QED
    BY <2>1, <2>2, <2>3, <2>4 DEF Next
<1>3. QED
  BY <1>1, <1>2, PTL DEF Safety

(* No piece is longer than the buffer it comes from, unless the length is  *)
(* the one snprintf reports for a text that does not fit.                  *)
THEOREM PiecesInside == Safety => InsideBuffer
<1>1. ASSUME TypeOK, [Next]_vars, answer' # answer, answer' > format.size
      PROVE  ~format.kept /\ ~Fits(format, width)
  <2>1. format.size \in Nat \ {0}
    BY <1>1, Format DEF TypeOK
  <2>2. CASE Open \/ Close \/ Change \/ UNCHANGED vars
    BY <1>1, <2>1, <2>2 DEF Open, Close, Change, vars
  <2>3. CASE Read
    BY <1>1, <2>1, <2>3, ReadStep DEF Step
  <2>4. CASE ReadFault
    BY <1>1, <2>1, <2>4 DEF ReadFault
  <2>5. QED
    BY <1>1, <2>2, <2>3, <2>4 DEF Next
<1>2. QED
  BY <1>1, TypeCorrect, PTL DEF Safety, InsideBuffer

-----------------------------------------------------------------------------
(* Lessons 13 and 14: while the text does not change, the offset stays     *)
(* within it, and 0 is returned when it has been delivered.                *)
RestInv ==
  opened /\ ~changed /\ format.kind = "rest" =>
    /\ off <= Length(format, width)
    /\ answer = 0 => off = Length(format, width)

(* The bytes of all reads add up to the text's length, whatever the sizes. *)
THEOREM BytesAddUp == Safety => []RestAddsUp
<1>1. Init => RestInv
  BY DEF Init, RestInv
<1>2. ASSUME TypeOK, RestInv, [Next]_vars PROVE RestInv'
  <2>1. Length(format, width) \in Nat /\ off \in Nat
    BY <1>2, LengthFacts DEF TypeOK
  <2>2. CASE Open
    BY <2>1, <2>2 DEF Open, RestInv
  <2>3. CASE Close \/ UNCHANGED vars
    BY <1>2, <2>3 DEF Close, vars, RestInv
  <2>4. CASE Change
    BY <1>2, <2>4 DEF Change, RestInv
  <2>5. CASE Read
    <3>1. Step
      BY <1>2, <2>5, ReadStep
    <3>2. CASE format.kind = "rest" /\ ~changed
      <4>1. off <= Length(format, width)
        BY <1>2, <3>1, <3>2 DEF RestInv, Step
      <4>2. CASE AtEnd
        <5>1. answer' = 0 /\ off' = off /\ off = Length(format, width)
          BY <2>1, <3>1, <3>2, <4>1, <4>2 DEF Step, Ends, AtEnd
        <5>2. QED
          BY <2>1, <3>1, <5>1 DEF Step, RestInv
      <4>3. CASE ~AtEnd
        BY <3>1, <3>2, <4>3 DEF Step, RestInv
      <4>4. QED
        BY <4>2, <4>3
    <3>3. CASE ~(format.kind = "rest" /\ ~changed)
      BY <3>1, <3>3 DEF Step, RestInv
    <3>4. QED
      BY <3>2, <3>3
  <2>6. CASE ReadFault
    <3>1. format.size # 0
      BY <1>2, Format DEF TypeOK
    <3>2. QED
      BY <1>2, <2>6, <3>1 DEF ReadFault, RestInv
  <2>7. QED
    BY <1>2, <2>2, <2>3, <2>4, <2>5, <2>6 DEF Next
<1>3. RestInv => RestAddsUp
  BY DEF RestInv, RestAddsUp
<1>4. QED
  BY <1>1, <1>2, <1>3, TypeCorrect, PTL DEF Safety

-----------------------------------------------------------------------------
(* The stream: either nothing has been delivered, or all of it in one      *)
(* piece, and the offset is past the text.                                 *)
StreamInv ==
  Intact =>
    \/ seen = <<>> /\ off = 0 /\ answer # 0
    \/ seen = <<<<1, Bytes(format, width)>>>> /\ off = Bytes(format, width)

(* A read of an intact stream delivers the text or ends it.                *)
LEMMA IntactRead ==
  ASSUME TypeOK, StreamInv, Read, Intact
  PROVE  /\ Intact'
         /\ Bytes(format, width)' = Bytes(format, width)
         /\ \/ /\ seen = <<>>
               /\ seen' = <<<<1, Bytes(format, width)>>>>
               /\ answer' = Bytes(format, width)
               /\ off' = Bytes(format, width)
            \/ /\ seen = <<<<1, Bytes(format, width)>>>>
               /\ off = Bytes(format, width)
               /\ seen' = seen /\ off' = off /\ answer' = 0
<1> DEFINE all == Bytes(format, width)
           full == Full(format, width)
<1>1. Step
  BY ReadStep
<1>2. Intact' /\ all' = all
  BY <1>1 DEF Step, Intact, Ends, Fits, Full, Bytes
<1>3. /\ full \in Nat \ {0, 1} /\ Length(format, width) = full
      /\ off \in Nat /\ asked \in Nat \ {0}
  BY LengthFacts DEF TypeOK, Intact
<1>4. /\ all = IF format.kind = "string" THEN full + 1 ELSE full
      /\ all \in Nat \ {0} /\ full <= all
  BY <1>3 DEF Bytes
<1>5. Ends(format) /\ (format.kind \in {"clip", "rest"} => asked >= full)
  BY DEF Intact
<1>6. AtEnd <=> off >= full
  BY <1>3 DEF AtEnd
<1>7. CASE seen = <<>> /\ off = 0
  <2>1. ~AtEnd
    BY <1>3, <1>6, <1>7
  <2>2. Deliver(all) /\ off' = all
    <3> HIDE DEF all, full
    <3>1. CASE ReadClip
      BY <1>3, <1>4, <1>5, <1>7, <3>1 DEF ReadClip, full
    <3>2. CASE ReadRest
      BY <1>3, <1>4, <1>5, <1>7, <3>2 DEF ReadRest
    <3>3. CASE ReadWhole
      BY <1>3, <1>4, <1>7, <3>3 DEF ReadWhole
    <3>4. CASE ReadString
      BY <1>3, <1>4, <1>7, <3>4 DEF ReadString
    <3>5. QED
      BY <1>5, <2>1, <3>1, <3>2, <3>3, <3>4
         DEF Read, ReadEnd, ReadAgain, ReadClaim, Ends
  <2>3. answer' = all /\ seen' = Append(seen, <<1, all>>)
    <3>1. all > 0 /\ Len(seen) = 0 /\ MaxSeen > 0
      BY <1>4, <1>7
    <3> HIDE DEF all
    <3>2. QED
      BY <2>2, <3>1 DEF Deliver
  <2>4. seen' = <<<<1, all>>>>
    BY <1>7, <2>3
  <2>5. QED
    BY <1>2, <1>7, <2>2, <2>3, <2>4
<1>8. CASE seen = <<<<1, all>>>> /\ off = all
  <2>1. AtEnd
    BY <1>3, <1>4, <1>6, <1>8
  <2>2. ReadEnd
    BY <1>5, <2>1
       DEF Read, ReadClip, ReadRest, ReadWhole, ReadString, ReadAgain, ReadClaim, Ends
  <2>3. answer' = 0 /\ seen' = seen /\ off' = off
    BY <2>2 DEF ReadEnd, Deliver
  <2>4. QED
    BY <1>2, <1>8, <2>3
<1>9. QED
  BY <1>7, <1>8 DEF StreamInv

(* Every step keeps the stream's invariant.                                *)
LEMMA StreamInvNext == TypeOK /\ StreamInv /\ [Next]_vars => StreamInv'
<1> SUFFICES ASSUME TypeOK, StreamInv, [Next]_vars, Intact' PROVE StreamInv'
  BY DEF StreamInv
<1>1. CASE Open
  BY <1>1 DEF Open, StreamInv
<1>2. CASE Close
  BY <1>2 DEF Close, Intact
<1>3. CASE Change
  BY <1>3 DEF Change, Intact
<1>4. CASE Read
  <2>1. Intact
    <3>1. Step
      BY <1>4, ReadStep
    <3>2. QED
      BY <3>1 DEF Step, Intact, Ends, Fits, Full
  <2>2. QED
    BY <1>4, <2>1, IntactRead DEF StreamInv
<1>5. CASE ReadFault
  BY <1>5 DEF ReadFault, StreamInv, Intact, Ends, Fits, Full, Bytes
<1>6. CASE UNCHANGED vars
  BY <1>6 DEF vars, StreamInv, Intact, Ends, Fits, Full, Bytes
<1>7. QED
  BY <1>1, <1>2, <1>3, <1>4, <1>5, <1>6 DEF Next

(* The mapping's image of one step.                                        *)
LEMMA StreamStep ==
  TypeOK /\ StreamInv /\ [Next]_vars => [Stream!Next]_(Stream!vars)
<1> SUFFICES ASSUME TypeOK, StreamInv, [Next]_vars
             PROVE  [Stream!Next]_(Stream!vars)
  OBVIOUS
<1> DEFINE all == Bytes(format, width)
           piece == <<1, all>>
<1> USE DEF Stream!Next, Stream!vars
<1>1. all \in Nat
  BY LengthFacts DEF TypeOK, Bytes
<1>2. CASE ~Intact /\ ~Intact'
  <2>1. Intact = FALSE /\ Intact' = FALSE
    BY <1>2, Zenon DEF Intact
  <2>2. QED
    BY <2>1
<1>3. CASE ~Intact /\ Intact'
  <2>1. Open
    <3>1. CASE Read
      <4>1. Step
        BY <3>1, ReadStep
      <4>2. QED
        BY <1>3, <4>1 DEF Step, Intact, Ends, Fits, Full
    <3>2. CASE Close \/ Change
      <4>1. opened' /\ ~changed'
        BY <1>3, Zenon DEF Intact
      <4>2. CASE Close
        BY <4>1, <4>2, Zenon DEF Close
      <4>3. CASE Change
        BY <4>1, <4>3, Zenon DEF Change
      <4>4. QED
        BY <3>2, <4>2, <4>3
    <3>3. CASE ReadFault \/ UNCHANGED vars
      <4>1. UNCHANGED <<format, width, opened, asked, changed>>
        BY <3>3 DEF ReadFault, vars
      <4>2. QED
        BY <1>3, <4>1 DEF Intact, Ends, Fits, Full
    <3>4. QED
      BY <3>1, <3>2, <3>3 DEF Next
  <2>2. all' = all /\ seen' = <<>> /\ answer' # 0
    BY <2>1 DEF Open, Bytes, Full
  <2>3. Stream!Open
    BY <1>1, <1>3, <2>2 DEF Stream!Open
  <2>4. QED
    BY <2>3
<1>4. CASE Intact /\ ~Intact'
  BY <1>4 DEF Stream!Break, Stream!Broken
<1>5. CASE Intact /\ Intact'
  <2>1. CASE Read
    <3>1. all' = all
      BY <1>5, <2>1, IntactRead
    <3>2. ASSUME seen = <<>>, seen' = <<piece>>, answer' = all
          PROVE  Stream!Deliver
      <4>1. all > 0 /\ answer # 0 /\ answer' # 0
        BY <1>5, <2>1, <3>2, LengthFacts, ReadStep DEF Step, TypeOK, Bytes
      <4>2. Stream!Position = 0
        BY <1>5, <3>2 DEF Stream!Position
      <4>3. seen' = Append(seen, <<0 + 1, all>>) /\ all \in (0 + 1)..all
        BY <1>1, <3>2, <4>1
      <4>4. QED
        BY <1>5, <3>1, <4>1, <4>2, <4>3 DEF Stream!Deliver
    <3>3. ASSUME seen = <<piece>>, seen' = seen, answer' = 0
          PROVE  Stream!End
      <4>1. answer # 0
        BY <2>1, ReadStep DEF Step
      <4>2. Stream!Position = all
        BY <1>5, <3>3 DEF Stream!Position
      <4>3. QED
        BY <1>5, <3>1, <3>3, <4>1, <4>2 DEF Stream!End
    <3>4. QED
      BY <1>5, <2>1, <3>2, <3>3, IntactRead
  <2>2. CASE Open \/ Close \/ Change
    BY <1>5, <2>2 DEF Open, Close, Change, Intact
  <2>3. CASE ReadFault \/ UNCHANGED vars
    <3>1. all' = all /\ seen' = seen
      BY <2>3 DEF ReadFault, vars, Bytes, Full
    <3>2. (answer' = 0) = (answer = 0)
      BY <1>5, <2>3 DEF ReadFault, Reading, vars, Intact, Ends
    <3>3. QED
      BY <1>5, <3>1, <3>2
  <2>4. QED
    BY <2>1, <2>2, <2>3 DEF Next
<1>6. QED
  BY <1>2, <1>3, <1>4, <1>5

(* Refinement: used as intended, the handlers deliver each character once, *)
(* in order, and the end of file after the last.                           *)
THEOREM Refinement == Safety => Implements
<1>1. Init => Stream!Init
  BY DEF Init, Intact, Stream!Init, Stream!Broken
<1>2. Init => StreamInv
  BY DEF Init, StreamInv
<1>3. QED
  BY <1>1, <1>2, StreamInvNext, StreamStep, TypeCorrect, PTL
     DEF Safety, Implements, Stream!Spec
=============================================================================
