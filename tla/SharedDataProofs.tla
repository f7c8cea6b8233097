-------------------------- MODULE SharedDataProofs --------------------------
(***************************************************************************)
(* Proofs about SharedData: what the cells hold when commands overlap, and *)
(* that commands which do not overlap take place in one step.              *)
(***************************************************************************)
EXTENDS SharedData, TLAPS

-----------------------------------------------------------------------------
(* What a command does, seen from where its process is.                    *)
OpOf(a) ==
  CASE a = "read" -> "read"
    [] a \in {"write", "zero"} -> "write"
    [] a \in {"load", "store"} -> "multiply"

(* The commands that are under way are begun, each one is its process's,   *)
(* and only a write that need not ask for all cells ends at another one.   *)
CommandInv ==
  /\ \A c \in Begun : 1..(c - 1) \subseteq Begun
  /\ \A p \in Processes : at[p] # "idle" =>
       /\ id[p] \in Begun /\ op[id[p]] = OpOf(at[p])
       /\ \A q \in Processes : at[q] # "idle" /\ id[q] = id[p] => q = p
       /\ len[p] = device.cells \/ (device.length # "all" /\ op[id[p]] = "write")
       /\ at[p] = "zero" => ~device.own

(* A command has in its past only commands that have returned and began    *)
(* before it.                                                              *)
PastInv ==
  \A c \in Commands :
    /\ past[c] \subseteq Returned
    /\ \A d \in past[c] : d < c
    /\ c \notin Begun => past[c] = {}

(* Numbers come from begun commands and were multiplied by such.           *)
Known(n) == n.by \in Begun \cup {0} /\ n.times \subseteq Begun

NumberInv ==
  /\ \A i \in 1..device.cells : Known(data[i])
  /\ \A p \in Processes : Known(reg[p])

(* No number has a factor from the past of its write; neither have the     *)
(* copies that multiplications are about to store.                         *)
Late(n) == n.by # 0 /\ n.times \cap past[n.by] # {}

LateInv ==
  /\ \A i \in 1..device.cells : ~Late(data[i])
  /\ \A p \in Processes : ~Late(reg[p])

(* Command c has dealt with cell i.                                        *)
Passed(c, i) ==
  \A p \in Processes : at[p] # "idle" /\ id[p] = c => i < pos[p]

(* A multiplication that can still be refused has not touched a number.    *)
Touched(d) ==
  /\ op[d] = "multiply"
  /\ \A p \in Processes : at[p] = "load" /\ id[p] = d => pos[p] > 1

Spoiled(c) == \E d \in Begun : Touched(d) /\ Overlap(c, d)

FullWrite(c) ==
  c \in Begun /\ op[c] = "write" /\ device.length = "all" /\ ~device.own

(* A full write that no multiplication has spoiled has left no older       *)
(* number behind it: not in the cells it has passed, and not in the copies *)
(* of the multiplications that began after it.                             *)
Older(n, c) == n.by \in past[c] \cup {0}

OldInv ==
  \A c \in Commands : FullWrite(c) /\ ~Spoiled(c) =>
    /\ \A i \in 1..device.cells : Passed(c, i) => ~Older(data[i], c)
    /\ \A p \in Processes :
         at[p] = "store" /\ c \in past[id[p]] => ~Older(reg[p], c)

(* A multiplication that overlaps nothing is in the cells it has passed,   *)
(* and in the copies of the multiplications that began after it.           *)
Alone(c) == \A d \in Begun : ~Overlap(c, d)

Keeps(n, c) == c \in n.times \/ (n.by # 0 /\ n.by \notin past[c])

FactorInv ==
  \A c \in Begun : op[c] = "multiply" /\ Alone(c) =>
    /\ \A i \in 1..device.cells : Passed(c, i) => Keeps(data[i], c)
    /\ \A p \in Processes :
         at[p] = "store" /\ c \in past[id[p]] => Keeps(reg[p], c)

Inv ==
  /\ TypeOK /\ CommandInv /\ PastInv /\ NumberInv
  /\ LateInv /\ OldInv /\ FactorInv

-----------------------------------------------------------------------------
(* As long as no command overlaps one that changes the data: what a read   *)
(* has collected is what the cells hold, ...                               *)
ReadInv(p) ==
  at[p] = "read" => \A j \in 1..(pos[p] - 1) : buf[p][j] = data[j]

(* ... and a command that changes the data has changed exactly the cells   *)
(* it has passed.                                                          *)
WriteInv(p) ==
  at[p] \in {"write", "zero"} =>
    \E k \in 0..(pos[p] - 1) :
      /\ at[p] = "write" => k = pos[p] - 1
      /\ \A i \in 1..device.cells :
           data[i] = IF i < pos[p] THEN Number(id[p], i > k) ELSE before[i]

MultiplyInv(p) ==
  /\ at[p] \in {"load", "store"} =>
       \A i \in 1..device.cells :
         data[i] = IF i < pos[p] THEN Multiplied(before[i], id[p])
                   ELSE before[i]
  /\ at[p] = "store" => reg[p] = data[pos[p]]

IntactInv ==
  Intact => \A p \in Processes :
    ReadInv(p) /\ (~OneCell => WriteInv(p) /\ MultiplyInv(p))

-----------------------------------------------------------------------------
(* Facts about numbers and devices.                                        *)
LEMMA NumberFacts ==
  ASSUME NEW c \in 0..MaxCommands, NEW z \in BOOLEAN
  PROVE  /\ Number(c, z) \in Numbers
         /\ Number(c, z).by = c /\ Number(c, z).times = {}
BY DEF Number, Numbers, Commands

LEMMA MultipliedFacts ==
  ASSUME NEW n \in Numbers, NEW c \in Commands
  PROVE  /\ Multiplied(n, c) \in Numbers
         /\ Multiplied(n, c).by = n.by
         /\ Multiplied(n, c).times = n.times \cup {c}
BY DEF Multiplied, Numbers

LEMMA DeviceFacts ==
  ASSUME device \in Devices
  PROVE  /\ device.cells \in Nat /\ device.cells > 0
         /\ device.ops \subseteq {"read", "write", "multiply"}
         /\ device.length \in {"all", "limited", "any"}
         /\ device.own \in BOOLEAN
BY DevicesAssumption DEF DeviceRecords

(* Reads and multiplications do not leave the cells.                       *)
LEMMA InsideCells ==
  ASSUME TypeOK, NEW p \in Processes, at[p] \notin {"idle", "write", "zero"}
  PROVE  pos[p] \in 1..device.cells
<1>1. device.cells \in Nat /\ len[p] \in 1..device.cells + 1
  BY DeviceFacts DEF TypeOK
<1>2. pos[p] \in 1..len[p] /\ ~(len[p] > device.cells)
  BY DEF TypeOK
<1>3. QED
  BY <1>1, <1>2

LEMMA CommandFacts ==
  /\ MaxCommands \in Nat /\ Commands \subseteq Nat /\ 0 \notin Commands
  /\ Commands \subseteq 0..MaxCommands /\ 0 \in 0..MaxCommands
BY MaxCommandsAssumption DEF Commands

-----------------------------------------------------------------------------
(* A step of a command that is under way, as far as the other commands see *)
(* it.                                                                     *)
Refused(p) ==
  /\ at[p] = "load" /\ pos[p] = 1 /\ at'[p] = "idle"
  /\ op' = [op EXCEPT ![id[p]] = "refused"]

Move(p) ==
  /\ at[p] # "idle"
  /\ UNCHANGED <<device, id, len, past, before>>
  /\ \A q \in Processes \ {p} :
       at'[q] = at[q] /\ pos'[q] = pos[q] /\ reg'[q] = reg[q]
       /\ buf'[q] = buf[q] /\ result'[q] = result[q]
  /\ at'[p] = "idle" \/ (at'[p] # "idle" /\ OpOf(at'[p]) = OpOf(at[p]))
  /\ pos'[p] \in {pos[p], pos[p] + 1}
  /\ at[p] = "store" /\ at'[p] = "load" => pos'[p] = pos[p] + 1
  /\ at'[p] = "zero" => ~device.own
  /\ spilled => spilled'
  /\ op' = op \/ Refused(p)

(* The commands that have begun stay begun, those that have returned stay  *)
(* so, and the step's own command has not returned yet.                    *)
LEMMA MoveInv ==
  ASSUME TypeOK, TypeOK', CommandInv, PastInv, NEW p \in Processes, Move(p)
  PROVE  /\ CommandInv' /\ PastInv'
         /\ Begun' = Begun /\ Returned \subseteq Returned'
         /\ id[p] \in Begun /\ id[p] \in Commands /\ id[p] \notin Returned
         /\ \A c \in Commands : id[p] \notin past[c]
         /\ \A c \in Commands :
              op'[c] \in {"read", "write", "multiply"} => op'[c] = op[c]
<1>1. id[p] \in Begun /\ id[p] \in Commands /\ id[p] \notin Returned
  BY DEF Move, CommandInv, Begun, Returned
<1>2. /\ Begun' = Begun
      /\ \A c \in Commands :
           op'[c] # op[c] => op'[c] = "refused" /\ c = id[p] /\ at'[p] = "idle"
  BY <1>1 DEF Move, Begun, TypeOK, Refused
<1>3. \A q \in Processes : at'[q] # "idle" =>
        at[q] # "idle" /\ id'[q] = id[q] /\ OpOf(at'[q]) = OpOf(at[q])
  BY DEF Move
<1>4. Returned \subseteq Returned'
  BY <1>2, <1>3 DEF Returned
<1>5. CommandInv'
  <2>1. \A q \in Processes : at'[q] # "idle" => op'[id[q]] = op[id[q]]
    <3> SUFFICES ASSUME NEW q \in Processes, at'[q] # "idle",
                        op'[id[q]] # op[id[q]]
                 PROVE  FALSE
      OBVIOUS
    <3>1. at[q] # "idle" /\ id[q] \in Commands
      BY <1>3 DEF CommandInv, Begun
    <3>2. id[q] = id[p] /\ at'[p] = "idle"
      BY <1>2, <3>1
    <3>3. QED
      BY <3>1, <3>2 DEF CommandInv, Move
  <2> SUFFICES ASSUME NEW q \in Processes, at'[q] # "idle"
               PROVE  /\ id'[q] \in Begun' /\ op'[id'[q]] = OpOf(at'[q])
                      /\ \A r \in Processes :
                           at'[r] # "idle" /\ id'[r] = id'[q] => r = q
                      /\ \/ len'[q] = device'.cells
                         \/ device'.length # "all" /\ op'[id'[q]] = "write"
                      /\ at'[q] = "zero" => ~device'.own
    BY <1>2 DEF CommandInv
  <2>2. /\ id[q] \in Begun /\ op[id[q]] = OpOf(at[q])
        /\ \A r \in Processes : at[r] # "idle" /\ id[r] = id[q] => r = q
        /\ \/ len[q] = device.cells
           \/ device.length # "all" /\ op[id[q]] = "write"
        /\ at[q] = "zero" => ~device.own
    BY <1>3 DEF CommandInv
  <2>3. id' = id /\ len' = len /\ device' = device
    BY DEF Move
  <2>4. at'[q] = "zero" => ~device.own
    BY <2>2 DEF Move
  <2>5. QED
    BY <1>2, <1>3, <2>1, <2>2, <2>3, <2>4
<1>6. PastInv'
  BY <1>2, <1>4 DEF PastInv, Move
<1>7. QED
  BY <1>1, <1>2, <1>4, <1>5, <1>6 DEF PastInv

(* What it leaves as it was for the invariants of the numbers.             *)
LEMMA MoveFrame ==
  ASSUME TypeOK, TypeOK', CommandInv, PastInv, NEW p \in Processes, Move(p)
  PROVE  /\ past' = past /\ device' = device /\ id' = id
         /\ \A c \in Commands :
              /\ FullWrite(c)' => FullWrite(c)
              /\ Spoiled(c) => Spoiled(c)'
              /\ Alone(c)' => Alone(c)
              /\ c # id[p] => \A i \in 1..device.cells :
                                Passed(c, i)' => Passed(c, i)
<1>1. Begun' = Begun /\ past' = past /\ id' = id /\ device' = device
  BY MoveInv DEF Move
<1>2. ASSUME NEW c \in Commands PROVE FullWrite(c)' => FullWrite(c)
  BY <1>1, MoveInv DEF FullWrite
<1>3. ASSUME NEW d \in Begun, Touched(d) PROVE Touched(d)'
  <2>1. d \in Commands /\ op[d] = "multiply"
    BY <1>3 DEF Begun, Touched
  <2>2. op'[d] = op[d]
    <3>1. ASSUME Refused(p) PROVE d # id[p]
      BY <1>3, <3>1 DEF Refused, Touched
    <3>2. QED
      BY <2>1, <3>1 DEF Move, Refused, TypeOK
  <2>3. ASSUME NEW q \in Processes, at'[q] = "load", id[q] = d PROVE pos'[q] > 1
    <3>1. CASE q # p
      BY <1>3, <2>3, <3>1 DEF Move, Touched
    <3>2. CASE q = p
      <4>1. at[p] \in {"load", "store"}
        BY <2>3, <3>2 DEF Move, OpOf, TypeOK
      <4>2. pos[p] \in Nat /\ pos[p] >= 1
        BY DEF Move, TypeOK
      <4>3. at[p] = "load" => pos[p] > 1
        BY <1>3, <2>3, <3>2 DEF Touched
      <4>4. QED
        BY <2>3, <3>2, <4>1, <4>2, <4>3 DEF Move
    <3>3. QED
      BY <3>1, <3>2
  <2>4. QED
    BY <1>1, <2>1, <2>2, <2>3 DEF Touched
<1>4. ASSUME NEW c \in Commands PROVE Spoiled(c) => Spoiled(c)'
  BY <1>1, <1>3 DEF Spoiled, Overlap
<1>5. ASSUME NEW c \in Commands PROVE Alone(c)' => Alone(c)
  BY <1>1 DEF Alone, Overlap
<1>6. ASSUME NEW c \in Commands, c # id[p], NEW i \in 1..device.cells,
             Passed(c, i)'
      PROVE  Passed(c, i)
  BY <1>1, <1>6 DEF Passed, Move
<1>7. QED
  BY <1>1, <1>2, <1>4, <1>5, <1>6

(* A step that leaves the cells and the copies alone, and that does not    *)
(* bring its command any further if it is a full write or a                *)
(* multiplication.                                                         *)
LEMMA QuietInv ==
  ASSUME Inv, TypeOK', NEW p \in Processes, Move(p),
         data' = data, reg' = reg,
         at'[p] = "store" => at[p] = "store",
         \/ at'[p] # "idle" /\ pos'[p] = pos[p]
         \/ op'[id[p]] \in {"read", "refused"}
         \/ op'[id[p]] = "write" /\ (device.own \/ device.length # "all")
  PROVE  Inv'
<1>1. TypeOK /\ CommandInv /\ PastInv
  BY DEF Inv
<1>2. CommandInv' /\ PastInv' /\ Begun' = Begun
  BY <1>1, MoveInv
<1>3. past' = past /\ device' = device /\ id' = id
  BY <1>1, MoveFrame
<1>4. NumberInv'
  BY <1>2, <1>3 DEF Inv, NumberInv, Known
<1>5. LateInv'
  BY <1>3 DEF Inv, LateInv, Late
<1>6. \A q \in Processes : at'[q] = "store" => at[q] = "store"
  BY DEF Move
<1>7. ASSUME NEW c \in Commands, NEW i \in 1..device.cells, Passed(c, i)',
             FullWrite(c)' \/ op'[c] = "multiply"
      PROVE  Passed(c, i)
  <2>1. CASE c # id[p]
    BY <1>1, <1>7, <2>1, MoveFrame
  <2>2. CASE c = id[p]
    <3>1. at'[p] # "idle" /\ pos'[p] = pos[p]
      BY <1>3, <1>7, <2>2 DEF FullWrite
    <3>2. QED
      BY <1>3, <1>7, <3>1 DEF Passed, Move
  <2>3. QED
    BY <2>1, <2>2
<1>8. OldInv'
  <2> SUFFICES ASSUME NEW c \in Commands, FullWrite(c)', ~Spoiled(c)'
               PROVE  /\ \A i \in 1..device.cells :
                           Passed(c, i)' => ~Older(data[i], c)
                      /\ \A q \in Processes :
                           at'[q] = "store" /\ c \in past[id[q]] =>
                             ~Older(reg[q], c)
    BY <1>3 DEF OldInv, Older
  <2>1. FullWrite(c) /\ ~Spoiled(c)
    BY <1>1, MoveFrame
  <2>2. QED
    BY <1>6, <1>7, <2>1 DEF Inv, OldInv
<1>9. FactorInv'
  <2> SUFFICES ASSUME NEW c \in Begun, op'[c] = "multiply", Alone(c)'
               PROVE  /\ \A i \in 1..device.cells :
                           Passed(c, i)' => Keeps(data[i], c)
                      /\ \A q \in Processes :
                           at'[q] = "store" /\ c \in past[id[q]] =>
                             Keeps(reg[q], c)
    BY <1>2, <1>3 DEF FactorInv, Keeps
  <2>1. c \in Commands
    BY DEF Begun
  <2>2. op[c] = "multiply" /\ Alone(c)
    BY <1>1, <2>1, MoveFrame, MoveInv
  <2>3. QED
    BY <1>6, <1>7, <2>1, <2>2 DEF Inv, FactorInv
<1>10. QED
  BY <1>2, <1>4, <1>5, <1>8, <1>9 DEF Inv

-----------------------------------------------------------------------------
(* Every step keeps the invariant.                                         *)
Results ==
  {"none", "ok", "error"} \X ({<<>>} \cup [1..device.cells -> Numbers])

States == {"idle", "read", "write", "zero", "load", "store"}

LEMMA OutcomeFacts == \A r \in {"none", "ok", "error"} : Outcome(r) \in Results
BY DEF Outcome, Results

LEMMA FaultOutcomeFacts ==
  \A o \in {"read", "write"} :
    \E r \in {"ok", "error"} : FaultOutcome(o) = Outcome(r)
BY DEF FaultOutcome

(* A command under way is at a cell it was asked for, which only a write   *)
(* of any length may miss.                                                 *)
Placed(q) ==
  at[q] # "idle" =>
    /\ pos[q] \in 1..len[q]
    /\ len[q] > device.cells =>
         device.length = "any" /\ at[q] \in {"write", "zero"}

(* A command goes on, or is over.                                          *)
LEMMA GoOnFacts ==
  ASSUME TypeOK, NEW p \in Processes, NEW next \in States, NEW r \in Results,
         at[p] # "idle", GoOn(p, next, r),
         at[p] \in {"write", "zero"} => next = at[p]
  PROVE  /\ at' \in [Processes -> States] /\ pos' \in [Processes -> Nat]
         /\ pos'[p] = pos[p] + 1
         /\ at'[p] = IF pos[p] = len[p] THEN "idle" ELSE next
         /\ \A q \in Processes \ {p} :
              at'[q] = at[q] /\ pos'[q] = pos[q] /\ result'[q] = result[q]
         /\ \A q \in Processes : Placed(q)'
         /\ result' \in [Processes -> Results]
         /\ UNCHANGED <<device, id, len, op, past, before>>
<1>1. /\ at' \in [Processes -> States] /\ pos' \in [Processes -> Nat]
      /\ pos'[p] = pos[p] + 1
      /\ at'[p] = IF pos[p] = len[p] THEN "idle" ELSE next
      /\ \A q \in Processes \ {p} : at'[q] = at[q] /\ pos'[q] = pos[q]
  BY DEF GoOn, TypeOK, States
<1>2. result' \in [Processes -> Results]
  BY DEF GoOn, TypeOK, Results
<1>3. \A q \in Processes \ {p} : result'[q] = result[q]
  BY DEF GoOn, TypeOK
<1>4. /\ len[p] \in Nat /\ pos[p] \in 1..len[p]
      /\ len[p] > device.cells =>
           device.length = "any" /\ at[p] \in {"write", "zero"}
  BY DeviceFacts DEF TypeOK
<1>5. \A q \in Processes : Placed(q)'
  <2> SUFFICES ASSUME NEW q \in Processes PROVE Placed(q)'
    OBVIOUS
  <2>0. len' = len /\ device' = device
    BY DEF GoOn
  <2>1. CASE q = p
    BY <1>1, <1>4, <2>0, <2>1 DEF Placed
  <2>2. CASE q # p
    BY <1>1, <2>0, <2>2 DEF TypeOK, Placed
  <2>3. QED
    BY <2>1, <2>2
<1>6. QED
  BY <1>1, <1>2, <1>3, <1>5 DEF GoOn

LEMMA ReadCellFacts ==
  ASSUME TypeOK, NEW p \in Processes, ReadCell(p)
  PROVE  /\ TypeOK' /\ pos[p] \in 1..device.cells
         /\ buf'[p] = [buf[p] EXCEPT ![pos[p]] = data[pos[p]]]
         /\ \A q \in Processes \ {p} : buf'[q] = buf[q]
         /\ <<"ok", buf'[p]>> \in Results
<1>1. at[p] = "read" /\ GoOn(p, "read", <<"ok", buf'[p]>>)
      /\ UNCHANGED <<data, reg, spilled>>
      /\ buf' = [buf EXCEPT ![p][pos[p]] = data[pos[p]]]
  BY DEF ReadCell
<1>2. pos[p] \in 1..device.cells
  BY <1>1, InsideCells
<1>3. /\ buf'[p] = [buf[p] EXCEPT ![pos[p]] = data[pos[p]]]
      /\ \A q \in Processes \ {p} : buf'[q] = buf[q]
  BY <1>1 DEF TypeOK
<1>4. buf' \in [Processes -> [1..device.cells -> Numbers]]
  BY <1>1, <1>2 DEF TypeOK
<1>5. <<"ok", buf'[p]>> \in Results
  BY <1>4 DEF Results
<1>6. "read" \in States
  BY DEF States
<1>7. TypeOK'
  BY <1>1, <1>4, <1>5, <1>6, GoOnFacts
     DEF TypeOK, Placed, Results, Numbers, States
<1>8. QED
  BY <1>2, <1>3, <1>5, <1>7

LEMMA ReadCellInv ==
  ASSUME Inv, NEW p \in Processes, ReadCell(p)
  PROVE  Inv' /\ Move(p)
<1>1. at[p] = "read" /\ GoOn(p, "read", <<"ok", buf'[p]>>)
      /\ UNCHANGED <<data, reg, spilled>>
  BY DEF ReadCell
<1>2. TypeOK /\ TypeOK' /\ "read" \in States /\ <<"ok", buf'[p]>> \in Results
      /\ \A q \in Processes \ {p} : buf'[q] = buf[q]
  BY ReadCellFacts DEF Inv, States
<1>3. Move(p) /\ op' = op
  BY <1>1, <1>2, GoOnFacts DEF Move
<1>4. op[id[p]] = "read"
  BY <1>1 DEF Inv, CommandInv, OpOf
<1>5. at'[p] # "store"
  BY <1>1, <1>2, GoOnFacts
<1>6. QED
  BY <1>1, <1>2, <1>3, <1>4, <1>5, QuietInv

(* A command ends before its time.                                         *)
LEMMA StopFacts ==
  ASSUME TypeOK, NEW p \in Processes, NEW r \in {"ok", "error"},
         at[p] # "idle", Stop(p, Outcome(r))
  PROVE  /\ TypeOK' /\ Move(p) /\ at'[p] = "idle" /\ op' = op
         /\ data' = data /\ reg' = reg
<1>1. /\ at' = [at EXCEPT ![p] = "idle"]
      /\ result' = [result EXCEPT ![p] = Outcome(r)]
      /\ UNCHANGED <<device, data, id, pos, len, reg, buf, op, past, before,
                     spilled>>
  BY DEF Stop
<1>2. result' \in [Processes -> Results]
  BY <1>1, OutcomeFacts DEF TypeOK, Results
<1>3. TypeOK'
  BY <1>1, <1>2 DEF TypeOK, Results, Numbers
<1>4. Move(p) /\ at'[p] = "idle"
  BY <1>1 DEF TypeOK, Move
<1>5. QED
  BY <1>1, <1>3, <1>4

LEMMA ReadFaultInv ==
  ASSUME Inv, NEW p \in Processes, ReadFault(p)
  PROVE  Inv' /\ Move(p)
<1>1. at[p] = "read" /\ op[id[p]] = "read" /\ TypeOK
  BY DEF ReadFault, Inv, CommandInv, OpOf
<1>2. PICK r \in {"ok", "error"} : Stop(p, Outcome(r))
  BY FaultOutcomeFacts DEF ReadFault
<1>3. QED
  BY <1>1, <1>2, StopFacts, QuietInv

LEMMA WriteNothingInv ==
  ASSUME Inv, NEW p \in Processes, WriteNothing(p)
  PROVE  Inv' /\ Move(p)
<1>1. at[p] = "write" /\ op[id[p]] = "write" /\ device.own /\ TypeOK
  BY DEF WriteNothing, Inv, CommandInv, OpOf
<1>2. PICK r \in {"ok", "error"} : Stop(p, Outcome(r))
  BY DEF WriteNothing
<1>3. QED
  BY <1>1, <1>2, StopFacts, QuietInv

LEMMA WriteFaultInv ==
  ASSUME Inv, NEW p \in Processes, WriteFault(p)
  PROVE  Inv' /\ Move(p)
<1>1. /\ at[p] = "write" /\ ~device.own /\ TypeOK
      /\ at' = [at EXCEPT ![p] = "zero"]
      /\ UNCHANGED <<device, data, id, pos, len, reg, buf, result, op, past,
                     before, spilled>>
  BY DEF WriteFault, Inv
<1>2. at'[p] = "zero"
  BY <1>1 DEF TypeOK
<1>3. Move(p)
  BY <1>1, <1>2 DEF Move, TypeOK, OpOf
<1>4. TypeOK'
  BY <1>1 DEF TypeOK, Numbers
<1>5. QED
  BY <1>1, <1>2, <1>3, <1>4, QuietInv

LEMMA MultiplyFaultInv ==
  ASSUME Inv, NEW p \in Processes, MultiplyFault(p)
  PROVE  Inv' /\ Move(p)
<1>1. /\ at[p] = "load" /\ pos[p] = 1 /\ TypeOK
      /\ at' = [at EXCEPT ![p] = "idle"]
      /\ result' = [result EXCEPT ![p] = Outcome("error")]
      /\ op' = [op EXCEPT ![id[p]] = "refused"]
      /\ UNCHANGED <<device, data, id, pos, len, reg, buf, past, before,
                     spilled>>
  BY DEF MultiplyFault, Inv
<1>2. at'[p] = "idle"
  BY <1>1 DEF TypeOK
<1>3. Move(p)
  BY <1>1, <1>2 DEF Move, TypeOK, Refused
<1>4. result' \in [Processes -> Results]
  BY <1>1, OutcomeFacts DEF TypeOK, Results
<1>5. op' \in [Commands -> {"none", "refused"} \cup device.ops]
  BY <1>1 DEF TypeOK
<1>6. TypeOK'
  BY <1>1, <1>4, <1>5 DEF TypeOK, Results, Numbers
<1>7. op'[id[p]] = "refused"
  <2>1. id[p] \in Commands
    BY <1>1 DEF Inv, CommandInv, Begun
  <2>2. QED
    BY <1>1, <2>1 DEF TypeOK
<1>8. QED
  BY <1>1, <1>2, <1>3, <1>6, <1>7, QuietInv

(* The cells after a step that stores into one of them.                    *)
LEMMA CellFacts ==
  ASSUME TypeOK, NEW p \in Processes, NEW n \in Numbers,
         data' = [data EXCEPT ![pos[p]] = n]
  PROVE  /\ data' \in [1..device.cells -> Numbers]
         /\ \A i \in 1..device.cells :
              data'[i] = IF i = pos[p] THEN n ELSE data[i]
BY DEF TypeOK

(* The cells that a step's own command has passed.                         *)
LEMMA PassedFacts ==
  ASSUME TypeOK, CommandInv, NEW p \in Processes, at[p] # "idle",
         id' = id, at'[p] # "idle" => pos'[p] = pos[p] + 1,
         at'[p] = "idle" => pos[p] = len[p],
         NEW i \in 1..device.cells, Passed(id[p], i)', i # pos[p],
         device.length = "all" \/ op[id[p]] # "write"
  PROVE  Passed(id[p], i)
<1>1. pos[p] \in Nat /\ len[p] = device.cells
  BY DEF CommandInv, TypeOK
<1>2. i < pos[p]
  BY <1>1, DeviceFacts DEF Passed, TypeOK
<1>3. QED
  BY <1>2 DEF Passed, CommandInv

LEMMA WriteCellMove ==
  ASSUME Inv, NEW p \in Processes, WriteCell(p)
  PROVE  /\ TypeOK' /\ Move(p) /\ reg' = reg /\ op' = op
         /\ \A i \in 1..device.cells :
              data'[i] = IF i = pos[p] THEN Number(id[p], at[p] = "zero")
                         ELSE data[i]
         /\ at'[p] = IF pos[p] = len[p] THEN "idle" ELSE at[p]
         /\ pos'[p] = pos[p] + 1
         /\ id[p] # 0 /\ id[p] \in Commands
<1>1. /\ at[p] \in {"write", "zero"} /\ TypeOK
      /\ data' = [data EXCEPT ![pos[p]] = Number(id[p], at[p] = "zero")]
      /\ GoOn(p, at[p], WriteOutcome(p))
      /\ UNCHANGED <<reg, buf, spilled>>
  BY DEF WriteCell, Inv
<1>2. WriteOutcome(p) \in Results
  BY FaultOutcomeFacts, OutcomeFacts DEF WriteOutcome
<1>3. id[p] \in 0..MaxCommands /\ id[p] \in Commands /\ id[p] # 0
  BY <1>1, CommandFacts DEF Inv, CommandInv, Begun, TypeOK
<1>4. Number(id[p], at[p] = "zero") \in Numbers
  BY <1>3, NumberFacts
<1>5. at[p] \in States
  BY <1>1 DEF States
<1>6. TypeOK'
  <2>1. /\ at' \in [Processes -> States] /\ pos' \in [Processes -> Nat]
        /\ \A q \in Processes : Placed(q)'
        /\ result' \in [Processes -> Results]
        /\ UNCHANGED <<device, id, len, op, past, before>>
    BY <1>1, <1>2, <1>5, GoOnFacts
  <2>2. data' \in [1..device.cells -> Numbers]
    BY <1>1, <1>4, CellFacts
  <2>3. QED
    BY <1>1, <2>1, <2>2 DEF TypeOK, Placed, Results, Numbers, States
<1>7. Move(p)
  BY <1>1, <1>2, <1>5, GoOnFacts DEF Move, Inv, CommandInv
<1>8. /\ at'[p] = IF pos[p] = len[p] THEN "idle" ELSE at[p]
      /\ pos'[p] = pos[p] + 1 /\ op' = op
  BY <1>1 DEF GoOn, TypeOK
<1>9. \A i \in 1..device.cells :
        data'[i] = IF i = pos[p] THEN Number(id[p], at[p] = "zero")
                   ELSE data[i]
  BY <1>1, <1>4, CellFacts
<1>10. QED
  BY <1>1, <1>3, <1>6, <1>7, <1>8, <1>9

LEMMA WriteCellInv ==
  ASSUME Inv, NEW p \in Processes, WriteCell(p)
  PROVE  Inv' /\ Move(p)
<1> DEFINE c0 == id[p]
<1> DEFINE n == Number(c0, at[p] = "zero")
<1>1. /\ TypeOK /\ TypeOK' /\ Move(p) /\ reg' = reg /\ op' = op
      /\ CommandInv /\ PastInv /\ c0 # 0 /\ c0 \in Commands
      /\ \A i \in 1..device.cells :
           data'[i] = IF i = pos[p] THEN n ELSE data[i]
  BY WriteCellMove DEF Inv
<1>2. n.by = c0 /\ n.times = {}
  BY <1>1, CommandFacts, NumberFacts
<1>3. /\ CommandInv' /\ PastInv' /\ Begun' = Begun /\ c0 \in Begun
      /\ \A c \in Commands : c0 \notin past[c]
  BY <1>1, MoveInv
<1>4. past' = past /\ device' = device /\ id' = id
  BY <1>1, MoveFrame
<1>5. NumberInv'
  BY <1>1, <1>2, <1>3, <1>4 DEF Inv, NumberInv, Known
<1>6. LateInv'
  BY <1>1, <1>2, <1>4 DEF Inv, LateInv, Late
<1>7. at[p] \in {"write", "zero"} /\ op[c0] = "write"
  BY DEF WriteCell, Inv, CommandInv, OpOf
<1>8. \A q \in Processes : at'[q] = "store" => at[q] = "store"
  BY <1>1, <1>7, WriteCellMove DEF Move
<1>9. OldInv'
  <2> SUFFICES ASSUME NEW c \in Commands, FullWrite(c)', ~Spoiled(c)'
               PROVE  /\ \A i \in 1..device.cells :
                           Passed(c, i)' => ~Older(data'[i], c)
                      /\ \A q \in Processes :
                           at'[q] = "store" /\ c \in past[id[q]] =>
                             ~Older(reg[q], c)
    BY <1>1, <1>4 DEF OldInv, Older
  <2>1. FullWrite(c) /\ ~Spoiled(c)
    BY <1>1, MoveFrame
  <2>2. ASSUME NEW i \in 1..device.cells, Passed(c, i)', i # pos[p]
        PROVE  ~Older(data[i], c)
    <3>1. Passed(c, i)
      <4>1. CASE c = c0
        BY <1>1, <1>4, <2>1, <2>2, <4>1, WriteCellMove, PassedFacts
           DEF FullWrite, Move
      <4>2. CASE c # c0
        BY <1>1, <2>2, <4>2, MoveFrame
      <4>3. QED
        BY <4>1, <4>2
    <3>2. QED
      BY <2>1, <3>1 DEF Inv, OldInv
  <2>3. ~Older(n, c)
    BY <1>1, <1>2, <1>3 DEF Older
  <2>4. QED
    BY <1>1, <1>8, <2>1, <2>2, <2>3 DEF Inv, OldInv
<1>10. FactorInv'
  <2> SUFFICES ASSUME NEW c \in Begun, op[c] = "multiply", Alone(c)'
               PROVE  /\ \A i \in 1..device.cells :
                           Passed(c, i)' => Keeps(data'[i], c)
                      /\ \A q \in Processes :
                           at'[q] = "store" /\ c \in past[id[q]] =>
                             Keeps(reg[q], c)
    BY <1>1, <1>3, <1>4 DEF FactorInv, Keeps
  <2>1. c \in Commands /\ c # c0 /\ Alone(c)
    BY <1>1, <1>7, MoveFrame DEF Begun
  <2>2. ASSUME NEW i \in 1..device.cells, Passed(c, i)', i # pos[p]
        PROVE  Keeps(data[i], c)
    BY <1>1, <2>1, <2>2, MoveFrame DEF Inv, FactorInv
  <2>3. Keeps(n, c)
    BY <1>1, <1>2, <1>3, <2>1 DEF Keeps
  <2>4. QED
    BY <1>1, <1>8, <2>1, <2>2, <2>3 DEF Inv, FactorInv
<1>11. QED
  BY <1>1, <1>3, <1>5, <1>6, <1>9, <1>10 DEF Inv

(* Behind the last cell nothing known of the cells changes: no full write  *)
(* gets there.                                                             *)
LEMMA WritePastInv ==
  ASSUME Inv, NEW p \in Processes, WritePast(p)
  PROVE  Inv' /\ Move(p)
<1>1. /\ at[p] \in {"write", "zero"} /\ at[p] \in States /\ TypeOK
      /\ pos[p] \notin 1..device.cells /\ spilled' = TRUE
      /\ GoOn(p, at[p], WriteOutcome(p))
      /\ UNCHANGED <<data, reg, buf>>
  BY DEF WritePast, Inv, TypeOK, States
<1>2. WriteOutcome(p) \in Results
  BY FaultOutcomeFacts, OutcomeFacts DEF WriteOutcome
<1>3. /\ at' \in [Processes -> States] /\ pos' \in [Processes -> Nat]
      /\ pos'[p] = pos[p] + 1
      /\ at'[p] = IF pos[p] = len[p] THEN "idle" ELSE at[p]
      /\ \A q \in Processes \ {p} :
           at'[q] = at[q] /\ pos'[q] = pos[q] /\ result'[q] = result[q]
      /\ \A q \in Processes : Placed(q)'
      /\ result' \in [Processes -> Results]
      /\ UNCHANGED <<device, id, len, op, past, before>>
  BY <1>1, <1>2, GoOnFacts
<1>4. TypeOK'
  BY <1>1, <1>3 DEF TypeOK, Placed, Results, Numbers, States
<1>5. Move(p)
  BY <1>1, <1>3 DEF Move, Inv, CommandInv
<1>6. op[id[p]] = "write"
  BY <1>1 DEF Inv, CommandInv, OpOf
<1>7. device.length # "all"
  BY <1>1, DeviceFacts DEF TypeOK
<1>8. QED
  BY <1>1, <1>3, <1>4, <1>5, <1>6, <1>7, QuietInv

LEMMA LoadCellInv ==
  ASSUME Inv, NEW p \in Processes, LoadCell(p)
  PROVE  Inv' /\ Move(p)
<1> DEFINE n == data[pos[p]]
<1>1. /\ at[p] = "load" /\ TypeOK /\ CommandInv /\ PastInv
      /\ reg' = [reg EXCEPT ![p] = n]
      /\ at' = [at EXCEPT ![p] = "store"]
      /\ UNCHANGED <<device, data, id, pos, len, buf, result, op, past, before,
                     spilled>>
  BY DEF LoadCell, Inv
<1>2. /\ at'[p] = "store" /\ reg'[p] = n
      /\ \A q \in Processes \ {p} : at'[q] = at[q] /\ reg'[q] = reg[q]
  BY <1>1 DEF TypeOK
<1>3. Move(p)
  BY <1>1, <1>2 DEF Move, TypeOK, OpOf
<1>4. pos[p] \in 1..device.cells
  BY <1>1, InsideCells
<1>5. TypeOK'
  BY <1>1, <1>4 DEF TypeOK, Numbers
<1>6. CommandInv' /\ PastInv' /\ Begun' = Begun
  BY <1>1, <1>3, <1>5, MoveInv
<1>7. NumberInv'
  BY <1>1, <1>2, <1>4, <1>6 DEF Inv, NumberInv, Known
<1>8. LateInv'
  BY <1>1, <1>2, <1>4 DEF Inv, LateInv, Late
<1>9. ASSUME NEW c \in Commands, NEW i \in 1..device.cells, Passed(c, i)'
      PROVE  Passed(c, i)
  BY <1>1, <1>2, <1>9 DEF Passed
<1>10. ASSUME NEW c \in past[id[p]]
       PROVE  c \in Returned /\ Passed(c, pos[p])
  BY <1>1 DEF PastInv, Returned, Passed, TypeOK, CommandInv, Begun
<1>11. OldInv'
  <2> SUFFICES ASSUME NEW c \in Commands, FullWrite(c)', ~Spoiled(c)'
               PROVE  /\ \A i \in 1..device.cells :
                           Passed(c, i)' => ~Older(data[i], c)
                      /\ \A q \in Processes :
                           at'[q] = "store" /\ c \in past[id[q]] =>
                             ~Older(reg'[q], c)
    BY <1>1 DEF OldInv, Older
  <2>1. FullWrite(c) /\ ~Spoiled(c)
    BY <1>1, <1>3, <1>5, MoveFrame
  <2>2. c \in past[id[p]] => ~Older(n, c)
    BY <1>4, <1>10, <2>1 DEF Inv, OldInv
  <2>3. QED
    BY <1>2, <1>9, <2>1, <2>2 DEF Inv, OldInv
<1>12. FactorInv'
  <2> SUFFICES ASSUME NEW c \in Begun, op[c] = "multiply", Alone(c)'
               PROVE  /\ \A i \in 1..device.cells :
                           Passed(c, i)' => Keeps(data[i], c)
                      /\ \A q \in Processes :
                           at'[q] = "store" /\ c \in past[id[q]] =>
                             Keeps(reg'[q], c)
    BY <1>1, <1>6 DEF FactorInv, Keeps
  <2>1. c \in Commands /\ Alone(c)
    BY <1>1, <1>3, <1>5, MoveFrame DEF Begun
  <2>2. c \in past[id[p]] => Keeps(n, c)
    BY <1>4, <1>10, <2>1 DEF Inv, FactorInv
  <2>3. QED
    BY <1>2, <1>9, <2>1, <2>2 DEF Inv, FactorInv
<1>13. QED
  BY <1>3, <1>5, <1>6, <1>7, <1>8, <1>11, <1>12 DEF Inv

LEMMA StoreCellMove ==
  ASSUME Inv, NEW p \in Processes, StoreCell(p)
  PROVE  /\ TypeOK' /\ Move(p) /\ reg' = reg /\ op' = op
         /\ \A i \in 1..device.cells :
              data'[i] = IF i = pos[p] THEN Multiplied(reg[p], id[p])
                         ELSE data[i]
         /\ at'[p] = IF pos[p] = len[p] THEN "idle" ELSE "load"
         /\ pos'[p] = pos[p] + 1
         /\ id[p] \in Commands
<1>1. /\ at[p] = "store" /\ TypeOK
      /\ data' = [data EXCEPT ![pos[p]] = Multiplied(reg[p], id[p])]
      /\ UNCHANGED <<reg, buf, spilled>>
  BY DEF StoreCell, Inv
<1>0. pos[p] \in 1..device.cells
  BY <1>1, InsideCells
<1>2. PICK r \in {"ok", "error"} : GoOn(p, "load", Outcome(r))
  BY DEF StoreCell
<1>3. id[p] \in Commands
  BY <1>1 DEF Inv, CommandInv, Begun
<1>4. Multiplied(reg[p], id[p]) \in Numbers
  BY <1>1, <1>3, MultipliedFacts DEF TypeOK
<1>5. "load" \in States /\ Outcome(r) \in Results
  BY OutcomeFacts DEF States
<1>6. TypeOK'
  <2>1. /\ at' \in [Processes -> States] /\ pos' \in [Processes -> Nat]
        /\ \A q \in Processes : Placed(q)'
        /\ result' \in [Processes -> Results]
        /\ UNCHANGED <<device, id, len, op, past, before>>
    BY <1>1, <1>2, <1>5, GoOnFacts
  <2>2. data' \in [1..device.cells -> Numbers]
    BY <1>0, <1>1, <1>4, CellFacts
  <2>3. QED
    BY <1>1, <2>1, <2>2 DEF TypeOK, Placed, Results, Numbers, States
<1>7. Move(p)
  BY <1>1, <1>2, <1>5, GoOnFacts DEF Move, OpOf
<1>8. /\ at'[p] = IF pos[p] = len[p] THEN "idle" ELSE "load"
      /\ pos'[p] = pos[p] + 1 /\ op' = op
  BY <1>1, <1>2 DEF GoOn, TypeOK
<1>9. \A i \in 1..device.cells :
        data'[i] = IF i = pos[p] THEN Multiplied(reg[p], id[p]) ELSE data[i]
  BY <1>0, <1>1, <1>4, CellFacts
<1>10. QED
  BY <1>1, <1>3, <1>6, <1>7, <1>8, <1>9

LEMMA StoreCellInv ==
  ASSUME Inv, NEW p \in Processes, StoreCell(p)
  PROVE  Inv' /\ Move(p)
<1> DEFINE c0 == id[p]
<1> DEFINE n == Multiplied(reg[p], c0)
<1>1. /\ TypeOK /\ TypeOK' /\ Move(p) /\ reg' = reg /\ op' = op
      /\ CommandInv /\ PastInv /\ c0 \in Commands
      /\ \A i \in 1..device.cells :
           data'[i] = IF i = pos[p] THEN n ELSE data[i]
  BY StoreCellMove DEF Inv
<1>2. n.by = reg[p].by /\ n.times = reg[p].times \cup {c0}
  BY <1>1, MultipliedFacts DEF TypeOK
<1>3. /\ CommandInv' /\ PastInv' /\ Begun' = Begun /\ c0 \in Begun
      /\ \A c \in Commands : c0 \notin past[c]
  BY <1>1, MoveInv
<1>4. past' = past /\ device' = device /\ id' = id
  BY <1>1, MoveFrame
<1>5. at[p] = "store" /\ op[c0] = "multiply"
  BY DEF StoreCell, Inv, CommandInv, OpOf
<1>6. NumberInv'
  BY <1>1, <1>2, <1>3, <1>4 DEF Inv, NumberInv, Known
<1>7. LateInv'
  <2>1. ~Late(n)
    <3>1. n.by # 0 => n.by \in Commands
      BY <1>2 DEF Inv, NumberInv, Known, Begun
    <3>2. QED
      BY <1>2, <1>3, <3>1 DEF Inv, LateInv, Late
  <2>2. QED
    BY <1>1, <1>4, <2>1 DEF Inv, LateInv, Late
<1>8. \A q \in Processes : at'[q] = "store" => at[q] = "store"
  BY <1>1, <1>5 DEF Move
<1>9. Touched(c0)
  BY <1>5 DEF Touched, Inv, CommandInv
<1>10. OldInv'
  <2> SUFFICES ASSUME NEW c \in Commands, FullWrite(c)', ~Spoiled(c)'
               PROVE  /\ \A i \in 1..device.cells :
                           Passed(c, i)' => ~Older(data'[i], c)
                      /\ \A q \in Processes :
                           at'[q] = "store" /\ c \in past[id[q]] =>
                             ~Older(reg[q], c)
    BY <1>1, <1>4 DEF OldInv, Older
  <2>1. FullWrite(c) /\ ~Spoiled(c) /\ c # c0
    BY <1>1, <1>5, MoveFrame DEF FullWrite
  <2>2. ASSUME NEW i \in 1..device.cells, Passed(c, i)', i # pos[p]
        PROVE  ~Older(data[i], c)
    BY <1>1, <2>1, <2>2, MoveFrame DEF Inv, OldInv
  <2>3. ~Older(n, c)
    <3>1. c \in past[c0]
      BY <1>3, <1>9, <2>1 DEF Spoiled, Overlap
    <3>2. QED
      BY <1>2, <1>5, <2>1, <3>1 DEF Inv, OldInv, Older
  <2>4. QED
    BY <1>1, <1>8, <2>1, <2>2, <2>3 DEF Inv, OldInv
<1>11. FactorInv'
  <2> SUFFICES ASSUME NEW c \in Begun, op[c] = "multiply", Alone(c)'
               PROVE  /\ \A i \in 1..device.cells :
                           Passed(c, i)' => Keeps(data'[i], c)
                      /\ \A q \in Processes :
                           at'[q] = "store" /\ c \in past[id[q]] =>
                             Keeps(reg[q], c)
    BY <1>1, <1>3, <1>4 DEF FactorInv, Keeps
  <2>1. c \in Commands /\ Alone(c)
    BY <1>1, MoveFrame DEF Begun
  <2>2. ASSUME NEW i \in 1..device.cells, Passed(c, i)', i # pos[p]
        PROVE  Keeps(data[i], c)
    <3>1. Passed(c, i)
      <4>1. CASE c = c0
        BY <1>1, <1>4, <1>5, <2>2, <4>1, StoreCellMove, PassedFacts
      <4>2. CASE c # c0
        BY <1>1, <2>1, <2>2, <4>2, MoveFrame
      <4>3. QED
        BY <4>1, <4>2
    <3>2. QED
      BY <2>1, <3>1 DEF Inv, FactorInv
  <2>3. Keeps(n, c)
    <3>1. CASE c = c0
      BY <1>2, <3>1 DEF Keeps
    <3>2. CASE c # c0
      <4>1. c \in past[c0]
        BY <1>3, <2>1, <3>2 DEF Alone, Overlap
      <4>2. QED
        BY <1>2, <1>5, <2>1, <4>1 DEF Inv, FactorInv, Keeps
    <3>3. QED
      BY <3>1, <3>2
  <2>4. QED
    BY <1>1, <1>8, <2>1, <2>2, <2>3 DEF Inv, FactorInv
<1>12. QED
  BY <1>1, <1>3, <1>6, <1>7, <1>10, <1>11 DEF Inv

-----------------------------------------------------------------------------
(* A command begins: it is new, nobody has it in their past, and nothing   *)
(* is known of it yet.                                                     *)
Starts(p, c, o) ==
  /\ c \notin Begun /\ 1..(c - 1) \subseteq Begun
  /\ id' = [id EXCEPT ![p] = c]
  /\ op' = [op EXCEPT ![c] = o]
  /\ past' = [past EXCEPT ![c] = Returned]
  /\ at' = [at EXCEPT ![p] = IF o = "multiply" THEN "load" ELSE o]
  /\ \E n \in Lengths(o) : len' = [len EXCEPT ![p] = n]
  /\ before' = IF o = "read" THEN before ELSE data

Started(p, c, o) ==
  /\ at[p] = "idle" /\ o \in {"read", "write", "multiply"}
  /\ UNCHANGED <<device, data, result, spilled>>
  /\ Begun' = Begun \cup {c} /\ Returned' = Returned
  /\ past'[c] = Returned /\ id'[p] = c /\ op'[c] = o
  /\ op' = [op EXCEPT ![c] = o]
  /\ \A d \in Commands \ {c} : past'[d] = past[d] /\ op'[d] = op[d]
  /\ at'[p] = IF o = "multiply" THEN "load" ELSE o
  /\ pos'[p] = 1 /\ reg'[p] = Number(0, FALSE)
  /\ reg' = [reg EXCEPT ![p] = Number(0, FALSE)]
  /\ \A q \in Processes \ {p} :
       /\ at'[q] = at[q] /\ id'[q] = id[q] /\ pos'[q] = pos[q]
       /\ reg'[q] = reg[q] /\ len'[q] = len[q] /\ buf'[q] = buf[q]
  /\ at' \in [Processes -> States] /\ len'[p] \in 1..device.cells + 1
  /\ len' \in [Processes -> 1..device.cells + 1]
  /\ len'[p] = device.cells \/ (device.length # "all" /\ o = "write")
  /\ len'[p] > device.cells => device.length = "any" /\ o = "write"
  /\ before' = IF o = "read" THEN before ELSE data

LEMMA BeginFacts ==
  ASSUME TypeOK, CommandInv, PastInv, NEW p \in Processes,
         NEW c \in Commands, NEW o \in device.ops,
         Begin(p), Starts(p, c, o)
  PROVE  Started(p, c, o)
<1>1. /\ at[p] = "idle"
      /\ pos' = [pos EXCEPT ![p] = 1]
      /\ reg' = [reg EXCEPT ![p] = Number(0, FALSE)]
      /\ buf' = [buf EXCEPT ![p] = Blank]
      /\ UNCHANGED <<device, data, result, spilled>>
  BY DEF Begin
<1>2. o \in {"read", "write", "multiply"}
  BY DeviceFacts DEF TypeOK
<1>3. /\ at'[p] = IF o = "multiply" THEN "load" ELSE o
      /\ at' \in [Processes -> States]
      /\ \A q \in Processes \ {p} : at'[q] = at[q]
  BY <1>2 DEF Starts, TypeOK, States
<1>4. PICK n \in Lengths(o) : len' = [len EXCEPT ![p] = n]
  BY DEF Starts
<1>5. /\ n \in 1..device.cells + 1
      /\ n = device.cells \/ (device.length # "all" /\ o = "write")
      /\ n > device.cells => device.length = "any" /\ o = "write"
  BY <1>4, DeviceFacts DEF TypeOK, Lengths
<1>6. /\ len' \in [Processes -> 1..device.cells + 1] /\ len'[p] = n
      /\ \A q \in Processes \ {p} : len'[q] = len[q]
  BY <1>4, <1>5 DEF TypeOK
<1>7. /\ id'[p] = c /\ op'[c] = o /\ past'[c] = Returned
      /\ \A d \in Commands \ {c} : past'[d] = past[d] /\ op'[d] = op[d]
      /\ \A q \in Processes \ {p} : id'[q] = id[q]
  BY DEF Starts, TypeOK
<1>8. Begun' = Begun \cup {c} /\ c \notin Begun
  BY <1>2, <1>7 DEF Begun, Starts
<1>9. Returned' = Returned
  <2>1. at'[p] # "idle"
    BY <1>2, <1>3
  <2>2. c \notin Returned'
    BY <1>7, <2>1 DEF Returned
  <2>3. ASSUME NEW d \in Begun PROVE d \in Returned' <=> d \in Returned
    BY <1>1, <1>3, <1>7, <1>8 DEF Returned
  <2>4. Returned' \subseteq Begun' /\ Returned \subseteq Begun
    BY DEF Returned
  <2>5. QED
    BY <1>8, <2>2, <2>3, <2>4
<1>10. /\ pos'[p] = 1 /\ reg'[p] = Number(0, FALSE)
       /\ \A q \in Processes \ {p} :
            pos'[q] = pos[q] /\ reg'[q] = reg[q] /\ buf'[q] = buf[q]
  BY <1>1 DEF TypeOK
<1>11. QED
  BY <1>1, <1>2, <1>3, <1>5, <1>6, <1>7, <1>8, <1>9, <1>10
     DEF Starts, Started

LEMMA BeginInv ==
  ASSUME Inv, NEW p \in Processes, Begin(p)
  PROVE  Inv'
<1>1. TypeOK /\ CommandInv /\ PastInv
  BY DEF Inv
<1>2. PICK c \in Commands, o \in device.ops : Starts(p, c, o)
  BY DEF Begin, Starts
<1>0. Started(p, c, o)
  BY <1>1, <1>2, BeginFacts
<1>3. /\ c \notin Begun /\ 1..(c - 1) \subseteq Begun /\ c \in Nat
      /\ Returned \subseteq Begun /\ c # 0
  BY <1>2, CommandFacts DEF Starts, Returned
<1>4. TypeOK'
  <2>1. pos' \in [Processes -> Nat]
    BY DEF Begin, Inv, TypeOK
  <2>2. \A q \in Processes : Placed(q)'
    <3> SUFFICES ASSUME NEW q \in Processes, at'[q] # "idle"
                 PROVE  /\ pos'[q] \in 1..len'[q]
                        /\ len'[q] > device.cells =>
                             /\ device.length = "any"
                             /\ at'[q] \in {"write", "zero"}
      BY <1>0 DEF Placed, Started
    <3>1. CASE q = p
      BY <1>0, <3>1, <1>1, DeviceFacts DEF Started, TypeOK
    <3>2. CASE q # p
      BY <1>0, <1>1, <3>2 DEF Started, TypeOK
    <3>3. QED
      BY <3>1, <3>2
  <2>3. /\ Number(0, FALSE) \in Numbers
        /\ Blank \in [1..device.cells -> Numbers]
    BY CommandFacts, NumberFacts DEF Blank
  <2>4. /\ reg' \in [Processes -> Numbers]
        /\ buf' \in [Processes -> [1..device.cells -> Numbers]]
    BY <2>3 DEF Begin, Inv, TypeOK
  <2>5. /\ id' \in [Processes -> 0..MaxCommands]
        /\ op' \in [Commands -> {"none", "refused"} \cup device.ops]
        /\ past' \in [Commands -> SUBSET Commands]
    BY <1>1, <1>2, CommandFacts DEF Starts, TypeOK, Returned, Begun
  <2>6. before' \in [1..device.cells -> Numbers]
    BY <1>1, <1>2 DEF Starts, TypeOK
  <2>7. /\ UNCHANGED <<device, data, result, spilled>>
        /\ at' \in [Processes -> States]
        /\ len' \in [Processes -> 1..device.cells + 1]
    BY <1>0, <1>1, <1>2 DEF Started
  <2>8. QED
    BY <1>1, <2>1, <2>2, <2>4, <2>5, <2>6, <2>7
       DEF TypeOK, Placed, Numbers, States
<1>5. CommandInv'
  <2>1. \A d \in Begun' : 1..(d - 1) \subseteq Begun'
    BY <1>0, <1>1, <1>2, <1>3 DEF Started, CommandInv
  <2>2. ASSUME NEW q \in Processes, at'[q] # "idle"
        PROVE  /\ id'[q] \in Begun' /\ op'[id'[q]] = OpOf(at'[q])
               /\ \A r \in Processes :
                    at'[r] # "idle" /\ id'[r] = id'[q] => r = q
               /\ \/ len'[q] = device'.cells
                  \/ device'.length # "all" /\ op'[id'[q]] = "write"
               /\ at'[q] = "zero" => ~device'.own
    <3>1. CASE q = p
      <4>1. ASSUME NEW r \in Processes \ {p}, at'[r] # "idle"
            PROVE  id'[r] # c
        BY <1>0, <1>1, <1>2, <1>3, <4>1 DEF Started, CommandInv
      <4>2. OpOf(at'[p]) = o /\ at'[p] # "zero"
        BY <1>0, <1>1, <1>2 DEF Started, OpOf
      <4>3. QED
        BY <1>0, <1>1, <1>2, <3>1, <4>1, <4>2 DEF Started
    <3>2. CASE q # p
      <4>1. at'[q] = at[q] /\ id'[q] = id[q] /\ at[q] # "idle"
        BY <1>0, <1>1, <1>2, <2>2, <3>2 DEF Started
      <4>2. id[q] \in Begun /\ id[q] # c /\ op'[id[q]] = op[id[q]]
        BY <1>0, <1>1, <1>2, <1>3, <4>1 DEF Started, CommandInv, Begun
      <4>3. ASSUME NEW r \in Processes, at'[r] # "idle", id'[r] = id[q]
            PROVE  r = q
        <5>1. r # p
          BY <1>0, <1>1, <1>2, <4>2, <4>3 DEF Started
        <5>2. at[r] # "idle" /\ id[r] = id[q]
          BY <1>0, <1>1, <1>2, <4>3, <5>1 DEF Started
        <5>3. QED
          BY <1>1, <4>1, <5>2 DEF CommandInv
      <4>4. /\ len'[q] = len[q] /\ device' = device
            /\ op[id[q]] = OpOf(at[q])
            /\ \/ len[q] = device.cells
               \/ device.length # "all" /\ op[id[q]] = "write"
            /\ at[q] = "zero" => ~device.own
        BY <1>0, <1>1, <1>2, <3>2, <4>1 DEF Started, CommandInv
      <4>5. Begun \subseteq Begun'
        BY <1>0, <1>1, <1>2 DEF Started
      <4>6. QED
        BY <4>1, <4>2, <4>3, <4>4, <4>5
    <3>3. QED
      BY <3>1, <3>2
  <2>3. QED
    BY <2>1, <2>2 DEF CommandInv
<1>6. PastInv'
  <2>1. \A d \in Returned : d < c
    <3>1. ASSUME NEW d \in Returned, d >= c PROVE FALSE
      <4>1. d \in Begun /\ d \in Nat /\ d # c
        BY <1>3, <3>1, CommandFacts DEF Returned, Begun
      <4>2. c \in 1..(d - 1)
        BY <1>3, <3>1, <4>1
      <4>3. QED
        BY <1>1, <1>3, <4>1, <4>2 DEF CommandInv
    <3>2. \A d \in Returned : d \in Nat
      BY CommandFacts DEF Returned, Begun
    <3>3. QED
      BY <1>3, <3>1, <3>2
  <2>2. QED
    BY <1>0, <1>1, <1>2, <2>1 DEF Started, PastInv
<1>7. past'[c] = Returned /\ \A d \in Begun : past'[d] = past[d] /\ d # c
  BY <1>0, <1>1, <1>2, <1>3 DEF Started, Begun
<1>8. NumberInv'
  <2>1. Number(0, FALSE).by = 0 /\ Number(0, FALSE).times = {}
    BY CommandFacts, NumberFacts
  <2>2. \A n : Known(n) => Known(n)'
    BY <1>0 DEF Started, Known
  <2>3. \A q \in Processes :
          reg'[q].by \in Begun' \cup {0} /\ reg'[q].times \subseteq Begun'
    <3>1. reg'[p].by \in Begun' \cup {0} /\ reg'[p].times \subseteq Begun'
      BY <1>0, <2>1 DEF Started, Known
    <3>2. \A q \in Processes \ {p} :
            reg[q].by \in Begun' \cup {0} /\ reg[q].times \subseteq Begun'
      BY <2>2 DEF Inv, NumberInv, Known
    <3>3. QED
      BY <1>0, <3>1, <3>2 DEF Started
  <2>4. QED
    BY <1>0, <2>2, <2>3 DEF Started, Inv, NumberInv, Known
<1>9. LateInv'
  <2>1. \A q \in Processes : reg'[q].by = 0 \/ reg'[q] = reg[q]
    <3>1. Number(0, FALSE).by = 0
      BY CommandFacts, NumberFacts
    <3>2. QED
      BY <1>0, <3>1 DEF Started
  <2>2. \A i \in 1..device.cells : ~Late(data[i])'
    <3>1. \A i \in 1..device.cells :
            LET n == data[i] IN n.by # 0 => n.times \cap past'[n.by] = {}
      BY <1>7 DEF Inv, NumberInv, Known, LateInv, Late
    <3>2. QED
      BY <1>0, <3>1 DEF Started, Late
  <2>3. \A q \in Processes : ~Late(reg[q])'
    <3>1. \A q \in Processes :
            LET n == reg[q] IN n.by # 0 => n.times \cap past'[n.by] = {}
      BY <1>7 DEF Inv, NumberInv, Known, LateInv, Late
    <3>2. QED
      BY <2>1, <3>1 DEF Late
  <2>4. device' = device
    BY <1>0 DEF Started
  <2>5. QED
    BY <2>2, <2>3, <2>4 DEF LateInv
<1>10. \A q \in Processes : at'[q] = "store" =>
         q # p /\ at[q] = "store" /\ id'[q] = id[q] /\ reg'[q] = reg[q]
         /\ id[q] \in Begun
  BY <1>0, <1>1, <1>2 DEF Started, CommandInv
<1>11. ASSUME NEW d \in Begun, NEW i \in 1..device.cells, Passed(d, i)'
       PROVE  Passed(d, i)
  BY <1>0, <1>1, <1>2, <1>11 DEF Started, Passed
<1>12. ~Passed(c, 1)' /\ \A i \in 1..device.cells : ~Passed(c, i)'
  <2>1. at'[p] # "idle" /\ id'[p] = c /\ pos'[p] = 1
    BY <1>0, <1>1, <1>2 DEF Started
  <2>2. QED
    BY <2>1, DeviceFacts DEF Passed, Inv, TypeOK
<1>13. OldInv'
  <2> SUFFICES ASSUME NEW d \in Commands, FullWrite(d)', ~Spoiled(d)'
               PROVE  /\ \A i \in 1..device.cells :
                           Passed(d, i)' => ~Older(data[i], d)'
                      /\ \A q \in Processes :
                           at'[q] = "store" /\ d \in past'[id'[q]] =>
                             ~Older(reg[q], d)'
    BY <1>0, <1>1, <1>2, <1>10 DEF Started, OldInv, Older
  <2>1. CASE d = c
    <3>1. \A q \in Processes : at'[q] = "store" => c \notin past'[id'[q]]
      BY <1>1, <1>3, <1>7, <1>10 DEF PastInv, Begun
    <3>2. QED
      BY <1>12, <2>1, <3>1
  <2>2. CASE d # c
    <3>1. FullWrite(d)
      BY <1>0, <1>1, <1>2, <2>2 DEF Started, FullWrite
    <3>2. d \in Begun /\ past'[d] = past[d]
      BY <1>7, <3>1 DEF FullWrite
    <3>3. ASSUME NEW e \in Begun, Touched(e) PROVE Touched(e)'
      BY <1>0, <1>1, <1>2, <1>7, <3>3 DEF Started, Touched, Begun
    <3>4. ~Spoiled(d)
      BY <1>0, <1>1, <1>2, <1>7, <3>2, <3>3 DEF Started, Spoiled, Overlap
    <3>5. ASSUME NEW i \in 1..device.cells, Passed(d, i)'
          PROVE  ~Older(data[i], d)'
      <4>1. ~Older(data[i], d)
        BY <1>11, <3>1, <3>2, <3>4, <3>5 DEF Inv, OldInv
      <4>2. data' = data
        BY <1>0 DEF Started
      <4>3. QED
        BY <3>2, <4>1, <4>2 DEF Older
    <3>6. ASSUME NEW q \in Processes, at'[q] = "store", d \in past'[id'[q]]
          PROVE  ~Older(reg[q], d)'
      <4>1. at[q] = "store" /\ d \in past[id[q]] /\ reg'[q] = reg[q]
        BY <1>7, <1>10, <3>6
      <4>2. ~Older(reg[q], d)
        BY <3>1, <3>2, <3>4, <4>1 DEF Inv, OldInv
      <4>3. QED
        BY <3>2, <4>1, <4>2 DEF Older
    <3>7. QED
      BY <3>5, <3>6
  <2>3. QED
    BY <2>1, <2>2
<1>14. FactorInv'
  <2> SUFFICES ASSUME NEW d \in Begun', op'[d] = "multiply", Alone(d)'
               PROVE  /\ \A i \in 1..device.cells :
                           Passed(d, i)' => Keeps(data[i], d)'
                      /\ \A q \in Processes :
                           at'[q] = "store" /\ d \in past'[id'[q]] =>
                             Keeps(reg[q], d)'
    BY <1>0, <1>1, <1>2, <1>10 DEF Started, FactorInv, Keeps
  <2>1. CASE d = c
    <3>1. \A q \in Processes : at'[q] = "store" => c \notin past'[id'[q]]
      BY <1>1, <1>3, <1>7, <1>10 DEF PastInv, Begun
    <3>2. QED
      BY <1>12, <2>1, <3>1
  <2>2. CASE d # c
    <3>1. d \in Begun /\ past'[d] = past[d] /\ op[d] = "multiply"
      BY <1>0, <1>1, <1>2, <1>7, <2>2 DEF Started, Begun
    <3>2. Alone(d)
      BY <1>0, <1>1, <1>2, <1>7, <3>1 DEF Started, Alone, Overlap
    <3>3. ASSUME NEW i \in 1..device.cells, Passed(d, i)'
          PROVE  Keeps(data[i], d)'
      <4>1. Keeps(data[i], d)
        BY <1>11, <3>1, <3>2, <3>3 DEF Inv, FactorInv
      <4>2. data' = data
        BY <1>0 DEF Started
      <4>3. QED
        BY <3>1, <4>1, <4>2 DEF Keeps
    <3>4. ASSUME NEW q \in Processes, at'[q] = "store", d \in past'[id'[q]]
          PROVE  Keeps(reg[q], d)'
      <4>1. at[q] = "store" /\ d \in past[id[q]] /\ reg'[q] = reg[q]
        BY <1>7, <1>10, <3>4
      <4>2. Keeps(reg[q], d)
        BY <3>1, <3>2, <4>1 DEF Inv, FactorInv
      <4>3. QED
        BY <3>1, <4>1, <4>2 DEF Keeps
    <3>5. QED
      BY <3>3, <3>4
  <2>3. QED
    BY <2>1, <2>2
<1>15. QED
  BY <1>4, <1>5, <1>6, <1>8, <1>9, <1>13, <1>14 DEF Inv

LEMMA InitInv ==
  ASSUME Init
  PROVE  Inv
<1>1. /\ device \in Devices /\ device.cells \in Nat /\ device.cells > 0
  BY DeviceFacts DEF Init
<1>2. Number(0, FALSE) \in Numbers /\ Number(0, FALSE).by = 0
      /\ Number(0, FALSE).times = {}
  BY CommandFacts, NumberFacts
<1>3. Begun = {} /\ Returned = {}
  BY DEF Init, Begun, Returned
<1>4. Blank \in [1..device.cells -> Numbers]
      /\ \A i \in 1..device.cells : data[i] = Number(0, FALSE)
  BY <1>2 DEF Init, Blank
<1>5. TypeOK
  <2>1. result \in [Processes -> Results]
    BY OutcomeFacts DEF Init
  <2>2. /\ id \in [Processes -> 0..MaxCommands]
        /\ pos \in [Processes -> Nat]
        /\ len \in [Processes -> 1..device.cells + 1]
    BY <1>1, CommandFacts DEF Init
  <2>3. QED
    BY <1>1, <1>2, <1>4, <2>1, <2>2 DEF Init, TypeOK, Results, Numbers
<1>6. CommandInv /\ PastInv
  BY <1>3 DEF Init, CommandInv, PastInv
<1>7. NumberInv /\ LateInv
  BY <1>2, <1>4 DEF Init, NumberInv, Known, LateInv, Late
<1>8. OldInv /\ FactorInv
  BY <1>3 DEF OldInv, FactorInv, FullWrite
<1>9. QED
  BY <1>5, <1>6, <1>7, <1>8 DEF Inv

LEMMA ProcessInv ==
  ASSUME Inv, NEW p \in Processes, Process(p)
  PROVE  Inv' /\ (Begin(p) \/ Move(p))
BY BeginInv, ReadCellInv, ReadFaultInv, WriteCellInv, WritePastInv,
   WriteFaultInv, WriteNothingInv, LoadCellInv, StoreCellInv,
   MultiplyFaultInv DEF Process

LEMMA StutterInv ==
  ASSUME Inv, UNCHANGED vars
  PROVE  Inv'
<1>1. /\ Begun' = Begun /\ Returned' = Returned
      /\ UNCHANGED <<device, data, at, id, pos, len, reg, buf, result, op,
                     past, before, spilled>>
  BY DEF vars, Begun, Returned
<1>2. TypeOK'
  BY <1>1 DEF Inv, TypeOK, Numbers
<1>3. CommandInv' /\ PastInv'
  BY <1>1 DEF Inv, CommandInv, PastInv
<1>4. NumberInv' /\ LateInv'
  BY <1>1 DEF Inv, NumberInv, Known, LateInv, Late
<1>5. OldInv'
  BY <1>1 DEF Inv, OldInv, FullWrite, Spoiled, Touched, Overlap, Passed, Older
<1>6. FactorInv'
  BY <1>1 DEF Inv, FactorInv, Alone, Overlap, Passed, Keeps
<1>7. QED
  BY <1>2, <1>3, <1>4, <1>5, <1>6 DEF Inv

(* Every step of the lessons' commands keeps the invariant.                *)
LEMMA SpecInv == Spec => []Inv
<1>1. Init => Inv
  BY InitInv
<1>2. Inv /\ [Next]_vars => Inv'
  BY ProcessInv, StutterInv DEF Next
<1>3. QED
  BY <1>1, <1>2, PTL DEF Spec

(* Every variable of the commands of 005, 006, 007 and 009 has its type,   *)
(* and only a write whose length nobody checks (005) is ever at a cell     *)
(* that does not exist.                                                    *)
THEOREM SharedDataTypes == Spec => []TypeOK
<1>1. Inv => TypeOK
  BY DEF Inv
<1>2. QED
  BY <1>1, SpecInv, PTL

(* A full write that overlaps no multiplication is final: no copy to user  *)
(* and no multiplication of any number of processes brings an older number *)
(* back into a cell (write_device, WRITE_IOCTL).                           *)
THEOREM WritesFinal == Spec => []NoOldNumber
<1>1. Inv => NoOldNumber
  <2> SUFFICES ASSUME Inv, NEW c \in Commands, Final(c),
                      NEW i \in DOMAIN data
               PROVE  data[i].by \notin past[c] \cup {0}
    BY DEF NoOldNumber
  <2>1. i \in 1..device.cells
    BY DEF Inv, TypeOK
  <2>2. FullWrite(c) /\ ~Spoiled(c)
    BY DEF Final, FullWrite, Returned, Spoiled, Touched
  <2>3. Passed(c, i)
    BY DEF Final, Returned, Passed
  <2>4. QED
    BY <2>1, <2>2, <2>3 DEF Inv, OldInv, Older
<1>2. QED
  BY <1>1, SpecInv, PTL

(* A number is never multiplied by a command that had returned before the  *)
(* number was written: the load of arr[i] *= n is never that old.          *)
THEOREM FactorsInTime == Spec => []NoLateFactor
<1>1. Inv => NoLateFactor
  BY DEF Inv, TypeOK, LateInv, Late, NoLateFactor
<1>2. QED
  BY <1>1, SpecInv, PTL

(* An RW_IOCTL that overlaps nothing is never lost, whatever is read,      *)
(* written and multiplied after it.                                        *)
THEOREM FactorsKept == Spec => []NoFactorLost
<1>1. Inv => NoFactorLost
  <2> SUFFICES ASSUME Inv, NEW c \in Returned, op[c] = "multiply",
                      \A d \in Begun : ~Overlap(c, d), NEW i \in DOMAIN data
               PROVE  Keeps(data[i], c)
    BY DEF NoFactorLost, Keeps
  <2>1. i \in 1..device.cells /\ c \in Begun /\ Alone(c) /\ Passed(c, i)
    BY DEF Inv, TypeOK, Alone, Returned, Passed
  <2>2. QED
    BY <2>1 DEF Inv, FactorInv
<1>2. QED
  BY <1>1, SpecInv, PTL

-----------------------------------------------------------------------------
(* Commands that take place in one step.  If Intact holds after a step, it *)
(* held before it.                                                         *)
LEMMA IntactBefore ==
  ASSUME Inv, Inv', NEW p \in Processes, Begin(p) \/ Move(p), Intact'
  PROVE  Intact /\ (OneCell' <=> OneCell) /\ device' = device
<1>0. device' = device /\ (spilled => spilled')
  <2>1. CASE Begin(p)
    <3>1. device' = device /\ spilled' = spilled
      BY <2>1 DEF Begin
    <3>2. QED
      BY <3>1
  <2>2. CASE Move(p)
    BY <2>2 DEF Move
  <2>3. QED
    BY <2>1, <2>2
<1>1. device' = device /\ (OneCell' <=> OneCell)
  BY <1>0 DEF OneCell
<1>2. ASSUME NEW c \in Begun
      PROVE  /\ c \in Begun' /\ past'[c] = past[c]
             /\ op'[c] = "read" => op[c] = "read"
  <2>1. CASE Begin(p)
    BY <2>1, <1>2 DEF Begin, Begun, Inv, TypeOK
  <2>2. CASE Move(p)
    BY <2>2, <1>2, MoveInv DEF Inv, Begun, Move
  <2>3. QED
    BY <2>1, <2>2
<1>3. QED
  BY <1>0, <1>1, <1>2 DEF Intact, Overlap

(* Then whoever changes the data is alone; a command on one cell is one    *)
(* step.                                                                   *)
ExclusiveInv ==
  Intact /\ ~OneCell =>
    \A p \in Processes : at[p] \notin {"idle", "read"} =>
      \A q \in Processes \ {p} : at[q] = "idle"

OneCellInv ==
  OneCell => \A p \in Processes : at[p] # "idle" =>
    /\ at[p] \in {"read", "write", "zero"}
    /\ device.cells = 1 /\ pos[p] = 1 /\ len[p] = 1

LEMMA AloneFacts == Inv => ExclusiveInv /\ OneCellInv
<1> SUFFICES ASSUME Inv PROVE ExclusiveInv /\ OneCellInv
  OBVIOUS
<1>1. ExclusiveInv
  <2> SUFFICES ASSUME Intact, ~OneCell, NEW p \in Processes,
                      at[p] \notin {"idle", "read"},
                      NEW q \in Processes \ {p}, at[q] # "idle"
               PROVE  FALSE
    BY DEF ExclusiveInv
  <2>1. /\ id[p] \in Begun /\ id[q] \in Begun /\ id[p] # id[q]
        /\ id[p] \notin Returned /\ id[q] \notin Returned
    BY DEF Inv, CommandInv, Returned
  <2>2. Overlap(id[p], id[q])
    BY <2>1 DEF Overlap, Inv, PastInv, Begun
  <2>3. op[id[p]] # "read"
    <3>1. at[p] \in {"write", "zero", "load", "store"}
      BY DEF Inv, TypeOK
    <3>2. QED
      BY <3>1 DEF Inv, CommandInv, OpOf
  <2>4. QED
    BY <2>1, <2>2, <2>3 DEF Intact
<1>2. OneCellInv
  <2> SUFFICES ASSUME OneCell, NEW p \in Processes, at[p] # "idle"
               PROVE  /\ at[p] \in {"read", "write", "zero"}
                      /\ device.cells = 1 /\ pos[p] = 1 /\ len[p] = 1
    BY DEF OneCellInv
  <2>1. op[id[p]] # "multiply"
    BY DEF Inv, CommandInv, TypeOK, OneCell, Begun
  <2>2. at[p] \in {"read", "write", "zero"}
    BY <2>1 DEF Inv, CommandInv, TypeOK, OpOf
  <2>3. QED
    BY <2>2 DEF Inv, TypeOK, OneCell
<1>3. QED
  BY <1>1, <1>2

LEMMA AloneNext == Inv' => ExclusiveInv' /\ OneCellInv'
BY AloneFacts, PTL

LEMMA IntactOthers ==
  ASSUME Inv, Inv', Intact, Intact', IntactInv, NEW p \in Processes,
         device' = device,
         \A q \in Processes \ {p} :
           /\ at'[q] = at[q] /\ id'[q] = id[q] /\ pos'[q] = pos[q]
           /\ reg'[q] = reg[q] /\ buf'[q] = buf[q],
         \/ data' = data /\ before' = before
         \/ at[p] \notin {"idle", "read"} \/ at'[p] \notin {"idle", "read"},
         NEW q \in Processes \ {p}
  PROVE  ReadInv(q)' /\ (~OneCell => WriteInv(q)' /\ MultiplyInv(q)')
<1>1. CASE data' = data /\ before' = before
  BY <1>1 DEF IntactInv, ReadInv, WriteInv, MultiplyInv
<1>2. CASE at[p] \notin {"idle", "read"} \/ at'[p] \notin {"idle", "read"}
  <2>1. CASE OneCell
    <3>1. OneCell'
      BY <2>1 DEF OneCell
    <3>2. at'[q] = "read" => pos'[q] = 1
      BY <3>1, AloneNext DEF OneCellInv
    <3>3. QED
      BY <2>1, <3>2 DEF ReadInv
  <2>2. CASE ~OneCell
    <3>1. ~OneCell'
      BY <2>2 DEF OneCell
    <3>2. at'[q] = "idle"
      BY <1>2, <2>2, <3>1, AloneFacts, AloneNext DEF ExclusiveInv
    <3>3. QED
      BY <3>2 DEF ReadInv, WriteInv, MultiplyInv
  <2>3. QED
    BY <2>1, <2>2
<1>3. QED
  BY <1>1, <1>2

(* While Intact holds, every step keeps what is known of the cells.        *)
LEMMA BeginIntact ==
  ASSUME Inv, Inv', IntactInv, Intact, Intact', NEW p \in Processes, Begin(p)
  PROVE  IntactInv'
<1>1. PICK c \in Commands, o \in device.ops : Starts(p, c, o)
  BY DEF Begin, Starts
<1>2. Started(p, c, o)
  BY <1>1, BeginFacts DEF Inv
<1>3. /\ device' = device /\ data' = data
      /\ \A q \in Processes \ {p} :
           /\ at'[q] = at[q] /\ id'[q] = id[q] /\ pos'[q] = pos[q]
           /\ reg'[q] = reg[q] /\ buf'[q] = buf[q]
      /\ pos'[p] = 1
      /\ at'[p] \in {"read", "write", "load"}
      /\ at'[p] = "read" => before' = before
      /\ at'[p] # "read" => before' = data
  BY <1>2 DEF Started
<1>4. \A q \in Processes \ {p} :
        ReadInv(q)' /\ (~OneCell => WriteInv(q)' /\ MultiplyInv(q)')
  BY <1>3, IntactOthers
<1>5. ReadInv(p)'
  BY <1>3 DEF ReadInv
<1>6. WriteInv(p)'
  BY <1>3 DEF WriteInv
<1>7. MultiplyInv(p)'
  BY <1>3 DEF MultiplyInv
<1>8. OneCell' <=> OneCell
  BY <1>3 DEF OneCell
<1>9. QED
  BY <1>4, <1>5, <1>6, <1>7, <1>8 DEF IntactInv

LEMMA MoveIntact ==
  ASSUME Inv, Inv', IntactInv, Intact, Intact', NEW p \in Processes, Move(p),
         data' = data \/ at[p] \notin {"idle", "read"},
         ReadInv(p)', ~OneCell => WriteInv(p)' /\ MultiplyInv(p)'
  PROVE  IntactInv'
<1>1. device' = device /\ id' = id /\ before' = before
  BY DEF Move
<1>2. \A q \in Processes \ {p} :
        ReadInv(q)' /\ (~OneCell => WriteInv(q)' /\ MultiplyInv(q)')
  BY <1>1, IntactOthers DEF Move
<1>3. OneCell' <=> OneCell
  BY <1>1 DEF OneCell
<1>4. QED
  BY <1>2, <1>3 DEF IntactInv

LEMMA ReadCellIntact ==
  ASSUME Inv, Inv', IntactInv, Intact, Intact', NEW p \in Processes,
         ReadCell(p)
  PROVE  /\ IntactInv'
         /\ \A j \in 1..pos[p] : buf'[p][j] = data[j]
<1>1. /\ at[p] = "read" /\ data' = data
      /\ GoOn(p, "read", <<"ok", buf'[p]>>)
  BY DEF ReadCell
<1>2. /\ Move(p) /\ TypeOK /\ <<"ok", buf'[p]>> \in Results
      /\ buf'[p] = [buf[p] EXCEPT ![pos[p]] = data[pos[p]]]
      /\ pos[p] \in 1..device.cells /\ pos[p] \in Nat
      /\ buf[p] \in [1..device.cells -> Numbers]
  BY ReadCellInv, ReadCellFacts, DeviceFacts DEF Inv, TypeOK
<1>3. at'[p] \in {"idle", "read"} /\ pos'[p] = pos[p] + 1
  BY <1>1 DEF GoOn, Inv, TypeOK
<1>4. \A j \in 1..pos[p] : buf'[p][j] = data[j]
  <2>1. \A j \in 1..(pos[p] - 1) : buf[p][j] = data[j]
    BY <1>1 DEF IntactInv, ReadInv
  <2>2. QED
    BY <1>2, <2>1, DeviceFacts DEF TypeOK
<1>5. ReadInv(p)'
  BY <1>1, <1>2, <1>3, <1>4 DEF ReadInv
<1>6. WriteInv(p)' /\ MultiplyInv(p)'
  BY <1>3 DEF WriteInv, MultiplyInv
<1>7. QED
  BY <1>1, <1>2, <1>4, <1>5, <1>6, MoveIntact

(* After its last cell a write has written the first cells.                *)
LEMMA WriteCellIntact ==
  ASSUME Inv, Inv', IntactInv, Intact, Intact', NEW p \in Processes,
         WriteCell(p)
  PROVE  /\ IntactInv'
         /\ ~OneCell => \E k \in 0..pos[p] :
              /\ (k = pos[p]) <=> (at[p] = "write")
              /\ \A i \in 1..device.cells :
                   data'[i] = IF i > pos[p] THEN before[i]
                              ELSE Number(id[p], i > k)
<1>1. /\ Move(p) /\ TypeOK
      /\ \A i \in 1..device.cells :
           data'[i] = IF i = pos[p] THEN Number(id[p], at[p] = "zero")
                      ELSE data[i]
      /\ at'[p] = IF pos[p] = len[p] THEN "idle" ELSE at[p]
      /\ pos'[p] = pos[p] + 1
  BY WriteCellMove DEF Inv
<1>2. /\ at[p] \in {"write", "zero"} /\ at'[p] \in {"idle", at[p]}
      /\ pos[p] \in Nat /\ pos[p] >= 1
      /\ id' = id /\ device' = device /\ before' = before
  BY <1>1 DEF WriteCell, TypeOK, Move
<1>3. ReadInv(p)' /\ MultiplyInv(p)'
  BY <1>2 DEF ReadInv, MultiplyInv
<1>4. ASSUME ~OneCell
      PROVE  \E k \in 0..pos[p] :
               /\ (k = pos[p]) <=> (at[p] = "write")
               /\ \A i \in 1..device.cells :
                    data'[i] = IF i > pos[p] THEN before[i]
                               ELSE Number(id[p], i > k)
  <2>1. PICK k \in 0..(pos[p] - 1) :
          /\ at[p] = "write" => k = pos[p] - 1
          /\ \A i \in 1..device.cells :
               data[i] = IF i < pos[p] THEN Number(id[p], i > k) ELSE before[i]
    BY <1>2, <1>4 DEF IntactInv, WriteInv
  <2>2. CASE at[p] = "zero"
    <3>1. \A i \in 1..device.cells :
            data'[i] = IF i > pos[p] THEN before[i] ELSE Number(id[p], i > k)
      <4> SUFFICES ASSUME NEW i \in 1..device.cells
                   PROVE  data'[i] = IF i > pos[p] THEN before[i]
                                     ELSE Number(id[p], i > k)
        OBVIOUS
      <4>1. CASE i = pos[p]
        <5>1. (i > k) = TRUE /\ (at[p] = "zero") = TRUE
          BY <1>2, <2>1, <2>2, <4>1
        <5>2. data'[i] = Number(id[p], TRUE)
          BY <1>1, <4>1, <5>1
        <5>3. ~(i > pos[p])
          BY <1>2, <4>1
        <5>4. Number(id[p], i > k) = Number(id[p], TRUE)
          BY <5>1
        <5>5. QED
          BY <5>2, <5>3, <5>4
      <4>2. CASE i # pos[p]
        BY <1>1, <1>2, <2>1, <4>2, DeviceFacts DEF TypeOK
      <4>3. QED
        BY <4>1, <4>2
    <3>2. k \in 0..pos[p] /\ k # pos[p]
      BY <1>2, <2>1
    <3>3. QED
      BY <2>2, <3>1, <3>2
  <2>3. CASE at[p] = "write"
    <3>1. \A i \in 1..device.cells :
            data'[i] = IF i > pos[p] THEN before[i]
                       ELSE Number(id[p], i > pos[p])
      <4> SUFFICES ASSUME NEW i \in 1..device.cells
                   PROVE  data'[i] = IF i > pos[p] THEN before[i]
                                     ELSE Number(id[p], i > pos[p])
        OBVIOUS
      <4>1. CASE i = pos[p]
        <5>1. (i > pos[p]) = FALSE /\ (at[p] = "zero") = FALSE
          BY <1>2, <2>3, <4>1
        <5>2. data'[i] = Number(id[p], FALSE)
          BY <1>1, <4>1, <5>1
        <5>3. QED
          BY <4>1, <5>1, <5>2
      <4>2. CASE i > pos[p]
        BY <1>1, <1>2, <2>1, <4>2, DeviceFacts DEF TypeOK
      <4>3. CASE i < pos[p]
        <5>1. (i > pos[p]) = FALSE /\ (i > k) = FALSE /\ i \in Int
          BY <1>2, <2>1, <2>3, <4>3
        <5>2. data'[i] = Number(id[p], FALSE)
          BY <1>1, <1>2, <2>1, <4>3, <5>1
        <5>3. QED
          BY <5>1, <5>2
      <4>4. QED
        BY <1>2, <4>1, <4>2, <4>3, DeviceFacts DEF TypeOK
    <3>2. pos[p] \in 0..pos[p]
      BY <1>2
    <3>3. QED
      BY <2>3, <3>1, <3>2
  <2>4. QED
    BY <1>2, <2>2, <2>3
<1>5. ASSUME ~OneCell PROVE WriteInv(p)'
  <2>1. PICK k \in 0..pos[p] :
          /\ (k = pos[p]) <=> (at[p] = "write")
          /\ \A i \in 1..device.cells :
               data'[i] = IF i > pos[p] THEN before[i]
                          ELSE Number(id[p], i > k)
    BY <1>4, <1>5
  <2>2. k \in 0..(pos'[p] - 1) /\ (at[p] = "write" => k = pos'[p] - 1)
    BY <1>1, <1>2, <2>1
  <2>3. \A i \in 1..device.cells : (i > pos[p]) <=> ~(i < pos'[p])
    BY <1>1, <1>2, DeviceFacts DEF TypeOK
  <2>4. \A i \in 1..device.cells :
          data'[i] = IF i < pos'[p] THEN Number(id[p], i > k) ELSE before[i]
    BY <2>1, <2>3, Zenon
  <2>5. QED
    BY <1>2, <2>2, <2>4 DEF WriteInv
<1>6. QED
  BY <1>1, <1>2, <1>3, <1>4, <1>5, MoveIntact

LEMMA WriteFaultIntact ==
  ASSUME Inv, Inv', IntactInv, Intact, Intact', NEW p \in Processes,
         WriteFault(p)
  PROVE  IntactInv'
<1>1. /\ at[p] = "write" /\ TypeOK /\ at' = [at EXCEPT ![p] = "zero"]
      /\ UNCHANGED <<device, data, id, pos, len, reg, buf, result, op, past,
                     before, spilled>>
  BY DEF WriteFault, Inv
<1>2. at'[p] = "zero" /\ Move(p)
  BY <1>1, WriteFaultInv DEF TypeOK
<1>3. ReadInv(p)' /\ MultiplyInv(p)'
  BY <1>2 DEF ReadInv, MultiplyInv
<1>4. ~OneCell => WriteInv(p)'
  BY <1>1, <1>2 DEF IntactInv, WriteInv
<1>5. QED
  BY <1>1, <1>2, <1>3, <1>4, MoveIntact

LEMMA StopIntact ==
  ASSUME Inv, Inv', IntactInv, Intact, Intact', NEW p \in Processes, Move(p),
         data' = data, at'[p] = "idle"
  PROVE  IntactInv'
<1>1. ReadInv(p)' /\ WriteInv(p)' /\ MultiplyInv(p)'
  BY DEF ReadInv, WriteInv, MultiplyInv
<1>2. QED
  BY <1>1, MoveIntact

LEMMA LoadCellIntact ==
  ASSUME Inv, Inv', IntactInv, Intact, Intact', NEW p \in Processes,
         LoadCell(p)
  PROVE  IntactInv'
<1>1. /\ at[p] = "load" /\ TypeOK /\ at' = [at EXCEPT ![p] = "store"]
      /\ reg' = [reg EXCEPT ![p] = data[pos[p]]]
      /\ UNCHANGED <<device, data, id, pos, len, buf, result, op, past, before,
                     spilled>>
  BY DEF LoadCell, Inv
<1>2. at'[p] = "store" /\ reg'[p] = data[pos[p]] /\ Move(p)
  BY <1>1, LoadCellInv DEF TypeOK
<1>3. ReadInv(p)' /\ WriteInv(p)'
  BY <1>2 DEF ReadInv, WriteInv
<1>4. ~OneCell => MultiplyInv(p)'
  BY <1>1, <1>2 DEF IntactInv, MultiplyInv
<1>5. QED
  BY <1>1, <1>2, <1>3, <1>4, MoveIntact

(* There is more than one cell, or the cells are never multiplied.         *)
LEMMA StoreCellIntact ==
  ASSUME Inv, Inv', IntactInv, Intact, Intact', NEW p \in Processes,
         StoreCell(p)
  PROVE  /\ IntactInv' /\ ~OneCell
         /\ \A i \in 1..device.cells :
              data'[i] = IF i > pos[p] THEN before[i]
                         ELSE Multiplied(before[i], id[p])
<1>1. /\ Move(p) /\ TypeOK /\ at[p] = "store"
      /\ \A i \in 1..device.cells :
           data'[i] = IF i = pos[p] THEN Multiplied(reg[p], id[p])
                      ELSE data[i]
      /\ at'[p] = IF pos[p] = len[p] THEN "idle" ELSE "load"
      /\ pos'[p] = pos[p] + 1
  BY StoreCellMove DEF Inv, StoreCell
<1>2. /\ at'[p] \in {"idle", "load"}
      /\ pos[p] \in 1..device.cells
      /\ id' = id /\ device' = device /\ before' = before
  BY <1>1, InsideCells DEF Move
<1>3. ~OneCell
  BY <1>1, AloneFacts DEF OneCellInv
<1>4. /\ reg[p] = data[pos[p]]
      /\ \A i \in 1..device.cells :
           data[i] = IF i < pos[p] THEN Multiplied(before[i], id[p])
                     ELSE before[i]
  BY <1>1, <1>3 DEF IntactInv, MultiplyInv
<1>5. reg[p] = before[pos[p]]
  BY <1>2, <1>4, DeviceFacts, <1>1 DEF TypeOK
<1>6. \A i \in 1..device.cells :
        data'[i] = IF i > pos[p] THEN before[i]
                   ELSE Multiplied(before[i], id[p])
  <2> SUFFICES ASSUME NEW i \in 1..device.cells
               PROVE  data'[i] = IF i > pos[p] THEN before[i]
                                 ELSE Multiplied(before[i], id[p])
    OBVIOUS
  <2>1. i \in Int /\ pos[p] \in Int
    BY <1>2
  <2>2. CASE i = pos[p]
    BY <1>1, <1>5, <2>1, <2>2
  <2>3. CASE i # pos[p]
    BY <1>1, <1>4, <2>1, <2>3
  <2>4. QED
    BY <2>2, <2>3
<1>7. ReadInv(p)' /\ WriteInv(p)'
  BY <1>2 DEF ReadInv, WriteInv
<1>8. MultiplyInv(p)'
  <2>1. \A i \in 1..device.cells : (i > pos[p]) <=> ~(i < pos'[p])
    BY <1>1, <1>2, DeviceFacts
  <2>2. \A i \in 1..device.cells :
          data'[i] = IF i < pos'[p] THEN Multiplied(before[i], id[p])
                     ELSE before[i]
    BY <1>6, <2>1, Zenon
  <2>3. QED
    BY <1>2, <2>2 DEF MultiplyInv
<1>9. QED
  BY <1>1, <1>2, <1>3, <1>6, <1>7, <1>8, MoveIntact

(* What the abstract data are.                                             *)
SettledInv ==
  /\ ~Intact => Settled = <<>>
  /\ Intact /\ (OneCell \/ \A p \in Processes : at[p] \in {"idle", "read"})
       => Settled = data
  /\ Intact /\ ~OneCell => \A p \in Processes :
       at[p] \notin {"idle", "read"} => Settled = before

LEMMA SettledFacts == SettledInv
BY DEF SettledInv, Settled

LEMMA SettledNext == SettledInv'
BY SettledFacts, PTL

-----------------------------------------------------------------------------
(* Every step is a step of AtomicData or a stutter.                        *)
LEMMA ReportedFacts ==
  ASSUME Inv, Intact, Intact', NEW p \in Processes
  PROVE  /\ result' = result => Reported' = Reported
         /\ \A r : result' = [result EXCEPT ![p] = r] =>
                    Reported' = [Reported EXCEPT ![p] = r]
BY DEF Reported, Inv, TypeOK

LEMMA SettledSame ==
  ASSUME Intact, Intact', device' = device, data' = data, before' = before,
         \A q \in Processes :
           at'[q] \in {"idle", "read"} <=> at[q] \in {"idle", "read"}
  PROVE  Settled' = Settled
<1>1. OneCell' <=> OneCell
  BY DEF OneCell
<1>2. (\E q \in Processes : at'[q] \notin {"idle", "read"}) <=>
      (\E q \in Processes : at[q] \notin {"idle", "read"})
  OBVIOUS
<1>3. QED
  BY <1>1, <1>2 DEF Settled

LEMMA Stutters ==
  ASSUME Inv, Intact, Intact', NEW p \in Processes,
         result' = result, Settled' = Settled
  PROVE  UNCHANGED Atomic!vars
<1>1. Reported' = Reported
  BY ReportedFacts
<1>2. Intact' = Intact
  OBVIOUS
<1>3. QED
  BY <1>1, <1>2 DEF Atomic!vars

LEMMA BeginRefines ==
  ASSUME Inv, Inv', IntactInv, Intact, Intact', NEW p \in Processes, Begin(p)
  PROVE  UNCHANGED Atomic!vars
<1>1. PICK c \in Commands, o \in device.ops : Starts(p, c, o)
  BY DEF Begin, Starts
<1>2. Started(p, c, o)
  BY <1>1, BeginFacts DEF Inv
<1>3. Settled' = Settled
  <2>1. CASE o = "read"
    <3>1. /\ at'[p] = "read" /\ at[p] = "idle" /\ before' = before
          /\ device' = device /\ data' = data
          /\ \A q \in Processes \ {p} : at'[q] = at[q]
      BY <1>2, <2>1 DEF Started
    <3>2. \A q \in Processes :
            at'[q] \in {"idle", "read"} <=> at[q] \in {"idle", "read"}
      BY <3>1
    <3>3. QED
      BY <3>1, <3>2, SettledSame
  <2>2. CASE o # "read"
    <3>1. /\ at'[p] \notin {"idle", "read"} /\ at[p] = "idle"
          /\ before' = data /\ device' = device /\ data' = data
          /\ \A q \in Processes \ {p} : at'[q] = at[q]
      BY <1>2, <2>2 DEF Started
    <3>2. OneCell' <=> OneCell
      BY <3>1 DEF OneCell
    <3>3. CASE OneCell
      BY <3>1, <3>2, <3>3, SettledFacts, SettledNext DEF SettledInv
    <3>4. CASE ~OneCell
      <4>1. \A q \in Processes \ {p} : at'[q] = "idle"
        BY <3>1, <3>2, <3>4, AloneNext DEF ExclusiveInv
      <4>2. \A q \in Processes : at[q] \in {"idle", "read"}
        BY <3>1, <4>1
      <4>3. Settled = data
        BY <4>2, SettledFacts DEF SettledInv
      <4>4. Settled' = before'
        BY <3>1, <3>2, <3>4, SettledNext DEF SettledInv
      <4>5. QED
        BY <3>1, <4>3, <4>4
    <3>5. QED
      BY <3>3, <3>4
  <2>3. QED
    BY <2>1, <2>2
<1>4. result' = result
  BY <1>2 DEF Started
<1>5. QED
  BY <1>3, <1>4, Stutters

(* The step that ends a command without effect.                            *)
LEMMA NothingRefines ==
  ASSUME Inv, Intact, Intact', NEW p \in Processes,
         NEW r \in {"ok", "error"},
         result' = [result EXCEPT ![p] = Outcome(r)], Settled' = Settled
  PROVE  Atomic!Next
<1>1. Reported' = [Reported EXCEPT ![p] = Outcome(r)]
  BY ReportedFacts
<1>2. Atomic!Outcome(r) = Outcome(r)
  BY DEF Atomic!Outcome, Outcome
<1>3. Atomic!Nothing(p)
  BY <1>1, <1>2 DEF Atomic!Nothing, Atomic!Answer
<1>4. Intact' = Intact
  OBVIOUS
<1>5. QED
  BY <1>3, <1>4 DEF Atomic!Command, Atomic!Next

LEMMA ReadFaultRefines ==
  ASSUME Inv, Intact, Intact', NEW p \in Processes, ReadFault(p)
  PROVE  Atomic!Next
<1>1. PICK r \in {"ok", "error"} : Stop(p, Outcome(r))
  BY FaultOutcomeFacts DEF ReadFault
<1>2. /\ at[p] = "read" /\ at' = [at EXCEPT ![p] = "idle"]
      /\ result' = [result EXCEPT ![p] = Outcome(r)]
      /\ UNCHANGED <<device, data, before>>
  BY <1>1 DEF ReadFault, Stop
<1>3. \A q \in Processes :
        at'[q] \in {"idle", "read"} <=> at[q] \in {"idle", "read"}
  BY <1>2 DEF Inv, TypeOK
<1>4. Settled' = Settled
  BY <1>2, <1>3, SettledSame
<1>5. QED
  BY <1>2, <1>4, NothingRefines

(* A write or a multiplication that ends before its first cell.            *)
LEMMA SameCells ==
  ASSUME Inv, \A i \in 1..device.cells : data[i] = before[i]
  PROVE  data = before
<1>1. /\ data \in [1..device.cells -> Numbers]
      /\ before \in [1..device.cells -> Numbers]
  BY DEF Inv, TypeOK
<1>2. /\ data = [i \in 1..device.cells |-> data[i]]
      /\ before = [i \in 1..device.cells |-> before[i]]
  BY <1>1
<1>3. QED
  BY <1>2

LEMMA NothingChanged ==
  ASSUME Inv, Inv', Intact, Intact', NEW p \in Processes,
         at[p] \notin {"idle", "read"}, at'[p] = "idle",
         \A q \in Processes \ {p} : at'[q] = at[q],
         device' = device, data' = data, data = before
  PROVE  Settled' = Settled
<1>1. OneCell' <=> OneCell
  BY DEF OneCell
<1>2. CASE OneCell
  BY <1>1, <1>2, SettledFacts, SettledNext DEF SettledInv
<1>3. CASE ~OneCell
  <2>1. \A q \in Processes : at'[q] \in {"idle", "read"}
    BY <1>3, AloneFacts DEF ExclusiveInv
  <2>2. Settled = before /\ Settled' = data'
    BY <1>1, <1>3, <2>1, SettledFacts, SettledNext DEF SettledInv
  <2>3. QED
    BY <2>2
<1>4. QED
  BY <1>2, <1>3

LEMMA WriteNothingRefines ==
  ASSUME Inv, Inv', IntactInv, Intact, Intact', NEW p \in Processes,
         WriteNothing(p)
  PROVE  Atomic!Next
<1>1. PICK r \in {"ok", "error"} : Stop(p, Outcome(r))
  BY DEF WriteNothing
<1>2. /\ at[p] = "write" /\ pos[p] = 1
      /\ at' = [at EXCEPT ![p] = "idle"]
      /\ result' = [result EXCEPT ![p] = Outcome(r)]
      /\ UNCHANGED <<device, data, before>>
  BY <1>1 DEF WriteNothing, Stop
<1>3. /\ at'[p] = "idle" /\ \A q \in Processes \ {p} : at'[q] = at[q]
  BY <1>2 DEF Inv, TypeOK
<1>4. Settled' = Settled
  <2>1. CASE OneCell
    <3>1. OneCell'
      BY <1>2, <2>1 DEF OneCell
    <3>2. QED
      BY <1>2, <2>1, <3>1, SettledFacts, SettledNext DEF SettledInv
  <2>2. CASE ~OneCell
    <3>1. \A i \in 1..device.cells : data[i] = before[i]
      BY <1>2, <2>2, DeviceFacts DEF IntactInv, WriteInv, Inv, TypeOK
    <3>2. data = before
      BY <3>1, SameCells
    <3>3. QED
      BY <1>2, <1>3, <3>2, NothingChanged
  <2>3. QED
    BY <2>1, <2>2
<1>5. QED
  BY <1>2, <1>4, NothingRefines

LEMMA MultiplyFaultRefines ==
  ASSUME Inv, Inv', IntactInv, Intact, Intact', NEW p \in Processes,
         MultiplyFault(p)
  PROVE  Atomic!Next
<1>1. /\ at[p] = "load" /\ pos[p] = 1
      /\ at' = [at EXCEPT ![p] = "idle"]
      /\ result' = [result EXCEPT ![p] = Outcome("error")]
      /\ UNCHANGED <<device, data, before>>
  BY DEF MultiplyFault
<1>2. /\ at'[p] = "idle" /\ \A q \in Processes \ {p} : at'[q] = at[q]
  BY <1>1 DEF Inv, TypeOK
<1>3. ~OneCell
  BY <1>1, AloneFacts DEF OneCellInv
<1>4. \A i \in 1..device.cells : data[i] = before[i]
  <2>1. MultiplyInv(p)
    BY <1>3 DEF IntactInv
  <2>2. \A i \in 1..device.cells : ~(i < 1)
    BY DeviceFacts DEF Inv, TypeOK
  <2>3. QED
    BY <1>1, <2>1, <2>2 DEF MultiplyInv
<1>5. data = before
  BY <1>4, SameCells
<1>6. Settled' = Settled
  BY <1>1, <1>2, <1>5, NothingChanged
<1>7. QED
  BY <1>1, <1>6, NothingRefines

LEMMA ReadCellRefines ==
  ASSUME Inv, Inv', IntactInv, Intact, Intact', NEW p \in Processes,
         ReadCell(p)
  PROVE  [Atomic!Next]_(Atomic!vars)
<1>1. /\ at[p] = "read" /\ data' = data
      /\ GoOn(p, "read", <<"ok", buf'[p]>>)
  BY DEF ReadCell
<1>2. /\ UNCHANGED <<device, data, before>>
      /\ at' = [at EXCEPT ![p] = IF pos[p] = len[p] THEN "idle" ELSE "read"]
      /\ result' = IF pos[p] = len[p]
                   THEN [result EXCEPT ![p] = <<"ok", buf'[p]>>] ELSE result
  BY <1>1 DEF GoOn
<1>3. \A q \in Processes :
        at'[q] \in {"idle", "read"} <=> at[q] \in {"idle", "read"}
  BY <1>1, <1>2 DEF Inv, TypeOK
<1>4. Settled' = Settled
  BY <1>2, <1>3, SettledSame
<1>5. CASE pos[p] # len[p]
  BY <1>2, <1>4, <1>5, Stutters
<1>6. CASE pos[p] = len[p]
  <2>1. len[p] = device.cells
    BY <1>1 DEF Inv, CommandInv, OpOf
  <2>2. /\ buf'[p] \in [1..device.cells -> Numbers]
        /\ data \in [1..device.cells -> Numbers]
    BY <1>2 DEF Inv, TypeOK
  <2>3. \A j \in 1..device.cells : buf'[p][j] = data[j]
    BY <1>6, <2>1, ReadCellIntact
  <2>4. buf'[p] = data
    <3>1. /\ buf'[p] = [i \in 1..device.cells |-> buf'[p][i]]
          /\ data = [i \in 1..device.cells |-> data[i]]
      BY <2>2
    <3>2. QED
      BY <2>3, <3>1
  <2>5. Settled = data
    <3>1. \A q \in Processes : ~OneCell => at[q] \in {"idle", "read"}
      BY <1>1, AloneFacts DEF ExclusiveInv
    <3>2. QED
      BY <3>1, SettledFacts DEF SettledInv
  <2>6. Reported' = [Reported EXCEPT ![p] = <<"ok", data>>]
    BY <1>2, <1>6, <2>4, ReportedFacts
  <2>7. Atomic!Read(p)
    BY <1>4, <2>5, <2>6 DEF Atomic!Read, Atomic!Answer
  <2>8. Intact' = Intact
    OBVIOUS
  <2>9. QED
    BY <2>7, <2>8 DEF Atomic!Command, Atomic!Next
<1>7. QED
  BY <1>5, <1>6

(* A command that changes the data and goes on has changed nothing yet.    *)
LEMMA NotYet ==
  ASSUME Inv, Inv', Intact, Intact', NEW p \in Processes, ~OneCell,
         at[p] \notin {"idle", "read"}, at'[p] \notin {"idle", "read"},
         device' = device, before' = before
  PROVE  Settled' = Settled
<1>1. ~OneCell'
  BY DEF OneCell
<1>2. QED
  BY <1>1, SettledFacts, SettledNext DEF SettledInv

(* With its end it has changed the data.                                   *)
LEMMA AtLast ==
  ASSUME Inv, Inv', Intact, Intact', NEW p \in Processes,
         at[p] \notin {"idle", "read"}, at'[p] = "idle",
         \A q \in Processes \ {p} : at'[q] = at[q], device' = device
  PROVE  /\ Settled' = data'
         /\ Settled = IF OneCell THEN data ELSE before
<1>1. OneCell' <=> OneCell
  BY DEF OneCell
<1>2. CASE OneCell
  BY <1>1, <1>2, SettledFacts, SettledNext DEF SettledInv
<1>3. CASE ~OneCell
  <2>1. \A q \in Processes : at'[q] \in {"idle", "read"}
    BY <1>3, AloneFacts DEF ExclusiveInv
  <2>2. QED
    BY <1>1, <1>3, <2>1, SettledFacts, SettledNext DEF SettledInv
<1>4. QED
  BY <1>2, <1>3

LEMMA WriteFaultRefines ==
  ASSUME Inv, Inv', Intact, Intact', NEW p \in Processes, WriteFault(p)
  PROVE  UNCHANGED Atomic!vars
<1>1. /\ at[p] = "write" /\ at' = [at EXCEPT ![p] = "zero"]
      /\ UNCHANGED <<device, data, before, result>>
  BY DEF WriteFault
<1>2. \A q \in Processes :
        at'[q] \in {"idle", "read"} <=> at[q] \in {"idle", "read"}
  BY <1>1 DEF Inv, TypeOK
<1>3. QED
  BY <1>1, <1>2, SettledSame, Stutters

LEMMA LoadCellRefines ==
  ASSUME Inv, Inv', Intact, Intact', NEW p \in Processes, LoadCell(p)
  PROVE  UNCHANGED Atomic!vars
<1>1. /\ at[p] = "load" /\ at' = [at EXCEPT ![p] = "store"]
      /\ UNCHANGED <<device, data, before, result>>
  BY DEF LoadCell
<1>2. \A q \in Processes :
        at'[q] \in {"idle", "read"} <=> at[q] \in {"idle", "read"}
  BY <1>1 DEF Inv, TypeOK
<1>3. QED
  BY <1>1, <1>2, SettledSame, Stutters

LEMMA StoreCellRefines ==
  ASSUME Inv, Inv', IntactInv, Intact, Intact', NEW p \in Processes,
         StoreCell(p)
  PROVE  [Atomic!Next]_(Atomic!vars)
<1>1. PICK r \in {"ok", "error"} : GoOn(p, "load", Outcome(r))
  BY DEF StoreCell
<1>2. /\ UNCHANGED <<device, id, before>>
      /\ at[p] = "store"
      /\ at' = [at EXCEPT ![p] = IF pos[p] = len[p] THEN "idle" ELSE "load"]
      /\ result' = IF pos[p] = len[p]
                   THEN [result EXCEPT ![p] = Outcome(r)] ELSE result
  BY <1>1 DEF GoOn, StoreCell
<1>3. /\ at'[p] = IF pos[p] = len[p] THEN "idle" ELSE "load"
      /\ \A q \in Processes \ {p} : at'[q] = at[q]
      /\ before \in [1..device.cells -> Numbers]
      /\ data' \in [1..device.cells -> Numbers]
  BY <1>2 DEF Inv, TypeOK
<1>4. /\ ~OneCell
      /\ \A i \in 1..device.cells :
           data'[i] = IF i > pos[p] THEN before[i]
                      ELSE Multiplied(before[i], id[p])
  BY StoreCellIntact
<1>5. CASE pos[p] # len[p]
  BY <1>2, <1>3, <1>4, <1>5, NotYet, Stutters
<1>6. CASE pos[p] = len[p]
  <2>1. Settled = before /\ Settled' = data'
    BY <1>2, <1>3, <1>4, <1>6, AtLast
  <2>2. len[p] = device.cells /\ id[p] \in Commands
    BY <1>2 DEF Inv, CommandInv, OpOf, Begun
  <2>3. \A i \in 1..device.cells : data'[i] = Multiplied(before[i], id[p])
    BY <1>4, <1>6, <2>2, DeviceFacts DEF Inv, TypeOK
  <2>4. data' = [i \in DOMAIN before |-> Multiplied(before[i], id[p])]
    BY <1>3, <2>3
  <2>5. \A n : Atomic!Multiplied(n, id[p]) = Multiplied(n, id[p])
    BY DEF Atomic!Multiplied, Multiplied
  <2>6. Settled' = [i \in DOMAIN Settled |-> Atomic!Multiplied(Settled[i], id[p])]
    BY <2>1, <2>4, <2>5
  <2>7. Reported' = [Reported EXCEPT ![p] = Atomic!Outcome(r)]
    BY <1>2, <1>6, ReportedFacts DEF Atomic!Outcome, Outcome
  <2>8. Atomic!Multiply(p, id[p])
    BY <2>6, <2>7 DEF Atomic!Multiply, Atomic!Answer
  <2>9. Intact' = Intact
    OBVIOUS
  <2>10. QED
    BY <2>2, <2>8, <2>9 DEF Atomic!Command, Atomic!Next
<1>7. QED
  BY <1>5, <1>6

LEMMA WriteCellRefines ==
  ASSUME Inv, Inv', IntactInv, Intact, Intact', NEW p \in Processes,
         WriteCell(p)
  PROVE  [Atomic!Next]_(Atomic!vars)
<1>1. /\ GoOn(p, at[p], WriteOutcome(p)) /\ at[p] \in {"write", "zero"}
      /\ pos[p] \in DOMAIN data
  BY DEF WriteCell
<1>2. /\ UNCHANGED <<device, id, before>>
      /\ at' = [at EXCEPT ![p] = IF pos[p] = len[p] THEN "idle" ELSE at[p]]
      /\ result' = IF pos[p] = len[p]
                   THEN [result EXCEPT ![p] = WriteOutcome(p)] ELSE result
  BY <1>1 DEF GoOn
<1>3. /\ at'[p] = IF pos[p] = len[p] THEN "idle" ELSE at[p]
      /\ \A q \in Processes \ {p} : at'[q] = at[q]
      /\ before \in [1..device.cells -> Numbers]
      /\ data \in [1..device.cells -> Numbers]
      /\ data' \in [1..device.cells -> Numbers]
      /\ pos[p] \in 1..device.cells /\ device.cells \in Nat
  BY <1>1, <1>2, DeviceFacts DEF Inv, TypeOK
<1>4. PICK r \in {"ok", "error"} :
        WriteOutcome(p) = Outcome(r) /\ (at[p] = "write" => r = "ok")
  BY <1>1, FaultOutcomeFacts DEF WriteOutcome
<1>5. CASE pos[p] # len[p]
  <2>1. ~OneCell
    BY <1>1, <1>5, AloneFacts DEF OneCellInv
  <2>2. at[p] \notin {"idle", "read"} /\ at'[p] \notin {"idle", "read"}
    BY <1>1, <1>3, <1>5
  <2>3. QED
    BY <1>2, <1>5, <2>1, <2>2, NotYet, Stutters
<1>6. CASE pos[p] = len[p]
  <2>1. Settled' = data' /\ Settled = IF OneCell THEN data ELSE before
    BY <1>1, <1>2, <1>3, <1>6, AtLast
  <2>2. DOMAIN Settled = 1..device.cells
    BY <1>3, <2>1
  <2>3. PICK k \in 0..pos[p] :
          /\ (k = pos[p]) <=> (at[p] = "write")
          /\ \A i \in 1..device.cells :
               data'[i] = IF i > pos[p] THEN Settled[i]
                          ELSE Number(id[p], i > k)
    <3>1. CASE OneCell
      <4>1. device.cells = 1 /\ pos[p] = 1
        BY <1>1, <3>1, AloneFacts DEF OneCellInv
      <4>2. data'[1] = Number(id[p], at[p] = "zero")
        BY <1>3, <4>1, WriteCellMove
      <4>3. \A i \in 1..device.cells : i = 1
        BY <4>1
      <4>4. CASE at[p] = "zero"
        <5>1. (1 > 0) = TRUE /\ (at[p] = "zero") = TRUE
          BY <4>4
        <5>2. data'[1] = Number(id[p], 1 > 0)
          BY <4>2, <5>1
        <5>3. \A i \in 1..device.cells :
                data'[i] = IF i > pos[p] THEN Settled[i]
                           ELSE Number(id[p], i > 0)
          BY <4>1, <4>3, <5>2
        <5>4. 0 \in 0..pos[p] /\ 0 # pos[p] /\ at[p] # "write"
          BY <4>1, <4>4
        <5>5. QED
          BY <5>3, <5>4
      <4>5. CASE at[p] = "write"
        <5>1. (1 > 1) = FALSE /\ (at[p] = "zero") = FALSE
          BY <4>5
        <5>2. data'[1] = Number(id[p], 1 > 1)
          BY <4>2, <5>1
        <5>3. \A i \in 1..device.cells :
                data'[i] = IF i > pos[p] THEN Settled[i]
                           ELSE Number(id[p], i > 1)
          BY <4>1, <4>3, <5>2
        <5>4. 1 \in 0..pos[p] /\ 1 = pos[p]
          BY <4>1
        <5>5. QED
          BY <4>5, <5>3, <5>4
      <4>6. QED
        BY <1>1, <4>4, <4>5
    <3>2. CASE ~OneCell
      BY <2>1, <3>2, WriteCellIntact
    <3>3. QED
      BY <3>1, <3>2
  <2>4. /\ len[p] \in DOMAIN Settled /\ k \in 0..len[p]
        /\ (k = len[p] => r = "ok")
    BY <1>3, <1>4, <1>6, <2>2, <2>3
  <2>5. \A n, z : Atomic!Number(n, z) = Number(n, z)
    BY DEF Atomic!Number, Number
  <2>6. data' = [i \in DOMAIN Settled |->
                  IF i > len[p] THEN Settled[i]
                  ELSE Atomic!Number(id[p], i > k)]
    <3>1. \A i \in 1..device.cells :
            data'[i] = IF i > len[p] THEN Settled[i]
                       ELSE Atomic!Number(id[p], i > k)
      BY <1>6, <2>3, <2>5, Zenon
    <3>2. QED
      BY <1>3, <2>2, <3>1
  <2>7. Reported' = [Reported EXCEPT ![p] = Atomic!Outcome(r)]
    BY <1>2, <1>4, <1>6, ReportedFacts DEF Atomic!Outcome, Outcome
  <2>8. Atomic!Write(p, id[p])
    BY <2>1, <2>4, <2>6, <2>7 DEF Atomic!Write, Atomic!Answer
  <2>9. id[p] \in Commands
    BY WriteCellMove
  <2>10. Intact' = Intact
    OBVIOUS
  <2>11. QED
    BY <2>8, <2>9, <2>10 DEF Atomic!Command, Atomic!Next
<1>7. QED
  BY <1>5, <1>6

(* From there on nothing is promised.                                      *)
LEMMA WritePastBreaks ==
  ASSUME NEW p \in Processes, WritePast(p)
  PROVE  ~Intact'
BY DEF WritePast, Intact

LEMMA IntactBoolean == Intact \in BOOLEAN
BY DEF Intact

LEMMA IntactBooleanNext == (Intact \in BOOLEAN)'
BY IntactBoolean, PTL

LEMMA InitRefines ==
  ASSUME Init
  PROVE  Atomic!Init /\ IntactInv
<1>1. Inv
  BY InitInv
<1>2. Begun = {} /\ \A p \in Processes : at[p] = "idle"
  BY DEF Init, Begun
<1>3. Intact
  BY <1>2 DEF Init, Intact
<1>4. Settled = data
  BY <1>2, <1>3, SettledFacts DEF SettledInv
<1>5. /\ DOMAIN data = 1..device.cells /\ 1 \in 1..device.cells
      /\ data = [i \in 1..device.cells |-> Number(0, FALSE)]
  BY <1>1, DeviceFacts DEF Inv, TypeOK, Init, Blank
<1>6. Reported = [p \in Processes |-> Outcome("none")]
  BY DEF Init, Reported
<1>7. Atomic!Number(0, FALSE) = Number(0, FALSE)
      /\ Atomic!Outcome("none") = Outcome("none")
  BY DEF Atomic!Number, Number, Atomic!Outcome, Outcome
<1>8. Atomic!Init
  BY <1>3, <1>4, <1>5, <1>6, <1>7 DEF Atomic!Init
<1>9. IntactInv
  BY <1>2 DEF IntactInv, ReadInv, WriteInv, MultiplyInv
<1>10. QED
  BY <1>8, <1>9

LEMMA IntactStep ==
  ASSUME Inv, Inv', IntactInv, NEW p \in Processes, Process(p), Intact, Intact'
  PROVE  IntactInv'
<1>1. CASE ReadFault(p) \/ WriteNothing(p) \/ MultiplyFault(p)
  <2>1. data' = data /\ at'[p] = "idle"
    BY <1>1 DEF ReadFault, WriteNothing, MultiplyFault, Stop, Inv, TypeOK
  <2>2. Move(p)
    BY <1>1, ReadFaultInv, WriteNothingInv, MultiplyFaultInv
  <2>3. QED
    BY <2>1, <2>2, StopIntact
<1>2. QED
  BY <1>1, BeginIntact, ReadCellIntact, WriteCellIntact, WritePastBreaks,
     WriteFaultIntact, LoadCellIntact, StoreCellIntact DEF Process

LEMMA StepRefines ==
  ASSUME Inv, Inv', IntactInv, NEW p \in Processes, Process(p)
  PROVE  IntactInv' /\ [Atomic!Next]_(Atomic!vars)
<1>1. Intact' => Intact
  BY ProcessInv, IntactBefore
<1>2. CASE Intact'
  <2>1. IntactInv'
    BY <1>1, <1>2, IntactStep
  <2>2. [Atomic!Next]_(Atomic!vars)
    BY <1>1, <1>2, BeginRefines, ReadCellRefines, ReadFaultRefines,
       WriteCellRefines, WritePastBreaks, WriteFaultRefines,
       WriteNothingRefines,
       LoadCellRefines, StoreCellRefines, MultiplyFaultRefines DEF Process
  <2>3. QED
    BY <2>1, <2>2
<1>3. CASE ~Intact'
  <2>1. Settled' = <<>>
    BY <1>3, SettledNext DEF SettledInv
  <2>2. Reported' = [q \in Processes |-> Outcome("none")]
    BY <1>3 DEF Reported
  <2>3. CASE Intact
    <3>1. Atomic!Break
      BY <1>3, <2>1, <2>2, <2>3
         DEF Atomic!Break, Atomic!Outcome, Outcome
    <3>2. QED
      BY <1>3, <3>1 DEF Atomic!Next, IntactInv
  <2>4. CASE ~Intact
    <3>1. Settled = <<>> /\ Reported = [q \in Processes |-> Outcome("none")]
      BY <2>4, SettledFacts DEF SettledInv, Reported
    <3>2. Intact' = Intact
      BY <1>3, <2>4, IntactBoolean, IntactBooleanNext
    <3>3. UNCHANGED Atomic!vars
      BY <2>1, <2>2, <3>1, <3>2, Zenon DEF Atomic!vars
    <3>4. QED
      BY <1>3, <3>3 DEF IntactInv
  <2>5. QED
    BY <2>3, <2>4
<1>4. QED
  BY <1>2, <1>3

LEMMA StutterRefines ==
  ASSUME UNCHANGED vars, IntactInv
  PROVE  IntactInv' /\ UNCHANGED Atomic!vars
<1>1. UNCHANGED <<device, data, at, id, pos, len, reg, buf, result, op, past,
                  before, spilled>>
  BY DEF vars
<1>2. (OneCell' <=> OneCell) /\ (Intact' <=> Intact)
  BY <1>1 DEF OneCell, Intact, Begun, Overlap
<1>3. IntactInv'
  BY <1>1, <1>2 DEF IntactInv, ReadInv, WriteInv, MultiplyInv
<1>4. Intact' = Intact
  BY <1>2, IntactBoolean, IntactBooleanNext
<1>5. Settled' = Settled /\ Reported' = Reported
  BY <1>1, <1>2 DEF Settled, Reported
<1>6. QED
  BY <1>3, <1>4, <1>5, Zenon DEF Atomic!vars

(* The commands of lessons 5, 6, 7 and 9 take place in one step each, as   *)
(* long as no command overlaps one that changes the data and no write has  *)
(* gone on behind the last cell; those on one cell that nobody multiplies  *)
(* or writes too much of always do.                                        *)
THEOREM SharedDataImplements == Spec => Implements
<1>1. Init => Atomic!Init /\ IntactInv
  BY InitRefines
<1>2. Inv /\ Inv' /\ IntactInv /\ [Next]_vars =>
        IntactInv' /\ [Atomic!Next]_(Atomic!vars)
  BY StepRefines, StutterRefines DEF Next
<1>3. QED
  BY <1>1, <1>2, SpecInv, PTL DEF Spec, Implements, Atomic!Spec
=============================================================================
