------------------------------ MODULE SharedData ------------------------------
(***************************************************************************)
(* The data of lessons 5, 6, 7 and 9, which several processes read, write  *)
(* and multiply without a lock: k_buffer (005), arr of device_ioctl (006), *)
(* value and str (007) and sysfs_value (009).                              *)
(*                                                                         *)
(* Commands work cell by cell.  A number is known by the write it comes    *)
(* from and by the multiplications it has been through; a command by its   *)
(* place in the order in which commands begin.                             *)
(***************************************************************************)
EXTENDS Integers

CONSTANTS
  Processes,
  MaxCommands, \* bound: how many commands are begun
  Devices      \* the records of the data, see MCSharedData

(* How many cells the data have; what the commands are; how many cells a   *)
(* write may ask for: all of them, at most all, or any number, because     *)
(* nobody looks at it; whether the driver fetches it into a buffer of its  *)
(* own first; which commands do not report a bad address.                  *)
DeviceRecords ==
  [cells : Nat \ {0}, ops : SUBSET {"read", "write", "multiply"},
   length : {"all", "limited", "any"}, own : BOOLEAN,
   silent : SUBSET {"read", "write"}]

ASSUME MaxCommandsAssumption == MaxCommands \in Nat
ASSUME DevicesAssumption == Devices \subseteq DeviceRecords

Commands == 1..MaxCommands

VARIABLES
  device,    \* the data that are looked at
  data,      \* the cells
  at,        \* at[p]: "idle", or what p's command does next
  id,        \* id[p]: p's last command
  pos, len,  \* pos[p], len[p]: the cell it is at, the last one it deals with
  reg,       \* reg[p]: its copy of the cell it is about to multiply
  buf,       \* buf[p]: what it has read
  result,    \* result[p]: what it has brought
  op,        \* history: op[c]: what command c does; "none" if it has not
             \* begun, "refused" if it could not fetch its factor
  past,      \* history: past[c]: the commands that had returned by then
  before,    \* history: the data when the last write or multiplication began
  spilled    \* history: a write has gone on behind the last cell

vars == <<device, data, at, id, pos, len, reg, buf, result, op, past, before,
          spilled>>

Number(c, zero) == [by |-> c, zero |-> zero, times |-> {}]
Multiplied(n, c) == [n EXCEPT !.times = @ \cup {c}]

(* How a command has ended, and for a read what it has brought.            *)
Outcome(r) == <<r, <<>>>>

Blank == [i \in 1..device.cells |-> Number(0, FALSE)]

Init ==
  /\ device \in Devices
  /\ data = Blank
  /\ at = [p \in Processes |-> "idle"]
  /\ id = [p \in Processes |-> 0]
  /\ pos = [p \in Processes |-> 1]
  /\ len = [p \in Processes |-> 1]
  /\ reg = [p \in Processes |-> Number(0, FALSE)]
  /\ buf = [p \in Processes |-> Blank]
  /\ result = [p \in Processes |-> Outcome("none")]
  /\ op = [c \in Commands |-> "none"]
  /\ past = [c \in Commands |-> {}]
  /\ before = data
  /\ spilled = FALSE

Begun == {c \in Commands : op[c] # "none"}
Returned == {c \in Begun : \A p \in Processes : at[p] # "idle" => id[p] # c}

-----------------------------------------------------------------------------
(* How many cells command o deals with.  One cell too many stands for any  *)
(* number of them.                                                         *)
Lengths(o) ==
  CASE o = "write" /\ device.length = "any" -> 1..device.cells + 1
    [] o = "write" /\ device.length = "limited" -> 1..device.cells
    [] OTHER -> {device.cells}

(* A process calls a command with a buffer or a variable of its own.       *)
Begin(p) ==
  /\ at[p] = "idle"
  /\ \E c \in Commands, o \in device.ops :
       /\ c \notin Begun /\ 1..(c - 1) \subseteq Begun
       /\ id' = [id EXCEPT ![p] = c]
       /\ op' = [op EXCEPT ![c] = o]
       /\ past' = [past EXCEPT ![c] = Returned]
       /\ at' = [at EXCEPT ![p] = IF o = "multiply" THEN "load" ELSE o]
       /\ \E n \in Lengths(o) : len' = [len EXCEPT ![p] = n]
       /\ before' = IF o = "read" THEN before ELSE data
  /\ pos' = [pos EXCEPT ![p] = 1]
  /\ reg' = [reg EXCEPT ![p] = Number(0, FALSE)]
  /\ buf' = [buf EXCEPT ![p] = Blank]
  /\ UNCHANGED <<device, data, result, spilled>>

(* On to the next cell, or back to the process.                            *)
GoOn(p, next, r) ==
  /\ pos' = [pos EXCEPT ![p] = @ + 1]
  /\ at' = [at EXCEPT ![p] = IF pos[p] = len[p] THEN "idle" ELSE next]
  /\ result' = IF pos[p] = len[p] THEN [result EXCEPT ![p] = r] ELSE result
  /\ UNCHANGED <<device, id, len, op, past, before>>

(* The command ends early.                                                 *)
Stop(p, r) ==
  /\ at' = [at EXCEPT ![p] = "idle"]
  /\ result' = [result EXCEPT ![p] = r]
  /\ UNCHANGED <<device, data, id, pos, len, reg, buf, op, past, before,
                 spilled>>

\* Mutant: the wrong end of the buffer.
ReadCell_M(p) ==
  /\ at[p] = "read"
  /\ buf' = [buf EXCEPT ![p][len[p]] = data[pos[p]]]
  /\ GoOn(p, "read", <<"ok", buf'[p]>>)
  /\ UNCHANGED <<data, reg, spilled>>

(* copy_to_user                                                            *)
ReadCell(p) ==
  /\ at[p] = "read"
  /\ buf' = [buf EXCEPT ![p][pos[p]] = data[pos[p]]]
  /\ GoOn(p, "read", <<"ok", buf'[p]>>)
  /\ UNCHANGED <<data, reg, spilled>>

(* WRITE_DATA of 007 and both calls of 005 go on as if there had been no   *)
(* bad address.                                                            *)
FaultOutcome(o) == Outcome(IF o \in device.silent THEN "ok" ELSE "error")

ReadFault(p) == at[p] = "read" /\ Stop(p, FaultOutcome("read"))

WriteOutcome(p) ==
  IF at[p] = "zero" THEN FaultOutcome("write") ELSE Outcome("ok")

\* Mutant: the last cell is not written.
WriteCell_M(p) ==
  /\ at[p] \in {"write", "zero"} /\ pos[p] \in DOMAIN data
  /\ data' = IF pos[p] = device.cells THEN data
             ELSE [data EXCEPT ![pos[p]] = Number(id[p], at[p] = "zero")]
  /\ GoOn(p, at[p], WriteOutcome(p))
  /\ UNCHANGED <<reg, buf, spilled>>

\* Mutant: the number is changed, not replaced.
WriteCell_M2(p) ==
  /\ at[p] \in {"write", "zero"} /\ pos[p] \in DOMAIN data
  /\ data' = [data EXCEPT ![pos[p]].by = id[p], ![pos[p]].zero = at[p] = "zero"]
  /\ GoOn(p, at[p], WriteOutcome(p))
  /\ UNCHANGED <<reg, buf, spilled>>

(* copy_from_user into the data itself; from where the argument cannot be  *)
(* read any more, it fills them with zeroes.                               *)
WriteCell(p) ==
  /\ at[p] \in {"write", "zero"} /\ pos[p] \in DOMAIN data
  /\ data' = [data EXCEPT ![pos[p]] = Number(id[p], at[p] = "zero")]
  /\ GoOn(p, at[p], WriteOutcome(p))
  /\ UNCHANGED <<reg, buf, spilled>>

(* Behind the last cell it goes on, into what is not the driver's: there   *)
(* is no saying what that does, and the model keeps to the cells.          *)
WritePast(p) ==
  /\ at[p] \in {"write", "zero"} /\ pos[p] \notin DOMAIN data
  /\ spilled' = TRUE
  /\ GoOn(p, at[p], WriteOutcome(p))
  /\ UNCHANGED <<data, reg, buf>>

WriteFault(p) ==
  /\ at[p] = "write" /\ ~device.own
  /\ at' = [at EXCEPT ![p] = "zero"]
  /\ UNCHANGED <<device, data, id, pos, len, reg, buf, result, op, past, before,
                 spilled>>

(* 009 fetches the text into a buffer first, and stores a number when it   *)
(* has found one; a text that is none is accepted without effect.          *)
WriteNothing(p) ==
  /\ at[p] = "write" /\ device.own /\ pos[p] = 1
  /\ \E r \in {"ok", "error"} : Stop(p, Outcome(r))

(* arr[i] *= n is a load and a store.                                      *)
LoadCell(p) ==
  /\ at[p] = "load"
  /\ reg' = [reg EXCEPT ![p] = data[pos[p]]]
  /\ at' = [at EXCEPT ![p] = "store"]
  /\ UNCHANGED <<device, data, id, pos, len, buf, result, op, past, before,
                 spilled>>

\* Mutant: a bad address for the result ends the loop.
StoreCell_M(p) ==
  /\ at[p] = "store"
  /\ data' = [data EXCEPT ![pos[p]] = Multiplied(reg[p], id[p])]
  /\ pos' = [pos EXCEPT ![p] = @ + 1]
  /\ at' = [at EXCEPT ![p] = "idle"]
  /\ result' = [result EXCEPT ![p] = Outcome("ok")]
  /\ UNCHANGED <<device, id, len, op, past, before, reg, buf, spilled>>

\* Mutant: one cell too many.
StoreCell_M2(p) ==
  /\ at[p] = "store"
  /\ data' = [data EXCEPT ![pos[p]] = Multiplied(reg[p], id[p])]
  /\ pos' = [pos EXCEPT ![p] = @ + 1]
  /\ at' = [at EXCEPT ![p] = IF pos[p] > len[p] THEN "idle" ELSE "load"]
  /\ result' = [result EXCEPT ![p] = Outcome("ok")]
  /\ UNCHANGED <<device, id, len, op, past, before, reg, buf, spilled>>

(* After the last cell the factor is sent back, which may fail.            *)
StoreCell(p) ==
  /\ at[p] = "store"
  /\ data' = [data EXCEPT ![pos[p]] = Multiplied(reg[p], id[p])]
  /\ \E r \in {"ok", "error"} : GoOn(p, "load", Outcome(r))
  /\ UNCHANGED <<reg, buf, spilled>>

(* The factor cannot be fetched.                                           *)
MultiplyFault(p) ==
  /\ at[p] = "load" /\ pos[p] = 1
  /\ at' = [at EXCEPT ![p] = "idle"]
  /\ result' = [result EXCEPT ![p] = Outcome("error")]
  /\ op' = [op EXCEPT ![id[p]] = "refused"]
  /\ UNCHANGED <<device, data, id, pos, len, reg, buf, past, before, spilled>>

-----------------------------------------------------------------------------
Process(p) ==
  \/ Begin(p)
  \/ ReadCell(p) \/ ReadFault(p)
  \/ WriteCell(p) \/ WritePast(p) \/ WriteFault(p) \/ WriteNothing(p)
  \/ LoadCell(p) \/ StoreCell(p) \/ MultiplyFault(p)

Next == \E p \in Processes : Process(p)

Spec == Init /\ [][Next]_vars

-----------------------------------------------------------------------------
Numbers ==
  [by : 0..MaxCommands, zero : BOOLEAN, times : SUBSET Commands]

(* Every variable has its type, and a command is at a cell it was asked    *)
(* for.  That the cell exists is another matter: a write whose length      *)
(* nobody checks is asked for more than there are; all others keep inside. *)
TypeOK ==
  /\ device \in Devices
  /\ data \in [1..device.cells -> Numbers]
  /\ at \in [Processes -> {"idle", "read", "write", "zero", "load", "store"}]
  /\ id \in [Processes -> 0..MaxCommands]
  /\ pos \in [Processes -> Nat] /\ len \in [Processes -> 1..device.cells + 1]
  /\ \A p \in Processes : at[p] # "idle" =>
       /\ pos[p] \in 1..len[p]
       /\ len[p] > device.cells =>
            device.length = "any" /\ at[p] \in {"write", "zero"}
  /\ reg \in [Processes -> Numbers]
  /\ buf \in [Processes -> [1..device.cells -> Numbers]]
  /\ op \in [Commands -> {"none", "refused"} \cup device.ops]
  /\ past \in [Commands -> SUBSET Commands]
  /\ before \in [1..device.cells -> Numbers]
  /\ spilled \in BOOLEAN
  /\ result \in [Processes -> {"none", "ok", "error"} \X
                             ({<<>>} \cup [1..device.cells -> Numbers])]

(* Two commands overlap if none had returned when the other one began.     *)
Overlap(c, d) == c # d /\ c \notin past[d] /\ d \notin past[c]

(* A write of all cells that no multiplication overlaps is final for what  *)
(* was written before it began: no process brings back an older number,    *)
(* in whatever order the cells were written.                               *)
Final(c) ==
  /\ c \in Returned /\ op[c] = "write"
  /\ device.length = "all" /\ ~device.own
  /\ \A d \in Begun : op[d] = "multiply" => ~Overlap(c, d)

NoOldNumber ==
  \A c \in Commands : Final(c) =>
    \A i \in DOMAIN data : data[i].by \notin past[c] \cup {0}

(* No number is multiplied by a command that had returned before the       *)
(* number was written, however commands overlap.                           *)
NoLateFactor ==
  \A i \in DOMAIN data :
    LET c == data[i].by
    IN  c # 0 => data[i].times \cap past[c] = {}

(* A multiplication that overlaps no other command is never lost: it has   *)
(* reached every cell, also if it could not report, and stays in every     *)
(* number that is not written later.                                       *)
NoFactorLost ==
  \A c \in Returned :
    op[c] = "multiply" /\ (\A d \in Begun : ~Overlap(c, d)) =>
      \A i \in DOMAIN data :
        \/ c \in data[i].times
        \/ data[i].by # 0 /\ data[i].by \notin past[c]

(* As long as no command overlaps one that changes the data, and for data  *)
(* of one cell that nobody multiplies in any case, commands take place in  *)
(* one step, until a write has gone on behind the last cell.               *)
OneCell ==
  device.cells = 1 /\ "multiply" \notin device.ops /\ device.length # "any"

Intact ==
  /\ ~spilled
  /\ OneCell \/ \A c, d \in Begun :
                  Overlap(c, d) => op[c] = "read" /\ op[d] = "read"

Settled ==
  CASE ~Intact -> <<>>
    [] Intact /\ ~OneCell /\ (\E p \in Processes : at[p] \notin {"idle", "read"})
         -> before
    [] OTHER -> data

Reported ==
  [p \in Processes |-> IF Intact THEN result[p] ELSE Outcome("none")]

Atomic ==
  INSTANCE AtomicData WITH
    intact <- Intact, data <- Settled, result <- Reported

Implements == Atomic!Spec
=============================================================================
