----------------------------- MODULE MCSharedData -----------------------------
(***************************************************************************)
(* SharedData with the data of the lessons; two cells stand for the ten    *)
(* numbers of arr, the five characters of str and the 1024 of k_buffer.    *)
(***************************************************************************)
EXTENDS SharedData, TLC

(* 005: k_buffer.  A read takes all of it, whatever was asked for; a write *)
(* what it was asked for, whatever the size of k_buffer.                   *)
DeviceBuffer ==
  [cells |-> 2, ops |-> {"read", "write"}, length |-> "any",
   own |-> FALSE, silent |-> {"read", "write"}]

(* 006: READ_IOCTL, WRITE_IOCTL and RW_IOCTL of arr.                       *)
Array ==
  [cells |-> 2, ops |-> {"read", "write", "multiply"}, length |-> "all",
   own |-> FALSE, silent |-> {}]

(* 007: the proc file's str.                                               *)
ProcString ==
  [cells |-> 2, ops |-> {"read", "write"}, length |-> "limited",
   own |-> FALSE, silent |-> {}]

(* 007: READ_DATA and WRITE_DATA of value.                                 *)
ProcValue ==
  [cells |-> 1, ops |-> {"read", "write"}, length |-> "all",
   own |-> FALSE, silent |-> {"write"}]

(* 009: the device file and the attribute.                                 *)
SysfsValue ==
  [cells |-> 1, ops |-> {"read", "write"}, length |-> "all",
   own |-> TRUE, silent |-> {}]

AllDevices == {DeviceBuffer, Array, ProcString, ProcValue, SysfsValue}

ProcessSymmetry == Permutations(Processes)
=============================================================================
