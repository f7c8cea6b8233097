------------------------------ MODULE MCReadText ------------------------------
(***************************************************************************)
(* ReadText with the read handlers of the lessons.                         *)
(***************************************************************************)
EXTENDS ReadText

(* 011 and 012: "%d\n" into ten bytes, the result of snprintf.             *)
CounterText == [kind |-> "clip", label |-> 0, size |-> 10, kept |-> FALSE]

(* 013: a line per node into 256 bytes; all but the last are the label.    *)
ListText == [kind |-> "rest", label |-> 246, size |-> 256, kept |-> FALSE]

(* 014: "%d\n" into sixteen bytes, strlen.                                 *)
ThreadText == [kind |-> "rest", label |-> 0, size |-> 16, kept |-> TRUE]

(* 009: "%d\n" into ten bytes by sprintf.                                  *)
SysfsText == [kind |-> "whole", label |-> 0, size |-> 10, kept |-> FALSE]

(* 016 and 017: "value: %d\n" into ten bytes, strlen.                      *)
LockedText == [kind |-> "string", label |-> 7, size |-> 10, kept |-> TRUE]

(* 007: the five bytes of str; 005: the 1024 bytes of k_buffer.            *)
ProcText == [kind |-> "again", label |-> 0, size |-> 5, kept |-> TRUE]
DeviceText == [kind |-> "blind", label |-> 0, size |-> 1024, kept |-> TRUE]

(* 010: nothing, out of 1024 bytes.                                        *)
LedText == [kind |-> "claim", label |-> 0, size |-> 1024, kept |-> TRUE]

AllFormats ==
  {CounterText, ListText, ThreadText, SysfsText, LockedText, ProcText,
   DeviceText, LedText}
=============================================================================
