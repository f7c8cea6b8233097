---------------------------- MODULE MCSignalDriver ----------------------------
(* SignalDriver for TLC: task structures are interchangeable, and files too. *)
EXTENDS SignalDriver, TLC

TaskFileSymmetry == Permutations(Tasks) \cup Permutations(Files)
===============================================================================
