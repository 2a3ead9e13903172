---------------------------- MODULE MCMediaNode ----------------------------
(* Model values for the TLC runs of MediaNode. *)
EXTENDS MediaNode, TLC

(* All slots in one process; each slot in a process of its own *)
OneProcess == [s \in Slots |-> 1]
OwnProcess == [s \in Slots |-> s]

(* Slots, contents and cleaners differ only by name *)
Symmetry == Permutations(Slots) \cup Permutations(Contents)
CleanerSymmetry == Permutations(Cleaners)
=============================================================================
