------------------------------- MODULE MCSched -------------------------------
(* Sched for TLC: the pages of pcbs are interchangeable. *)
EXTENDS SchedTurns, TLC

SlotSymmetry == Permutations(Slots)
==============================================================================
