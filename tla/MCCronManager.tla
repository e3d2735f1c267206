--------------------------- MODULE MCCronManager ---------------------------
(* CronManager for TLC: symmetric slots and instances. *)
EXTENDS CronManager, TLC

SlotSymmetry == Permutations(Runs) \cup Permutations(Reqs) \cup Permutations(Entries)
InstSymmetry == SlotSymmetry \cup Permutations(Inst)
=============================================================================
