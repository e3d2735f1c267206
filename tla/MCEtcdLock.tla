----------------------------- MODULE MCEtcdLock -----------------------------
(* EtcdLock for TLC: the symmetry of the slots, for runs that check safety. *)
EXTENDS EtcdLock, TLC

SlotSymmetry == Permutations(Sess)
=============================================================================
