-------------------------- MODULE MCIbexHeartbeat --------------------------
(* Bounds for IbexHeartbeat. *)
EXTENDS IbexHeartbeat, TLC

CONSTANTS i1, s1, s2
OneId == {i1}
OneSlot == {s1}
TwoSlots == {s1, s2}
OneClock == {1}
TwoClocks == 1..2
MCCallers == Gens \cup {Main}
SlotSymmetry == Permutations(Slots)
============================================================================
