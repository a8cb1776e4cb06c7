----------------------------- MODULE MCIbexTask -----------------------------
(* Bounds for IbexTask. *)
EXTENDS IbexTask

CONSTANTS i1, k1
OneId == {i1}
OneSlot == {1}
OneClock == {1}
OneCaller == {k1}
============================================================================
