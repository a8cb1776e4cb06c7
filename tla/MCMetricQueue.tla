--------------------------- MODULE MCMetricQueue ---------------------------
(* Model checking of the metric queue with two collectors and two writers. *)
EXTENDS MetricQueue

CONSTANTS p1, p2, w1, w2

MCProducers == {p1, p2}
MCWriters == {w1, w2}
============================================================================
