--------------------------- MODULE MCLogPipeline ---------------------------
(* Bounds for LogPipeline: the configurations of the sender, one message   *)
(* that a rule leaves out, and the sizes of messages: one that fits in no  *)
(* payload (MCLarge), or one that leaves no room for another (MCBulky).    *)
EXTENDS LogPipeline

Batch(n) == [strategy |-> "batch", concurrent |-> n]
Stream == [strategy |-> "stream", concurrent |-> 0]

MCAll == {Batch(0), Batch(2), Stream}
MCBatch == {Batch(0)}
MCStream == {Stream}
MCNone == {}
MCFirst == {1}
MCLarge == <<1, 3, 1, 1>>
MCBulky == <<1, 2, 1>>
MCSmall == <<1, 1, 1, 1>>
============================================================================
