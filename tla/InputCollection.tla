--------------------------- MODULE InputCollection ---------------------------
(* What the metrics agent promises its operator: it collects the inputs of the *)
(* configuration it has adopted.  A reader is started only for a configured    *)
(* input that no other reader collects, and stopped only when its input is no  *)
(* longer configured; stopping the agent is adopting nothing.                  *)
(* The promise ends (orderly = FALSE) when an operator's reload has met a      *)
(* reload pass of the provider.                                                *)
EXTENDS Naturals

CONSTANT Keys       \* an input and the checksum of one configuration of it

VARIABLES
  target,           \* the configuration adopted
  collecting,       \* how many readers gather for a key
  orderly           \* no pass of the reloader has met a Start or a Stop

collectionVars == <<target, collecting, orderly>>

Init ==
  /\ target = {}
  /\ collecting = [k \in Keys |-> 0]
  /\ orderly = TRUE

Adopt ==
  /\ target' \in SUBSET Keys
  /\ UNCHANGED <<collecting, orderly>>

Begin(k) ==
  /\ k \in target
  /\ collecting[k] = 0
  /\ collecting' = [collecting EXCEPT ![k] = 1]
  /\ UNCHANGED <<target, orderly>>

End(k) ==
  /\ k \notin target
  /\ collecting[k] = 1
  /\ collecting' = [collecting EXCEPT ![k] = 0]
  /\ UNCHANGED <<target, orderly>>

\* The guarantee is given up, in this step and for good.
Disorder == ~orderly'

Next == \/ orderly /\ (Adopt \/ \E k \in Keys : Begin(k) \/ End(k))
        \/ Disorder

CollectionSpec == Init /\ [][Next]_collectionVars
=============================================================================
