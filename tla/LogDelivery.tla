---------------------------- MODULE LogDelivery ----------------------------
(***************************************************************************)
(* What the log agent promises of a log file (agent/logs_agent.go and      *)
(* logs/), so that at-least-once delivery survives every restart: a        *)
(* message of the file is delivered, refused for good or left out, and an  *)
(* offset from which the next process goes on is that of a message for     *)
(* which this is done.                                                     *)
(*                                                                         *)
(* When messages are sent in turn, none is settled for the first time      *)
(* before the ones it follows, and an offset covers all that comes before  *)
(* it.  Neither stages, nor channels, nor stops and crashes are in sight.  *)
(***************************************************************************)
EXTENDS Naturals

CONSTANTS
  LeftOut     \* the messages that a rule excludes or that are too large

VARIABLES
  inTurn,     \* messages are sent one payload after the other, from the beginning
  written,    \* number of messages in the log file
  delivered,  \* the messages that the destination took
  rejected,   \* those that it refused for good
  dropped,    \* those that were left out
  registry,   \* the offset in memory
  disk        \* the offset that a restart finds

deliveryVars == <<inTurn, written, delivered, rejected, dropped, registry, disk>>

Done == delivered \cup rejected \cup dropped

DeliveryInit ==
  /\ inTurn \in BOOLEAN
  /\ written = 0
  /\ delivered = {} /\ rejected = {} /\ dropped = {}
  /\ registry = 0 /\ disk = 0

Write ==
  /\ written' = written + 1
  /\ UNCHANGED <<inTurn, delivered, rejected, dropped, registry, disk>>

\* A payload is delivered or refused.
Settle(S) ==
  /\ inTurn => \A n \in S : 1..n \subseteq Done \cup S
  /\ \/ delivered' = delivered \cup S /\ UNCHANGED rejected
     \/ rejected' = rejected \cup S /\ UNCHANGED delivered
  /\ UNCHANGED <<inTurn, written, dropped, registry, disk>>

LeaveOut(m) ==
  /\ dropped' = dropped \cup {m}
  /\ UNCHANGED <<inTurn, written, delivered, rejected, registry, disk>>

\* Offsets are remembered, saved, lost and found again.
Committable == {0} \cup {n \in Done : inTurn => 1..n \subseteq Done}
Commit ==
  /\ registry' \in Committable /\ disk' \in Committable
  /\ UNCHANGED <<inTurn, written, delivered, rejected, dropped>>

DeliveryNext ==
  \/ Write \/ Commit
  \/ \E S \in SUBSET (1..written) : Settle(S)
  \/ \E m \in LeftOut \cap (1..written) : LeaveOut(m)

DeliverySpec == DeliveryInit /\ [][DeliveryNext]_deliveryVars
============================================================================
