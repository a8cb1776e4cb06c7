----------------------------- MODULE LogSender -----------------------------
(****************************************************************************)
(* The sender of the log pipeline (logs/sender) and the destination it      *)
(* posts to (logs/client).  The batch strategy collects messages into       *)
(* payloads and sends up to concurrent of them at a time (with 0 the        *)
(* loop itself sends and waits); the stream strategy sends one message at   *)
(* a time.  A payload is posted again until the destination takes it,       *)
(* refuses it for good, or the context of the destinations is cancelled.    *)
(* Its messages are then forwarded to the auditor one by one, except after  *)
(* a cancellation.                                                          *)
(*                                                                          *)
(* Time is left out: the backoff between two attempts ends at any moment.   *)
(* Of the content of a message the model knows its size.                    *)
(****************************************************************************)
EXTENDS LogAuditor, Functions

CONSTANTS
  Configs,   \* the configurations of the sender: strategy "batch" (HTTP) or
             \* "stream" (TCP, Kafka), and BatchMaxConcurrentSend
  BatchMax,  \* BatchMaxSize
  Size,      \* per message, the length of its content
  ContentMax \* BatchMaxContentSize

ASSUME SenderAssumption ==
  /\ Configs \subseteq [strategy : {"batch", "stream"}, concurrent : Nat]
  /\ BatchMax \in Nat \ {0}
  /\ Size \in [Messages -> Nat]
  /\ ContentMax \in Nat \ {0}

VARIABLES
  config,     \* the configuration, which never changes
  sendIn,     \* Sender.inputChan
  sender,     \* its goroutine, and whether inputChan is closed
  buffer,     \* batchStrategy.buffer
  inflight,   \* the payloads in sendMessages
  cancelled,  \* the context of the destinations is cancelled
  delivered,  \* history: messages that the main destination took
  rejected,   \* history: messages it refused for good
  dropped     \* history: messages that the pipeline left out (too large, excluded by a rule)

senderVars == <<config, sendIn, sender, buffer, inflight, cancelled, delivered, rejected, dropped>>

None == 0  \* no message

\* next: what follows the flush; retry: the message to add after it.
SenderOff == [pc |-> "off", next |-> "select", retry |-> None, closed |-> FALSE]

SenderInit ==
  /\ config \in Configs
  /\ sendIn = <<>>
  /\ sender = SenderOff
  /\ buffer = <<>>
  /\ inflight = {}
  /\ cancelled = FALSE
  /\ delivered = {}
  /\ rejected = {}
  /\ dropped = {}

Elems(s) == {s[i] : i \in 1..Len(s)}
Payload(ms) == [msgs |-> ms, pc |-> "begin", acked |-> 0]

\* Start, with a new channel and a new context.
SenderStart ==
  /\ sendIn' = <<>>
  /\ sender' = [SenderOff EXCEPT !.pc = "select"]
  /\ buffer' = <<>>
  /\ inflight' = {}
  /\ cancelled' = FALSE
  /\ UNCHANGED <<config, delivered, rejected, dropped>>

----------------------------------------------------------------------------
(* batchStrategy.Send *)

\* Without concurrency the loop is inside sendMessages as long as a payload is.
Selecting ==
  /\ config.strategy = "batch"
  /\ sender.pc = "select"
  /\ config.concurrent = 0 => inflight = {}

\* The messages that fit in no payload.
TooLarge == {m \in Messages : Size[m] > ContentMax}

\* MessageBuffer.contentSize
ContentSize(ms) == FoldFunction(LAMBDA m, n : Size[m] + n, 0, ms)

\* AddMessage
Added(m) == Len(buffer) < BatchMax /\ ContentSize(buffer) + Size[m] <= ContentMax

IsFull(ms) == Len(ms) = BatchMax \/ ContentSize(ms) = ContentMax

\* processMessage, up to the flush.
Receive ==
  /\ Selecting
  /\ sendIn # <<>>
  /\ LET m == Head(sendIn) IN
     IF Added(m)
     THEN /\ buffer' = Append(buffer, m)
          /\ sender' = IF IsFull(buffer') THEN [sender EXCEPT !.pc = "flush"] ELSE sender
     ELSE /\ sender' = [sender EXCEPT !.pc = "flush", !.retry = m]
          /\ UNCHANGED buffer
  /\ sendIn' = Tail(sendIn)
  /\ UNCHANGED <<config, inflight, cancelled, delivered, rejected, dropped>>

\* There is no ticker: payloads are sent when they are full.
TickWhenFull ==
  /\ Selecting
  /\ IsFull(buffer)
  /\ sender' = [sender EXCEPT !.pc = "flush"]
  /\ UNCHANGED <<config, sendIn, buffer, inflight, cancelled, delivered, rejected, dropped>>
\* flushTicker
Tick ==
  /\ Selecting
  /\ buffer # <<>>
  /\ sender' = [sender EXCEPT !.pc = "flush"]
  /\ UNCHANGED <<config, sendIn, buffer, inflight, cancelled, delivered, rejected, dropped>>

\* flushBuffer, waiting for climit, and the rest of processMessage.
Flush ==
  /\ sender.pc = "flush"
  /\ \/ buffer = <<>> /\ UNCHANGED inflight
     \/ /\ buffer # <<>>
        /\ IF config.concurrent = 0 THEN inflight = {} ELSE Cardinality(inflight) < config.concurrent
        /\ inflight' = inflight \cup {Payload(buffer)}
  /\ buffer' = IF sender.retry \in Messages \ TooLarge THEN <<sender.retry>> ELSE <<>>
  /\ dropped' = dropped \cup ({sender.retry} \cap TooLarge)
  /\ sender' = [sender EXCEPT !.pc = sender.next, !.retry = None]
  /\ UNCHANGED <<config, sendIn, cancelled, delivered, rejected>>

\* Send returns without a last flush.
InputEndsUnflushed ==
  /\ Selecting
  /\ sender.closed /\ sendIn = <<>>
  /\ sender' = [sender EXCEPT !.pc = "wait"]
  /\ UNCHANGED <<config, sendIn, buffer, inflight, cancelled, delivered, rejected, dropped>>
\* inputChan is closed and empty: a last flush, then pendingSends.Wait().
InputEnds ==
  /\ Selecting
  /\ sender.closed /\ sendIn = <<>>
  /\ sender' = [sender EXCEPT !.pc = "flush", !.next = "wait"]
  /\ UNCHANGED <<config, sendIn, buffer, inflight, cancelled, delivered, rejected, dropped>>

\* Send returns without pendingSends.Wait().
SenderEndsAtOnce ==
  /\ sender.pc = "wait"
  /\ sender' = [sender EXCEPT !.pc = "done"]
  /\ UNCHANGED <<config, sendIn, buffer, inflight, cancelled, delivered, rejected, dropped>>
SenderEnds ==
  /\ sender.pc = "wait"
  /\ inflight = {}
  /\ sender' = [sender EXCEPT !.pc = "done"]
  /\ UNCHANGED <<config, sendIn, buffer, inflight, cancelled, delivered, rejected, dropped>>

----------------------------------------------------------------------------
(* streamStrategy.Send *)

Streaming == config.strategy = "stream" /\ sender.pc = "select" /\ inflight = {}

StreamReceive ==
  /\ Streaming
  /\ sendIn # <<>>
  /\ inflight' = {Payload(<<Head(sendIn)>>)}
  /\ sendIn' = Tail(sendIn)
  /\ UNCHANGED <<config, sender, buffer, cancelled, delivered, rejected, dropped>>

\* The range over inputChan ends.
StreamEnds ==
  /\ Streaming
  /\ sender.closed /\ sendIn = <<>>
  /\ sender' = [sender EXCEPT !.pc = "done"]
  /\ UNCHANGED <<config, sendIn, buffer, inflight, cancelled, delivered, rejected, dropped>>

----------------------------------------------------------------------------
(* Sender.send and sendMessages, for a payload p *)

Moved(p, pc) == (inflight \ {p}) \cup {[p EXCEPT !.pc = pc]}

\* An attempt begins.  A request with a cancelled context fails; a TCP
\* connection that is open is used whatever the context.
PostBegins(p) ==
  /\ p.pc = "begin"
  /\ cancelled => config.strategy = "stream"
  /\ inflight' = Moved(p, "post")
  /\ UNCHANGED <<config, sendIn, sender, buffer, cancelled, delivered, rejected, dropped>>

PostSucceeds(p) ==
  /\ p.pc = "post"
  /\ inflight' = Moved(p, "ack")
  /\ delivered' = delivered \cup Elems(p.msgs)
  /\ UNCHANGED <<config, sendIn, sender, buffer, cancelled, rejected, dropped>>

\* A retryable error is final.
PostFailsForGood(p) ==
  /\ p.pc = "post"
  /\ inflight' = inflight \ {p}
  /\ delivered' \in {delivered, delivered \cup Elems(p.msgs)}
  /\ UNCHANGED <<config, sendIn, sender, buffer, cancelled, rejected, dropped>>
\* A retryable error (no connection, 429, 5xx): the payload may have arrived all the same.
PostFails(p) ==
  /\ p.pc = "post"
  /\ inflight' = Moved(p, "begin")
  /\ delivered' \in {delivered, delivered \cup Elems(p.msgs)}
  /\ UNCHANGED <<config, sendIn, sender, buffer, cancelled, rejected, dropped>>

\* Any other error (4xx, a broken answer, a payload that cannot be encoded) is
\* logged, and the messages are forwarded as if they had been sent.
PostRejected(p) ==
  /\ p.pc = "post"
  /\ inflight' = Moved(p, "ack")
  /\ rejected' = rejected \cup Elems(p.msgs)
  /\ UNCHANGED <<config, sendIn, sender, buffer, cancelled, delivered, dropped>>

\* A cancelled payload is forwarded as well: no shouldStopSending.
PostCancelledForwards(p) ==
  /\ cancelled
  /\ p.pc \in {"begin", "post"}
  /\ inflight' = Moved(p, "ack")
  /\ UNCHANGED <<config, sendIn, sender, buffer, cancelled, delivered, rejected, dropped>>
\* A cancelled attempt is tried again like any other that failed.
PostCancelledRetries(p) ==
  /\ cancelled
  /\ p.pc = "post"
  /\ inflight' = Moved(p, "begin")
  /\ UNCHANGED <<config, sendIn, sender, buffer, cancelled, delivered, rejected, dropped>>
\* context.Canceled: the payload is left, and the stream strategy with it.
PostCancelled(p) ==
  /\ cancelled
  /\ p.pc \in {"begin", "post"}
  /\ inflight' = inflight \ {p}
  /\ delivered' \in IF p.pc = "post" THEN {delivered, delivered \cup Elems(p.msgs)} ELSE {delivered}
  /\ sender' = IF config.strategy = "stream" THEN [sender EXCEPT !.pc = "done"] ELSE sender
  /\ UNCHANGED <<config, sendIn, buffer, cancelled, rejected, dropped>>

\* outputChan <- message, for the messages of the payload in turn.
Forward(p) ==
  /\ p.pc = "ack"
  /\ Len(auditIn) < ChanSize
  /\ auditIn' = Append(auditIn, p.msgs[p.acked + 1])
  /\ inflight' = (inflight \ {p}) \cup
                 IF p.acked + 1 = Len(p.msgs) THEN {} ELSE {[p EXCEPT !.acked = @ + 1]}
  /\ UNCHANGED <<config, sendIn, sender, buffer, cancelled, delivered, rejected, dropped, auditor, registry, disk>>

SenderLoop ==
  Receive \/ Tick \/ Flush \/ InputEnds \/ SenderEnds \/ StreamReceive \/ StreamEnds

Post(p) ==
  PostBegins(p) \/ PostSucceeds(p) \/ PostFails(p) \/ PostRejected(p) \/ PostCancelled(p)

\* The process ends.
SenderCrash ==
  /\ sendIn' = <<>>
  /\ sender' = SenderOff
  /\ buffer' = <<>>
  /\ inflight' = {}
  /\ cancelled' = FALSE
  /\ UNCHANGED <<config, delivered, rejected, dropped>>

SenderTypeOK ==
  /\ config \in Configs
  /\ sendIn \in Seq(Messages) /\ Len(sendIn) <= ChanSize
  /\ sender \in [pc : {"off", "select", "flush", "wait", "done"}, next : {"select", "wait"},
                 retry : Messages \cup {None}, closed : BOOLEAN]
  /\ buffer \in Seq(Messages) /\ Len(buffer) <= BatchMax
  /\ inflight \subseteq [msgs : Seq(Messages), pc : {"begin", "post", "ack"}, acked : Nat]
  /\ \A p \in inflight : p.acked < Len(p.msgs) /\ Len(p.msgs) <= BatchMax
  /\ cancelled \in BOOLEAN
  /\ delivered \subseteq Messages /\ rejected \subseteq Messages /\ dropped \subseteq Messages
============================================================================
