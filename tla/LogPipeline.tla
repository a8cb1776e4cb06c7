---------------------------- MODULE LogPipeline ----------------------------
(***************************************************************************)
(* The log agent (agent/logs_agent.go) around one log file: the file is    *)
(* read from the offset that the auditor remembers, every message goes     *)
(* through the processor, the sender and the auditor, and Stop takes the   *)
(* pipeline down from its input to its end, with a time limit after which  *)
(* it cancels the context of the destinations.  The process then exits, or *)
(* is killed at any earlier moment, and is started again.                  *)
(*                                                                         *)
(* The tailer is seen from here as a reader that puts the next message     *)
(* into the channel of its pipeline.  Scanner.Stop waits for the tailers   *)
(* in its map only: one that was dismissed, or that a scan under way       *)
(* starts, outlives it (LogScanner) and may still send when Processor.Stop *)
(* has closed the channel.                                                 *)
(***************************************************************************)
EXTENDS LogSender

CONSTANTS
  TailingMode,  \* of the source: "beginning", "end", "forceBeginning" or "forceEnd"
  Excluded,     \* the messages that a processing rule leaves out
  MaxStops,     \* bound: calls of Stop
  MaxCrashes    \* bound: ends of the process

ASSUME PipelineAssumption ==
  /\ TailingMode \in {"beginning", "end", "forceBeginning", "forceEnd"}
  /\ Excluded \subseteq Messages
  /\ MaxStops \in Nat
  /\ MaxCrashes \in Nat

VARIABLES
  written,  \* number of messages in the log file
  reader,   \* whether the file is tailed, from where, and up to where it was read
  procIn,   \* Processor.inputChan
  proc,     \* its goroutine, and whether inputChan is closed
  main,     \* LogsAgent.Start and Stop
  stopper,  \* the goroutine of Stop: the component it waits for
  stops,    \* calls of Stop so far
  crashes   \* ends of the process so far

agentVars == <<written, reader, procIn, proc, main, stopper, stops, crashes>>
vars == <<auditorVars, senderVars, agentVars>>

ReaderOff == [on |-> FALSE, from |-> 0, pos |-> 0]
ProcOff == [on |-> FALSE, closed |-> FALSE]

Init ==
  /\ AuditorInit
  /\ SenderInit
  /\ written = 0
  /\ reader = ReaderOff
  /\ procIn = <<>>
  /\ proc = ProcOff
  /\ main = "off"
  /\ stopper = "off"
  /\ stops = 0
  /\ crashes = 0

----------------------------------------------------------------------------
(* Start *)

\* Position: from where the file is read, given the offset in the registry.
Position(offset) ==
  CASE TailingMode = "forceBeginning" -> 0
    [] TailingMode = "forceEnd" -> written
    [] TailingMode \in {"beginning", "end"} /\ offset # NoEntry -> offset
    [] TailingMode = "beginning" /\ offset = NoEntry -> 0
    [] TailingMode = "end" /\ offset = NoEntry -> written

\* startInner: the context, the auditor, the pipelines, then the inputs.
Start_ ==
  /\ main = "off"
  /\ main' = "running"
  /\ AuditorStart
  /\ SenderStart
  /\ procIn' = <<>>
  /\ proc' = [ProcOff EXCEPT !.on = TRUE]
  /\ reader' = [on |-> TRUE, from |-> Position(registry'), pos |-> Position(registry')]
  /\ UNCHANGED <<written, stopper, stops, crashes>>

----------------------------------------------------------------------------
(* The input and the processor *)

\* The application writes to its log.
Log ==
  /\ written < MaxMessages
  /\ written' = written + 1
  /\ UNCHANGED <<auditorVars, senderVars, reader, procIn, proc, main, stopper, stops, crashes>>

\* forwardMessages
Read ==
  /\ reader.on /\ ~proc.closed
  /\ reader.pos < written
  /\ Len(procIn) < ChanSize
  /\ procIn' = Append(procIn, reader.pos + 1)
  /\ reader' = [reader EXCEPT !.pos = @ + 1]
  /\ UNCHANGED <<auditorVars, senderVars, written, proc, main, stopper, stops, crashes>>

\* A send on the closed channel panics: forwardMessages ends with its message,
\* and SafeGo keeps the process alive.
SendPanics ==
  /\ reader.on /\ proc.closed
  /\ reader.pos < written
  /\ reader' = [reader EXCEPT !.on = FALSE]
  /\ UNCHANGED <<auditorVars, senderVars, written, procIn, proc, main, stopper, stops, crashes>>

\* processMessage: a message that the rules leave out goes no further, and is
\* not reported to the auditor.
Process ==
  /\ proc.on
  /\ procIn # <<>>
  /\ LET m == Head(procIn) IN
     \/ /\ m \in Excluded
        /\ dropped' = dropped \cup {m}
        /\ UNCHANGED sendIn
     \/ /\ m \notin Excluded
        /\ Len(sendIn) < ChanSize
        /\ sendIn' = Append(sendIn, m)
        /\ UNCHANGED dropped
  /\ procIn' = Tail(procIn)
  /\ UNCHANGED <<auditorVars, config, sender, buffer, inflight, cancelled, delivered, rejected,
                 written, reader, proc, main, stopper, stops, crashes>>

\* run() returns: inputChan is closed and empty.
ProcessorEnds ==
  /\ proc.on /\ proc.closed
  /\ procIn = <<>>
  /\ proc' = [proc EXCEPT !.on = FALSE]
  /\ UNCHANGED <<auditorVars, senderVars, written, reader, procIn, main, stopper, stops, crashes>>

----------------------------------------------------------------------------
(* Stop *)

\* Stop starts the stopper and waits for it.
StopBegins ==
  /\ main = "running"
  /\ stops < MaxStops
  /\ stops' = stops + 1
  /\ main' = "stopping"
  /\ stopper' = "inputs"
  /\ UNCHANGED <<auditorVars, senderVars, written, reader, procIn, proc, crashes>>

\* Scanner.Stop returns: the tailer has ended, or is none of those that it
\* waits for.
StopInputs ==
  /\ stopper = "inputs"
  /\ stopper' = "pipeline"
  /\ reader' \in {reader, [reader EXCEPT !.on = FALSE]}
  /\ UNCHANGED <<auditorVars, senderVars, written, procIn, proc, main, stops, crashes>>

\* Processor.Stop closes its channel ...
ClosePipeline ==
  /\ stopper = "pipeline"
  /\ stopper' = "processor"
  /\ proc' = [proc EXCEPT !.closed = TRUE]
  /\ UNCHANGED <<auditorVars, senderVars, written, reader, procIn, main, stops, crashes>>

\* ... and waits for its goroutine; Sender.Stop closes its channel ...
StopProcessor ==
  /\ stopper = "processor"
  /\ ~proc.on
  /\ stopper' = "sender"
  /\ sender' = [sender EXCEPT !.closed = TRUE]
  /\ UNCHANGED <<auditorVars, config, sendIn, buffer, inflight, cancelled, delivered, rejected, dropped,
                 written, reader, procIn, proc, main, stops, crashes>>

\* ... and waits for its goroutine; then the auditor is stopped ...
StopSender ==
  /\ stopper = "sender"
  /\ sender.pc = "done"
  /\ stopper' = "auditor"
  /\ AuditorClose
  /\ UNCHANGED <<senderVars, written, reader, procIn, proc, main, stops, crashes>>

StopAuditor ==
  /\ stopper = "auditor"
  /\ stopper' = "flush"
  /\ AuditorStop
  /\ UNCHANGED <<senderVars, written, reader, procIn, proc, main, stops, crashes>>

\* ... and the context of the destinations cancelled.
StopDestinations ==
  /\ stopper = "flush" /\ ~auditor.writing
  /\ stopper' = "done"
  /\ cancelled' = TRUE
  /\ UNCHANGED <<auditorVars, config, sendIn, sender, buffer, inflight, delivered, rejected, dropped,
                 written, reader, procIn, proc, main, stops, crashes>>

\* 30 seconds have passed: the context is cancelled to unclog the pipeline.
StopForces ==
  /\ main = "stopping" /\ stopper # "done"
  /\ main' = "forced"
  /\ cancelled' = TRUE
  /\ UNCHANGED <<auditorVars, config, sendIn, sender, buffer, inflight, delivered, rejected, dropped,
                 written, reader, procIn, proc, stopper, stops, crashes>>

StopReturns ==
  /\ main \in {"stopping", "forced"} /\ stopper = "done"
  /\ main' = "stopped"
  /\ UNCHANGED <<auditorVars, senderVars, written, reader, procIn, proc, stopper, stops, crashes>>

\* Five more seconds have passed, and the stopper is left to itself.
StopGivesUp ==
  /\ main = "forced" /\ stopper # "done"
  /\ main' = "stopped"
  /\ UNCHANGED <<auditorVars, senderVars, written, reader, procIn, proc, stopper, stops, crashes>>

\* The process ends: what is left is on disk.
ProcessEnds ==
  /\ main' = "off"
  /\ stopper' = "off"
  /\ AuditorCrash
  /\ SenderCrash
  /\ reader' = ReaderOff
  /\ procIn' = <<>>
  /\ proc' = ProcOff
  /\ UNCHANGED <<written, stops>>

\* handleSignal returns from ag.Stop() and main() with it.
Exit == main = "stopped" /\ ProcessEnds /\ UNCHANGED crashes

Crash ==
  /\ main \notin {"off", "stopped"}
  /\ crashes < MaxCrashes
  /\ crashes' = crashes + 1
  /\ ProcessEnds

----------------------------------------------------------------------------

Stopper == StopInputs \/ ClosePipeline \/ StopProcessor \/ StopSender \/ StopAuditor \/ StopDestinations

Next ==
  \/ Start_ \/ Log \/ Read \/ SendPanics \/ Process \/ ProcessorEnds
  \/ SenderLoop /\ UNCHANGED <<auditorVars, agentVars>>
  \/ \E p \in inflight : \/ Post(p) /\ UNCHANGED <<auditorVars, agentVars>>
                         \/ Forward(p) /\ UNCHANGED agentVars
  \/ AuditorRuns /\ UNCHANGED <<senderVars, agentVars>>
  \/ StopBegins \/ Stopper \/ StopForces \/ StopReturns \/ StopGivesUp
  \/ Exit \/ Crash

Spec == Init /\ [][Next]_vars

\* An attempt to post a payload comes to an end, and a payload that is posted
\* again and again is taken in the end.
Posting ==
  /\ WF_vars((\E p \in inflight : Post(p)) /\ UNCHANGED <<auditorVars, agentVars>>)
  /\ SF_vars((\E p \in inflight : PostSucceeds(p)) /\ UNCHANGED <<auditorVars, agentVars>>)

\* Every goroutine runs, the auditor's select does not leave out its channel for
\* ever, and an agent that was stopped or killed is started again.
Running ==
  /\ WF_vars(Start_ \/ Exit)
  /\ WF_vars(Read)
  /\ WF_vars(Process \/ ProcessorEnds)
  /\ WF_vars(SenderLoop /\ UNCHANGED <<auditorVars, agentVars>>)
  /\ WF_vars((\E p \in inflight : Forward(p)) /\ UNCHANGED agentVars)
  /\ SF_vars((AuditorUpdates \/ AuditorEnds) /\ UNCHANGED <<senderVars, agentVars>>)
  /\ WF_vars(FlushEnds /\ UNCHANGED <<senderVars, agentVars>>)
  /\ WF_vars(Stopper)
  /\ WF_vars(StopReturns)

LiveSpec == Spec /\ Posting /\ Running

----------------------------------------------------------------------------
(* Properties *)

\* Every variable has its type and no channel holds more than its capacity.
TypeOK ==
  /\ AuditorTypeOK
  /\ SenderTypeOK
  /\ written \in 0..MaxMessages
  /\ reader \in [on : BOOLEAN, from : 0..MaxMessages, pos : 0..MaxMessages]
  /\ procIn \in Seq(Messages) /\ Len(procIn) <= ChanSize
  /\ proc \in [on : BOOLEAN, closed : BOOLEAN]
  /\ main \in {"off", "running", "stopping", "forced", "stopped"}
  /\ stopper \in {"off", "inputs", "pipeline", "processor", "sender", "auditor", "flush", "done"}
  /\ stops \in 0..MaxStops
  /\ crashes \in 0..MaxCrashes

\* The messages that need no further work.
Settled == delivered \cup rejected \cup dropped

\* Every message up to an offset that the auditor remembers or has written to
\* disk was delivered, refused by the destination or left out: a restart, after
\* a crash at any moment too, skips no message.  (With concurrent sends it does
\* not hold: payloads are then forwarded in the order in which they are done.)
CommitCoversSettled ==
  config.concurrent = 0 => \A m \in Messages : m <= registry \/ m <= disk => m \in Settled

\* A Stop that was not forced leaves no message on its way: everything that was
\* read is settled when it is done, also with concurrent sends.
StopFlushes ==
  stopper = "done" /\ main = "stopping"
    => /\ (reader.from + 1)..reader.pos \subseteq Settled
       /\ procIn = <<>> /\ sendIn = <<>> /\ buffer = <<>> /\ inflight = {} /\ auditIn = <<>>

\* Behind the processor a channel is closed only when nothing is left that will
\* be sent on it (a send on a closed channel panics): the sender's when the
\* processor has taken the last message, also one of a tailer that outlived
\* Scanner.Stop, the auditor's when no payload is left of the concurrent sends.
NoSendOnClosed ==
  /\ sender.closed => ~proc.on /\ procIn = <<>>
  /\ auditor.closed => inflight = {} /\ buffer = <<>>

\* The modes in which a file without an entry is read from its beginning.
FromTheBeginning == TailingMode \in {"beginning", "forceBeginning"}

\* However stages, stops and crashes interleave, the pipeline delivers at least
\* once: only what was written is settled, the registry and its file hold
\* offsets of settled messages, and without concurrent sends no message is
\* settled or covered by an offset before those it follows.
Delivery == INSTANCE LogDelivery WITH
  LeftOut <- Excluded \cup TooLarge,
  inTurn  <- config.concurrent = 0 /\ FromTheBeginning
ImplementsDelivery == Delivery!DeliverySpec

\* Every message is settled in the end, also those that a forced stop gave up:
\* the bounded channels do not block each other, a payload that is never full
\* is sent, and the next process begins where the registry left off.
MessagesAreSettled == \A m \in Messages : (written >= m) ~> (m \in Settled)

\* A Stop that is forced comes to its end by itself, if only it is given time
\* (StopGivesUp is not fair): the cancelled context unclogs the pipeline
\* (logs_agent.go 241, destinations_context.go 15).
ForcedStopEnds == (main = "forced") ~> (stopper \in {"done", "off"})
----------------------------------------------------------------------------
(* What makes them inductive *)

\* The message that waits for the flush of the buffer, if there is one.
Held == {sender.retry} \ {None}

\* The messages of the payloads.
Posted == UNION {Elems(p.msgs) : p \in inflight}

\* Where a message that was read can be.
Underway == Elems(procIn) \cup Elems(sendIn) \cup Held \cup Elems(buffer) \cup Posted

\* One goroutine after the other ends, and takes nothing more from then on.
StagesEnd ==
  /\ ~proc.on => procIn = <<>> /\ (reader.on => proc.closed)
  /\ sender.pc \in {"off", "done"} => inflight = {} /\ buffer = <<>>
  /\ ~auditor.on => auditIn = <<>> /\ sender.pc \in {"off", "done"}
  /\ auditor.closed => sender.pc = "done"
  /\ stopper \in {"auditor", "flush", "done"} => sender.pc = "done"
  /\ stopper \in {"flush", "done"} => ~auditor.on

\* The states of the sender: a message is held only between a full buffer and
\* its flush, the last flush comes after the end of the input, and without
\* concurrency there is one payload.
SenderStates ==
  /\ sender.retry # None => sender.pc = "flush" /\ sender.next = "select"
  /\ sender.next = "wait" => sender.pc \in {"flush", "wait", "done"} /\ sender.closed /\ sendIn = <<>>
  /\ sender.pc = "wait" => sender.next = "wait" /\ buffer = <<>>
  /\ config.strategy = "stream" => buffer = <<>> /\ sender.pc \notin {"flush", "wait"}
  /\ config.strategy = "stream" \/ config.concurrent = 0 => \A p, q \in inflight : p = q

\* Up to the time limit of Stop the context is cancelled by the stopper only,
\* and the sender ends only when it has taken everything.
Unforced ==
  /\ main \in {"off", "running"} => stopper = "off"
  /\ main \in {"off", "running", "stopping"} /\ cancelled => stopper = "done"
  /\ main \in {"off", "running", "stopping"} /\ sender.pc = "done" => sender.closed /\ sendIn = <<>>

\* Messages keep their order from stage to stage.
Increasing(s) == \A i, j \in 1..Len(s) : i < j => s[i] < s[j]
Before(S, T) == \A m \in S, n \in T : m < n

InOrder ==
  /\ Increasing(procIn) /\ Increasing(sendIn)
  /\ \A m \in Underway : m <= reader.pos
  /\ Before(Elems(sendIn), Elems(procIn))
  /\ Before(Held, Elems(sendIn) \cup Elems(procIn))
  /\ Before(Elems(buffer), Held \cup Elems(sendIn) \cup Elems(procIn))
  /\ Before(Posted, Elems(buffer) \cup Held \cup Elems(sendIn) \cup Elems(procIn))

\* A message that was read is not lost before the context is cancelled, and a
\* stream loses none before it ends.
Lossless ==
  \/ main \in {"off", "running", "stopping"}
  \/ ~cancelled
  \/ config.strategy = "stream" /\ sender.pc # "done"
NoneIsLost == Lossless => (reader.from + 1)..reader.pos \subseteq Settled \cup Underway

\* The messages of a payload that is forwarded are settled.
ForwardedIsSettled == \A p \in inflight : p.pc = "ack" => Elems(p.msgs) \subseteq Settled

\* The messages up to offset m are settled.
Covered(m) == 1..m \subseteq Settled

\* Without concurrency, what comes before a payload that is posted is settled,
\* and an offset is on its way to the disk only when everything up to it is.
PostedInTurn ==
  config.concurrent = 0 =>
    \A p \in inflight : p.pc \in {"post", "ack"} =>
       \A n \in Elems(p.msgs) : 1..n \subseteq Settled \cup Elems(p.msgs)

OffsetsAreCovered ==
  config.concurrent = 0 =>
    /\ Covered(reader.from) /\ Covered(registry) /\ Covered(auditor.copy) /\ Covered(disk)
    /\ \A m \in Elems(auditIn) : Covered(m)

ControlInv == NoSendOnClosed /\ StagesEnd /\ SenderStates /\ Unforced
DataInv == InOrder /\ NoneIsLost /\ ForwardedIsSettled
PipelineInv == TypeOK /\ ControlInv /\ DataInv

\* For a source that is read from its beginning.
CommitInv == PipelineInv /\ PostedInTurn /\ OffsetsAreCovered

\* Only what is in the file is read or settled, and an offset, with concurrency
\* too, is that of a settled message.
WithinFile == reader.pos <= written /\ Settled \subseteq 1..written
OffsetsAreSettled ==
  /\ {registry, auditor.copy, disk} \subseteq Settled \cup {NoEntry}
  /\ Elems(auditIn) \subseteq Settled

\* For every source.
DeliveryInv ==
  PipelineInv /\ WithinFile /\ OffsetsAreSettled /\ (FromTheBeginning => CommitInv)
============================================================================
