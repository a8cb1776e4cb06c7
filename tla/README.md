# TLA+ models of categraf

categraf is a monitoring agent. One process collects metrics and forwards them
to remote writers, tails log files and forwards their lines, and runs tasks that
a server assigns to the host. This directory models the parts of it in which
goroutines, files on disk, timeouts and crashes meet, checks them with TLC on
small instances, and proves the most important properties with TLAPS for
instances of any size.

Paths below are relative to `src/`.

## 1. The system and its parts

| part | code | module | what makes it hard |
|---|---|---|---|
| ibex task | `ibex/task.go`, `ibex/cmd_nix.go` | `IbexJob`, `IbexTask` | a run, its termination handler, its process and callers of kill/stop interleave; signals and writes fail; the agent dies between two writes |
| ibex task table | `ibex/tasks.go` | `IbexLocals` | assignments against shutdown, clean-up against runs |
| ibex heartbeat | `ibex/heartbeat.go` | `IbexHeartbeat` | a Stop that times out leaves a goroutine beside the next one |
| ibex rpc client | `ibex/client/` | `RpcClient` | one connection for all, closed and made anew by whoever meets an error |
| writers | `writer/`, `types/safe_list.go` | `MetricFifo`, `MetricQueue` | concurrent producers at the limit, slow writers |
| metrics agent, readers, providers | `agent/metrics_*.go`, `inputs/*provider*.go` | `InputCollection`, `MetricsAgent` | the provider's reloader against Start and Stop; a reload that is applied in part |
| log tailing | `logs/input/file/` | `LogScanner` | rotation, a limit on tailers, stop while the pipeline is blocked |
| log decoding | `logs/decoder/`, `logs/parser/` | `LogDecoder` | lines cut, joined and aggregated by four goroutines, with offsets that must not drift |
| log processing | `logs/processor/` | `LogPipeline` (as a stage) | - |
| log sender | `logs/sender/`, `logs/client/` | `LogSender` | concurrent sends, retries, cancellation |
| log auditor | `logs/auditor/` | `LogAuditor` | what an offset promises after a crash |
| logs agent | `agent/logs_agent.go`, `logs/pipeline/`, `logs/restart/` | `LogDelivery`, `LogPipeline` | a serial stop with a time limit |
| others | `heartbeat/`, `prometheus/`, `api/`, `config/`, input plugins, service installation | none | I/O and formats; see section 7 |

How they interact: `agent/agent.go` starts and stops the metrics, logs, ibex and
prometheus modules in turn, from the signal handler; on SIGHUP it stops and
starts them. Readers push what their inputs gather into the metric queue, one
loop feeds the writers. A log line goes tailer (with its decoder) -> processor ->
sender -> destination, and then sender -> auditor, whose registry tells the
tailer where to go on after a restart. The ibex heartbeat reports the task table
to the server over the rpc client and applies the assignments of the answer to
the table; a run fetches its script over the same client.

`PROJECT.json` lists every part with its status, and under `hazards` the places
of the code that tests hardly reach, each with the properties that look at it or
the reason why none does.

## 2. The modules

```
IbexJob            a task as the rest of the agent sees it (abstract)
 |- IbexTask       the inside of a run; implements IbexJob
 |- IbexLocals     the task table
     |- IbexHeartbeat   heartbeat goroutines, Start, Stop, the server, crashes
RpcClient          the shared connection and its lock
MetricFifo         what the queue promises (abstract)
MetricQueue        the queue, its producers, its loop and the writers; implements MetricFifo
InputCollection    what the metrics agent promises (abstract)
MetricsAgent       the agent, its readers, the providers, the reloader; implements InputCollection
LogScanner         the scanner of log files and its tailers
LogDecoder         from the bytes of a file to messages with offsets
LogDelivery        what the log agent promises of a file (abstract)
LogAuditor         the registry
 |- LogSender      the sender and its destination
     |- LogPipeline     the reader, the processor, LogsAgent.Start and Stop, crashes;
                        implements LogDelivery
```

Indented modules EXTEND the one above. `MC*` modules only name small sets for TLC, `*Proofs` modules hold theorems:
`IbexTaskProofs` those about `IbexJob` and `IbexTask`, `IbexHeartbeatProofs` on
top of it those about the table and the heartbeat, and one module each for the
client, the queue, the metrics agent, the scanner, the decoder and the pipeline.
Invariants that only a proof needs are at the end of the module they speak of,
under "What makes them inductive" where that is a log module. `PROJECT.json`
maps each definition to the lines it stands for.

### Ibex

`IbexJob` has a `Task` record per object (`task`), the goroutine in `run()`
(`run`), the callers inside `requestTermination` (`call`) and the results on
disk (`disk`). An object is a pair of an id and a slot, since the table may
forget an object and make another one for the same id. The channels that
`beginRun` makes are identified by the number of the run, `epoch`: a caller
takes the channel under the lock (`RequestLock`) and sends after releasing it
(`RequestSend`), when the object may already be in its next run. `finalize` is
five steps, in the order of the code: status, output files, result file created,
result file written, `alive` cleared and `done` closed. The fields `asked`,
`ran`, `lost` and `unflushed` are history: no action reads them, except the
abstract `Decide`, which says that a run ends "killed" only if asked to. A crash
also marks the runs that had no result yet as `lost`.

`IbexTask` adds the files that `prepare` writes (`.write` last), the process and
what is left of its process group (`proc`), and the `handleTermination`
goroutine (`handler`). Each action performs an action of `IbexJob` or leaves its
variables alone, so the refinement mapping is the identity and
`ImplementsJob == JobSpec`. The models of the rest of the agent are built on
`IbexJob` alone.

In `IbexLocals`, a critical section of the table's lock is one step; kill and
stop, which are called after it, are steps of their own. `IbexHeartbeat` has one
goroutine per Start (a generation). External: the server, which stamps each new
assignment of an id with a larger clock and may leave assignments out of an
answer or repeat them.

`RpcClient` has the callers of `Call`, the `RWMutex` with its rule that a waiting
writer holds new readers back, and `connect` server by server: dial, ping,
choose the fastest, close the others. A server is up, down (its connections
break) or mute (it accepts and never answers; the call then times out).

### Metrics

`MetricQueue`: `WriteSamples` pushes all or nothing under the list's lock; the
length for the statistics is read later (`ReadLen`) and the counters are updated
by a goroutine of its own (`Snapshot`, from a bag of pending ones). `LoopRead`
pops a batch, each writer has a goroutine (`Write`), and `Wrote` is `wg.Wait`. A
failed post is logged and not repeated, so `posted` means "given to the writer",
not "arrived". `MetricFifo` has only what was accepted and what each writer was
given.

`MetricsAgent`: a key is an input and the checksum of one of its configurations.
The main goroutine runs `Start` and, on SIGHUP, `Stop` and `Start` (`pc[Main]`);
each `StartReloader` spawns a reloader, whose pass asks the server, computes the
difference and registers and deregisters key by key, with the map of readers
(`record`) shared by all. Readers that the map has forgotten while they gather
are counted in `lost`. `overlapped` is history: a pass of the reloader has met a
Start or a Stop. `InputCollection` promises that a reader is started only for a
configured input that has none and stopped only when its input is no longer
configured; it gives the promise up once the two have met. External: the
configuration server and what an input does.

### Logs

`LogScanner`: the loop of `run` looks at one file per step, with the number of
tailers it counted at the beginning of the scan, while files are created,
rotated, truncated and deleted. A tailer reads, flushes its decoder and is done;
it may be told to stop, be given sixty seconds (`timer`), or have its forwarding
cancelled. What it reads is a load between the file and the pipeline, which may
be stuck (`jammed`).

`LogDecoder`: the four goroutines between `Tailer.read` and the pipeline, with
the bytes of the file. The decoder, both line parsers, all three line handlers,
their timers and `forwardMessages` are modelled by what they do with content and
`RawDataLen`; a byte is one of seven letters. `lines` and `sent` are history.

`LogAuditor`, `LogSender`, `LogPipeline`: one file with numbered messages and one
pipeline; an offset is the number of the last message it covers. The
configuration of the sender is chosen in the initial state: `batchStrategy`, with
its ticker, its limits on the number of messages and on their content, its retry of
a message that did not fit and a number of concurrent sends, or `streamStrategy`. A post ends with success, with a retryable error
(after which the payload may have arrived all the same), with a refusal, or with
the cancelled context. `LogAuditor` truncates and then writes the registry file,
and each of the two may fail. `LogPipeline` has `Start`, the stopper goroutine,
the time limit of `Stop` (`StopForces`, and `StopGivesUp` at its end),
`Exit`, the end of the process after a Stop, and `Crash`. The reader stands for
the tailer of the file and its `forwardMessages` (`Read`). `StopInputs` is the
return of `Scanner.Stop`, which may leave the tailer behind: one that was
dismissed, or that a scan under way starts, is not waited for. It goes on sending
until `ClosePipeline`, the first half of `Processor.Stop`, has closed the channel;
its next send then panics (`SendPanics`), `SafeGo` recovers and the goroutine is
gone, with its message neither in the pipeline nor in the registry. `LogDelivery` knows neither stages nor processes: a
message of the file is delivered, refused or left out, and the registry and its
file hold offsets of messages for which that is done. Its `inTurn` is
"no concurrent sends, and a file without an entry is read from its beginning": then
a payload settles nothing before what it follows, and an offset covers everything up
to it. A stop, a crash and a restart are to it a change of the two offsets.

## 3. What the runs check

| run | properties | distinct states |
|---|---|---|
| `ibex_task` | `OnlyAskedRunsAreKilled`: a late request never hits a later run; `NaturalCompletionKept`: a request never overrides how the process really ended; `DoneMeansPersisted`; `WriteFlagCommits`; `ImplementsJob`; `AskedRunEnds` | 766,388 |
| `ibex_agent` | `RunsAreListed`; `NoRunEscapesStop`: an assignment that races with Stop is stopped or refused; `StopLeavesNothing`; `FinalReportIsComplete`: a final status is reported with all the output; `NoSecondRun`: an assignment is not run again after a crash or reload; `LoadedOutputIsOwn` | 2,848,885 |
| `ibex_stop_live` | `StopReturns`, `CancelledBeatEnds` | 76,870 |
| `rpc_client` | `InFlightIsOpen`: nobody closes a connection under an RPC; `NoneIsLeaked`; `CallsRecover`: once the servers are well, calls stop failing | 301,809 |
| `metric_queue` | `CountersAddUp`: what was offered was accepted or counted as failed; `ImplementsFifo`; `AcceptedIsPosted` | 59,811 |
| `metrics_agent` | `OneReloader`: reloads neither pile reloaders up nor leave none; `ImplementsCollection`; `ConfigIsCollected`: what is collected becomes what the server configures; `ReloadReturns` | 189,487 |
| `metrics_overlap` | `ReadersFollowConfig`: violated | - |
| `log_scanner` | `LimitHolds`; `NoOrphans`: no tailer is left behind that nobody stops; `FilesAreTailed`; `RotatedEnds`; `StopEnds` | 415,460 |
| `log_decoder` | `LengthsAddUp`: no byte is counted twice or forgotten; `CoversExactly`: a message holds what lies between two offsets, the messages come in order, and nothing visible lies between two of them; `StopFlushes`; `ChunkingIsIrrelevant`: the lines are those of a recursive definition over the whole file, however it is read; `LinesComeOut` | 637,228 |
| `log_commit` | `ImplementsDelivery`; `CommitCoversSettled`: an offset in memory or on disk covers no message that still needs sending; `StopFlushes`; `NoSendOnClosed` | 3,020,280 |
| `log_live` | `MessagesAreSettled`, `ForcedStopEnds`, batch strategy | 362,682 |
| `log_stream_forced` | `ForcedStopEnds`, stream strategy: violated | - |

Some properties hold only under a condition, which they state.

- `NoSecondRun`, `LoadedOutputIsOwn` and `FinalReportIsComplete` assume that no
  two generations of the heartbeat were at work at once (`~main.overlap`): after
  a Stop that timed out, the old goroutine may still apply an old answer.
  `NoSecondRun` exempts runs whose result was lost.
  A crash between the creation and the write of `<clock>.done` leaves an empty file,
  which is then loaded as a result with an empty status (`LoadedStatus`): the task is
  not run again, and no property says more of what it reports.
- `AskedRunEnds` exempts a run whose signal failed although its group was there
  (`handler.failed`): the request is gone and the same assignment is not applied
  twice.
- `ImplementsCollection` and `ConfigIsCollected` speak of histories in which no
  pass of the reloader met a Start or a Stop; `metrics_overlap` shows what
  happens otherwise. `ReloadReturns` exempts a panic and a Stop that waits for a
  reader whose service input failed to start, which nobody receives for.
- `CommitCoversSettled` speaks of configurations without concurrent sends; with
  them it does not hold, since payloads are forwarded to the auditor in the order
  in which they are done. `ImplementsDelivery` promises the order under the same
  condition, and in every configuration that an offset is that of a settled message.
- `CoversExactly` leaves UTF-16 out: `sendLine` takes `SeparatorLen - 1` bytes off
  every line, also off one that was cut at the limit and ends without a separator,
  which so loses a byte.
- `NoSendOnClosed` speaks of the channels behind the processor. That of the
  processor itself may be closed under a tailer (below); what follows from it is
  left to `StopFlushes`, `CommitCoversSettled`, `ImplementsDelivery` and
  `MessagesAreSettled`, which hold all the same.
- `FilesAreTailed` and `StopEnds` exempt a pipeline that is stuck for ever: a
  tailer then may need its sixty seconds after each rotation, and the bound
  `MaxTailers` would be what fails.

Deadlock is checked for the ibex task. It is not where the model stops by itself:
all the bounded calls, changes or restarts are made and nothing is left to do.

### Findings

`log_stream_forced`: after a forced stop `streamStrategy.Send` returns at the
first cancelled message and no longer reads its channel. A processor with more
messages than the channel holds blocks, and with it the stopper, so that the
auditor is not stopped and flushed. `agent/logs_agent.go:241-242` and
`logs/client/destinations_context.go:15-16` say that the cancelled context
unclogs the pipeline. `Stop` itself returns after five more seconds.

`metrics_overlap`: `MetricsAgent.start` starts the reloader of the HTTP provider
before it has registered the inputs. A pass that adopts a new configuration
between `GetInputConfig` and `RegisterInput` deregisters an input that `start`
registers a moment later, and that reader gathers until the agent is stopped.
`inputs/http_provider.go:20` says that the provider reloads an input when its
configuration changes.

Also met while modelling, without a run of their own:

- A reload of the logs agent in the same process (SIGHUP): the stop channel of
  the scanner is made once, in `NewScanner`, and closed by `Stop`
  (`logs/input/file/scanner.go:84`). After the reload `run` finds it closed and
  returns, `Start` waits in `LogSources.AddSource` on an unbuffered channel that
  nobody reads, and the signal handler with it; a second `Stop` would close a
  closed channel. `LogPipeline` therefore starts again only in a new process.
- `logs/sender/batch_strategy.go:157` forwards the messages of a payload that the
  destination refused to the auditor as well (the comment at
  `logs/auditor/auditor.go:51` speaks of messages successfully submitted). The
  properties therefore speak of settled messages, which include those.
- `Scanner.Stop` says that it "returns only when all the tailers are stopped".
  It does not wait for a tailer that was rotated or dismissed (`go tailer.Stop()`)
  or that a scan starts beside `cleanup`; `StopEnds` does not claim it. Such a
  tailer may send on the channel that `Processor.Stop` closes next
  (`logs/input/file/tailer.go:273`). `SafeGo` recovers from the panic. The message
  is not lost if the tailer tracks its offset, since the next process reads it
  again: `LogPipeline` has these steps. A tailer of a rotated file does not track
  its offset, and nobody reads the rest of that file again.
- A line of exactly `contentLenLimit` bytes makes its own line feed the first
  byte of the next line, which is then marked as truncated; and flags and
  aggregation may make a message longer than the limit the comments give.
- The ping of `connect` has no timeout and is sent under the write lock: a server
  that accepts connections and does not answer stops all callers until its
  connection ends. `CallsRecover` asks only for what follows once servers are well.
  An address that is configured twice leaks a connection (`ClientAssumption`
  excludes it).

## 4. Bounds

- Ibex: one id, at most two clocks, two generations, one crash and two runs of
  an object. Two runs are what a late request needs to meet the wrong run, two
  clocks what an old result needs to be mistaken for a new one, two generations
  what an overlap needs. In `IbexTask` the only caller may call any number of
  times, crashes are unbounded, and signals and disk writes may fail. In
  `ibex_agent` there is one slot, used again only when nothing refers to it any
  more (`Unreferenced`), and one run of an object; the theorems about
  `IbexHeartbeat` cover any number of both.
- Rpc client: three callers, two servers, two faults: one caller is in an
  RPC and one connects while a third closes. Two connections are as many as two
  servers need; a closed one is used again.
- Metric queue: size 3, batches of 2, calls of up to 2 series, 3 calls,
  two producers, two writers: the queue overflows, a batch is partial,
  a call fits only in part, writers overtake each other.
- Metrics agent: two SIGHUPs, one change of the configuration, an input with two
  configurations, one that the filter refuses, a local one, and a configuration
  whose initialisation may fail. Passes are unbounded. `metrics_overlap` needs no
  SIGHUP.
- Scanner: one source with two files and a limit of one tailer, so that the files
  compete; two tailers at a time, two changes of files, one fault.
- Decoder: a limit of three bytes and reads of up to three, every file of five
  bytes (six for containers), so that a line is cut, a separator falls
  on the limit and on the border of two reads, and two lines are aggregated; one
  restart at any offset sent.
- Pipeline: 3 or 4 messages, channels of capacity 1, payloads of up to 2 messages,
  0 or 2 concurrent sends, a stop and a crash in either order, and so three
  processes in a row (no crash in the liveness runs). Four messages fill each stage
  of the pipeline at once. In `log_commit` one message is excluded by a rule and one
  too large for a payload; in `log_live` one leaves no room for another in its
  payload and is added again after a flush.
  Of the tailing modes only `beginning` is run: in mode `end` a lost registry
  skips messages by design.

Symmetry is used for slots, and never in a liveness run.

## 5. Fairness

- `TaskFairness`: goroutines that can run do run, and the server answers a
  request for a task's script. Nothing makes the process of a task end.
- `IbexHeartbeat`: the goroutine of Stop runs and its timers fire; heartbeats
  run and calls of the server return. `Quit` is strongly fair, because Go's
  `select` chooses at random between a cancelled context and a timer.
  `StopReturns` needs none of the assumptions on heartbeats.
- `RpcClient`: callers run and calls time out; the lock is strongly fair, since
  `sync.RWMutex` lets no writer wait for ever.
- `MetricQueue`: the loop runs and each post returns (dialling and the wait for the
  response header have timeouts; that the body of the answer ends is assumed).
- `MetricsAgent`: the main goroutine and the reloaders run, and a server that is
  asked again and again answers in the end (strong fairness of `ServerAnswers`),
  an assumption on the server.
- `LogScanner`: the scanner's loop with its ticker, the tailers, their stop timers
  and `Stop` run. Files need not grow.
- `LogDecoder`: the goroutines run, the timers fire, and the file is read to its
  end.
- `LogPipeline`: every goroutine runs, an agent that is down is started again,
  and a message that is posted again and again is taken in the end (strong
  fairness of `PostSucceeds`). The last is an assumption on the destination, not
  on the code. `StopGivesUp` is not fair: `ForcedStopEnds` asks what happens if
  the stop is given time.

## 6. What is proved

TLAPS checks these for every value of the constants that satisfies the named
assumptions: `JobAssumption`, `SignalAssumption`, `MainAssumption`,
`HeartbeatAssumption`, `ClientAssumption`, `QueueAssumption`,
`AgentAssumption`, `ScannerAssumption`, `DecoderAssumption`, `AuditorAssumption`,
`SenderAssumption` and `PipelineAssumption`. They say that bounds are natural
numbers, sizes positive, the values for "none" different from all others, that there are
finitely many collectors, for the client that no server address is configured twice, and for the decoder that
the length limit is at least two, the length of the longest separator.

- `IbexTaskProofs`, the job: `JobInvariant`, `OnlyAskedRunsAreKilledAlways`,
  `DoneMeansPersistedAlways`. `OnlyAskedRunsAreKilled` is not inductive: it needs
  that a request in the channel was asked for (`RequestIsAsked`), and that a
  caller that still holds a channel holds that of the current run, which is then
  marked, or an older one (`CallIsKnown`). `DoneMeansPersisted` needs that `alive`
  says exactly that a goroutine is in `run()` (`AliveIsRunning`), and `ResultKept`,
  which allows for a result that a second run of the same clock is just writing
  again. `JobInv` is their conjunction with the types.
- `IbexTaskProofs`, the run: `TaskInvariant`, `TaskTypeOKAlways`,
  `NaturalCompletionKeptAlways`, `WriteFlagCommitsAlways`,
  `NoHandlerAfterRunAlways`, `TaskImplementsJob`. `TaskInv` adds that the handler
  works only while its run waits for it (`HandlerIsOwn`), that a process ends
  before its run (`ProcessIsOwn`) and that files are written in order
  (`FilesInOrder`). The refinement needs `HandlerIsOwn`: it is why taking a
  request is a step of the job, and why a status "killed" was asked for.
- `IbexHeartbeatProofs`: every safety property of the whole ibex agent, with any number of ids, objects, runs,
  generations and crashes: `HeartbeatInvariant`, `AgentTypes`,
  `RunsAreListedAlways`, `NoRunEscapesStopAlways`, `StopLeavesNothingAlways`,
  `NoSecondRunAlways`, `LoadedOutputIsOwnAlways`, `FinalReportIsCompleteAlways`.
  `HeartbeatInv` has four parts, each proved on top of the ones before.
  `TableInv`: the table is keyed by id, a task that is alive has a run, and its
  status shows it; `RunsAreListed` follows. `StopInv`: what StopAll waits for
  covers all that runs once nothing is accepted any more, and, unless it timed out,
  no run is left after its wait and no heartbeat after the join. `ReportInv`: without an overlap only one
  heartbeat is at work. `OrderInv`: the server's clocks are ahead of all that was
  applied, clocks are applied in order, and a run that ended is recorded with its
  output, unless it was lost; it is what `NoSecondRun` and `LoadedOutputIsOwn` need
  to survive a crash between any two writes.
- `RpcClientProofs`: `ClientInvariant`, `ClientTypes`,
  `CallsKeepTheirConnection`, `ConnectionsAreNotLeaked`, for any number of
  callers and servers. Both properties rest on who holds the lock (`LockInv`: the
  readers are the callers in an RPC, and while one connects there is no current
  connection) and on the connections of the connect under way (`ConnInv`).
- `MetricQueueProofs`: `QueueInvariant`, `QueueBoundedAlways`,
  `InOrderOnceAlways`, `AllOrNothingAlways`, `QueueImplementsFifo`. The invariant
  adds that a batch is pending as long as a writer has not written it
  (`BatchIsPending`), and that accepted series have numbers already given
  (`Numbered`), without which a refused call could find its series accepted by
  another. The refinement follows from `InOrderOnce`: what a writer has not been
  given yet is the rest of the batch and the queue. `CountersAddUpAlways` is about
  two sums, one over the bag of pending snapshots and one over the callers.
  `CountersInv` adds that a caller that is not in a call counts for nothing
  (`IdleCounts`); the lemmas before it say what such a sum becomes when a snapshot is
  added to the bag, taken from it, or one caller changes, by induction over the
  size of a finite set.
- `MetricsAgentProofs`: `AgentInvariant`, `AgentTypes`, `ReloadersAreCounted`,
  `AgentImplementsCollection`. `AgentInv` says that the differences the provider
  holds are those of the configuration in force (`ProviderInv`) and, as long as
  no pass has met a Start or a Stop, that Start registers only what does not run
  and Stop knows all that runs (`MainInv`), and that a pass registers only what
  does not run and deregisters only what is no longer configured (`PassInv`).

- `LogPipelineProofs`: `PipelineInvariant`, `PipelineTypes`,
  `NoSendOnClosedAlways`, `StopFlushesAlways`, `CommitCoversSettledAlways`, that
  is, every safety property of `log_commit`, for any number of messages, channel
  and payload sizes, concurrent sends, stops and crashes. `PipelineInv` has a part
  on control and one on data. Control: the stages end one after the other and take
  nothing more from then on (`StagesEnd`), the sender holds a message only between
  a full buffer and its flush (`SenderStates`), and before its time limit Stop
  cancels nothing early (`Unforced`); `NoSendOnClosed` is kept by these. Data:
  messages keep their order from stage to stage (`InOrder`), none that was read
  is lost before the context is cancelled (`NoneIsLost`), and what is forwarded to
  the auditor is settled (`ForwardedIsSettled`); with the control part,
  `StopFlushes` follows. `CommitCoversSettled` needs more (`CommitInv`): without
  concurrent sends all that comes before a posted payload is settled
  (`PostedInTurn`), and every offset on its way to the disk, in the auditor's
  channel, registry, copy or file, covers only settled messages
  (`OffsetsAreCovered`). It is proved for `FromTheBeginning`, the tailing modes
  that read a file without an entry from its start: the others skip messages by
  design. `PipelineImplementsDelivery` is the refinement, for every mode:
  `DeliveryInv` adds that only what is in the file is read or settled (`WithinFile`)
  and that every offset is that of a settled message (`OffsetsAreSettled`). The two
  need each other: a restart reads from an offset, and a settled message was read.
  Both rest on `OffsetsMove`, that no step makes up an offset. The step then maps
  action by action: `Log` writes, `Process` and `Flush` may leave a message out, a
  post settles its payload, and everything else changes the offsets at most.
- `LogScannerProofs`: `ScannerInvariant`, `LimitHoldsAlways`, `NoOrphansAlways`,
  for any sources, files, limits and numbers of tailers. `LimitHolds` is not
  inductive, since a scan compares with a count of its own: it needs that this
  count is never below the size of the map (`CountCovers`), although tailers end,
  are replaced or are dropped meanwhile.
- `LogDecoderProofs`: `DecoderInvariant`, `LengthsAddUpAlways`,
  `StopFlushesAlways`, for any files, limits and ways of cutting them into reads.
  `LengthsAddUp` alone does not bound the line buffer: `LimitAhead` says that the
  place where it would be full, which `decodeIncomingData` computes once per line,
  is where it would be full, and that the loop never steps over it. `Flushed` says
  that each goroutine has nothing left when it closes the channel behind it, which
  is what `StopFlushes` needs. `ChunkingIsIrrelevantAlways` compares the lines found so
  far with those of the whole file. Its invariant `ChunkInv` says that buffer and chunk
  together are the file from the beginning of the line up to what was read
  (`HoldsFile`), and that the file's lines are those found so far and the ones from there
  on, none of which ends in the part already searched (`LinesSoFar`); a separator or a
  limit that falls between two reads is thus found where a single read would find it.
  `CoversExactlyAlways` follows the bytes through the four goroutines: `PartsCover` says
  that each holds the visible bytes of the part of the file behind that of the next
  goroutine, and so each hand-over, cut, join, trim and flush moves a border between two
  parts.

Induction over data, which `CountersAddUpAlways`, `ChunkingIsIrrelevantAlways` and
`CoversExactlyAlways` need (sums, the lines of a file, visible bytes), does not use the library's induction theorems, whose operator parameters the provers
cannot instantiate. The proofs prove first-order induction principles instead, about
every set of numbers or of texts, and apply them to the set of those for which the
statement holds. The value of a recursive function is obtained in the same way: that a
function with its equations exists is proved by induction first.

Type correctness, `QueueBounded`, `AllOrNothing`, `InOrderOnce` and
`NoHandlerAfterRun` are proved and not repeated as invariants of a run; they are
conjuncts of the inductive invariants, or follow from them.

Every safety property that a passing run checks is thus proved, the four refinements of
abstract specifications included. Only model-checked are the
liveness properties: `AskedRunEnds`, `StopReturns`, `CancelledBeatEnds`, `CallsRecover`,
`AcceptedIsPosted`, `ConfigIsCollected`, `ReloadReturns`, `FilesAreTailed`,
`RotatedEnds`, `StopEnds`, `LinesComeOut`, `MessagesAreSettled` and
`ForcedStopEnds`. Liveness under fairness, and ENABLED with it, is out of the
prover's reach.

## 7. Not modelled

The modules stand for about 3,100 of some 153,000 lines of Go. About 121,000 of
the others are the input plugins under `inputs/`: some hundred collectors, each of
which asks an external system, parses its answer and formats samples. Nearly all
keep no state between two gatherings, run in one goroutine and share nothing with
the rest but the `Input` interface, so that a model of one would say what its
parser says, line by line. Of what is left, most is parsing of configuration, wire
formats, platform variants and adapters to libraries. The parts that have state
and concurrency of their own are modelled; what was left out of them, and the
parts left out altogether, are these.

- Ibex: the Windows variants of the process calls and character-set conversion. A
  report reads clock and status of a task in one step, and the clock it read is not
  recorded, so that `FinalReportIsComplete` speaks of status and output.
- Rpc client: errors that a server which is up returns itself, or an answer of it that
  comes later than the timeout. The caller closes the connection after them as after
  any other failure.
- Metric queue: test mode, the result of a post, and the push API, which calls
  the writers directly.
- Metrics agent: what a reader gathers and how an input is initialised; a `Drop`
  of an input that meets a gathering of it. Two concurrent calls of `LoadConfig`
  compute their differences one after the other. The stop of an old
  configuration before a new one starts (`preStop`, `inputs/http_provider.go:285`) is
  for the input `zabbix` only, which the repository does not have.
- Scanner: wildcards and the sorting of files; Windows; Go's fatal error for two
  goroutines in the map of tailers, which `Stop` and a scan can run into; two
  sources that share a file; offsets, which the registry may put anywhere; the one
  read that `readForever` may still finish when its stop signal has arrived.
- Decoder: the formats of container headers and JSON container lines (a header is
  a letter), multi-line patterns (a letter), character sets but UTF-16. The line
  feed that joins the lines of a multi-line message is written as two characters
  (`logs/decoder/multiline_handler.go:130`); the model keeps it one byte of white
  space. The messages of a rotated file, which carry no offset, and those that a
  cancelled `forwardContext` drops (`logs/input/file/tailer.go:255-258,272-275`).
- Sender: the additional destinations, of which the agent configures none
  (`agent/logs_endpoints.go:187,202`), the durations of the backoff, and the
  synchronous `Flush`, which nothing calls. With Kafka and `batch_max_concurrence`
  above 0 the producer is asynchronous and reports success before the broker has
  the message (`logs/client/kafka/producer.go:62-65`): `delivered` then means handed
  to the producer.
- Auditor: messages without an identifier, which `updateRegistry` ignores; those
  of rotated files are the ones that a file source has.
- Logs agent: several pipelines, panics other than that of a send on the closed
  channel and the restarts after them (`SafeGoWithRestart`), a Start after a Stop in the same process (section 3),
  redaction and encoding in the processor.
- The host heartbeat, a single loop that posts host facts; the embedded
  prometheus agent, a configuration of library components; the push API,
  configuration, service installation and self-update; log inputs other than
  files and the wire formats of destinations: I/O on external systems, static
  data or library code with little state of their own.

That the tailer of `LogScanner` with the decoder of `LogDecoder` implements the
reader of `LogPipeline` is not shown: the three share only the idea that a
message carries the offset at which a restart resumes, which `CoversExactly` and
`CommitCoversSettled` state for one each.

## 8. Running

```
tlc -workers 2 -config IbexTask.cfg MCIbexTask
tlc -workers 2 -config IbexAgent.cfg MCIbexHeartbeat
tlc -workers 2 -config RpcClient.cfg MCRpcClient
tlc -workers 2 -config MetricQueue.cfg MCMetricQueue
tlc -workers 2 -config MetricsAgent.cfg MCMetricsAgent
tlc -workers 2 -config LogScanner.cfg MCLogScanner
tlc -workers 2 -config LogDecoder.cfg MCLogDecoder
tlc -workers 2 -config LogCommit.cfg MCLogPipeline
tlapm IbexTaskProofs.tla
```

The other `*Proofs` modules are checked in the same way. Each run takes at most
two to three minutes with two workers; the proofs of the heartbeat, the metrics
agent, the scanner and the queue take three to seven minutes a module, those of the
decoder about seventeen. The line
`USE ZenonT(2), SMTT(30), ZenonT(60)` at the head of each proof module sets the
order in which the provers are tried, since most leaves are about records.

Under `mutants`, `PROJECT.json` names for each property a changed definition,
kept beside the real one, with which TLC finds the property violated.
