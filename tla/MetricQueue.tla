---------------------------- MODULE MetricQueue ----------------------------
(***************************************************************************)
(* The queue between the collectors and the remote writers:                *)
(* writer/writers.go over types/safe_list.go.                              *)
(*                                                                         *)
(* Collectors call WriteSamples, which puts all of its series into a       *)
(* bounded queue or none of them, reads the length of the queue and leaves *)
(* the statistics to a goroutine of its own.  One goroutine (LoopRead)     *)
(* takes the oldest series in batches and hands each batch to all writers  *)
(* at once, one goroutine per writer, and waits for all of them.           *)
(*                                                                         *)
(* The list is written here from its back (the oldest element) to its      *)
(* front.  A series is a number; numbers are given in the order of calls.  *)
(* A post that fails is logged and not tried again, so it changes nothing. *)
(***************************************************************************)
EXTENDS Naturals, Sequences, FiniteSets, Functions, Bags

CONSTANTS
  Producers,  \* goroutines that call WriteSamples
  Writers,    \* writerMap
  ChanSize,   \* WriterOpt.ChanSize
  Batch,      \* WriterOpt.Batch
  MaxCall,    \* bound: series in one call
  MaxCalls    \* bound: calls of WriteSamples

\* InitConfig replaces values that are not positive.
ASSUME QueueAssumption ==
  /\ IsFiniteSet(Producers)
  /\ ChanSize \in Nat \ {0}
  /\ Batch \in Nat \ {0}
  /\ MaxCall \in Nat
  /\ MaxCalls \in Nat

VARIABLES
  queue,      \* Writers.queue, oldest first
  producer,   \* where each caller of WriteSamples is
  snapshots,  \* goroutines in snapshot() that have not run yet: a bag of their arguments
  stats,      \* Writers.Snapshot
  loop,       \* LoopRead: the batch, and the writers that have not written it yet
  calls,      \* number of calls so far
  made,       \* number of series so far
  accepted,   \* history: the series that entered the queue, in order
  posted      \* history: what each writer was given, in order

vars == <<queue, producer, snapshots, stats, loop, calls, made, accepted, posted>>

NoCall == [pc |-> "idle", first |-> 1, count |-> 0, success |-> TRUE]
NoBatch == [batch |-> <<>>, todo |-> {}]

Init ==
  /\ queue = <<>>
  /\ producer = [p \in Producers |-> NoCall]
  /\ snapshots = EmptyBag
  /\ stats = [FailCount |-> 0, FailTotal |-> 0, TotalCount |-> 0, QueueSize |-> 0]
  /\ loop = NoBatch
  /\ calls = 0
  /\ made = 0
  /\ accepted = <<>>
  /\ posted = [w \in Writers |-> <<>>]

----------------------------------------------------------------------------
(* The list *)

\* PushFrontNIfNotFull: nothing to push always fits.
Fits(q, vs) == Len(vs) = 0 \/ Len(q) + Len(vs) <= ChanSize

Pushed(q, vs) == IF Fits(q, vs) THEN q \o vs ELSE q

\* What a push added.
Entered(q, vs) == SubSeq(Pushed(q, vs), Len(q) + 1, Len(Pushed(q, vs)))

\* PopBackN(n): how many elements it takes, which ones, and what is left.
PopCount(q) == IF Len(q) > Batch THEN Batch ELSE Len(q)
Popped(q) == SubSeq(q, 1, PopCount(q))
Left(q) == SubSeq(q, PopCount(q) + 1, Len(q))

----------------------------------------------------------------------------
(* WriteSamples and snapshot *)

\* Some of the samples may be left out by the conversion; the others are pushed.
WriteSamples(p) ==
  /\ producer[p].pc = "idle"
  /\ calls < MaxCalls
  /\ calls' = calls + 1
  /\ \E n \in 0..MaxCall :
       LET items == [i \in 1..n |-> made + i] IN
       /\ made' = made + n
       /\ queue' = Pushed(queue, items)
       /\ accepted' = accepted \o Entered(queue, items)
       /\ producer' = [producer EXCEPT ![p] =
            [pc |-> "len", first |-> made + 1, count |-> n, success |-> Fits(queue, items)]]
  /\ UNCHANGED <<snapshots, stats, loop, posted>>

\* The length is read under the list's lock, later than the push.
ReadLen(p) ==
  /\ producer[p].pc = "len"
  /\ snapshots' = snapshots (+) SetToBag({[count |-> producer[p].count, size |-> Len(queue),
                                           success |-> producer[p].success]})
  /\ producer' = [producer EXCEPT ![p] = NoCall]
  /\ UNCHANGED <<queue, stats, loop, calls, made, accepted, posted>>

\* Refused series are counted as failed only.
CountedOnce(s, a) ==
  [FailCount  |-> IF a.success THEN s.FailCount ELSE s.FailCount + 1,
   FailTotal  |-> IF a.success THEN s.FailTotal ELSE s.FailTotal + a.count,
   TotalCount |-> IF a.success THEN s.TotalCount + a.count ELSE s.TotalCount,
   QueueSize  |-> a.size]
\* The statistics after snapshot(count, size, success).
Counted(s, a) ==
  [FailCount  |-> IF a.success THEN s.FailCount ELSE s.FailCount + 1,
   FailTotal  |-> IF a.success THEN s.FailTotal ELSE s.FailTotal + a.count,
   TotalCount |-> s.TotalCount + a.count,
   QueueSize  |-> a.size]

\* The goroutines run in any order.
Snapshot ==
  /\ \E a \in BagToSet(snapshots) :
       /\ snapshots' = snapshots (-) SetToBag({a})
       /\ stats' = Counted(stats, a)
  /\ UNCHANGED <<queue, producer, loop, calls, made, accepted, posted>>

----------------------------------------------------------------------------
(* LoopRead and WriteTimeSeries *)

\* The loop waits until a whole batch is there.
LoopPopsFull ==
  /\ loop.batch = <<>>
  /\ Len(queue) >= Batch
  /\ loop' = [batch |-> Popped(queue), todo |-> Writers]
  /\ queue' = Left(queue)
  /\ UNCHANGED <<producer, snapshots, stats, calls, made, accepted, posted>>

\* A batch is taken; with an empty queue the loop sleeps and looks again.
LoopPops ==
  /\ loop.batch = <<>>
  /\ queue # <<>>
  /\ loop' = [batch |-> Popped(queue), todo |-> Writers]
  /\ queue' = Left(queue)
  /\ UNCHANGED <<producer, snapshots, stats, calls, made, accepted, posted>>

\* The goroutine of writer w has done its post, well or not.
Write(w) ==
  /\ w \in loop.todo
  /\ posted' = [posted EXCEPT ![w] = @ \o loop.batch]
  /\ loop' = [loop EXCEPT !.todo = @ \ {w}]
  /\ UNCHANGED <<queue, producer, snapshots, stats, calls, made, accepted>>

\* WriteTimeSeries without wg.Wait: the first writer that is done is enough.
WroteOne ==
  /\ loop.batch # <<>>
  /\ loop.todo # Writers
  /\ loop' = NoBatch
  /\ UNCHANGED <<queue, producer, snapshots, stats, calls, made, accepted, posted>>

\* wg.Wait returns.
Wrote ==
  /\ loop.batch # <<>>
  /\ loop.todo = {}
  /\ loop' = NoBatch
  /\ UNCHANGED <<queue, producer, snapshots, stats, calls, made, accepted, posted>>

LoopRead == LoopPops \/ Wrote \/ \E w \in Writers : Write(w)

Next ==
  \/ \E p \in Producers : WriteSamples(p) \/ ReadLen(p)
  \/ Snapshot
  \/ LoopRead

Spec == Init /\ [][Next]_vars

\* LoopRead runs, and every post returns (each writer has its own goroutine).
Fairness == WF_vars(LoopPops \/ Wrote) /\ \A w \in Writers : WF_vars(Write(w))
LiveSpec == Spec /\ Fairness

----------------------------------------------------------------------------
(* Properties *)

CallRecord == [pc : {"idle", "len"}, first : Nat, count : Nat, success : BOOLEAN]

\* The queue never holds more than ChanSize series, however many collectors
\* push at once (the length is tested and the elements are pushed under one
\* lock), and a batch never has more than Batch.
QueueBounded == Len(queue) <= ChanSize /\ Len(loop.batch) <= Batch

\* Every writer is given every accepted series once, in the order in which the
\* series entered the queue: what it was given, then the batch it is still to
\* be given, then the queue, are the accepted series.  A slow writer does not
\* lose a batch to a faster one (WriteTimeSeries waits for all).
InOrderOnce ==
  \A w \in Writers :
    accepted = posted[w] \o (IF w \in loop.todo THEN loop.batch ELSE <<>>) \o queue

\* A call is accepted as a whole or refused as a whole, and the caller is told
\* which, although others push and the loop pops meanwhile.
AllOrNothing ==
  \A p \in Producers :
    LET c == producer[p]
        items == c.first .. (c.first + c.count - 1) IN
    c.pc = "len" => IF c.success THEN items \subseteq Range(accepted)
                                 ELSE items \cap Range(accepted) = {}

Sum(count(_)) ==
  SumFunction([a \in BagToSet(snapshots) |-> snapshots[a] * count(a)])
    + SumFunction([p \in Producers |-> count(producer[p])])

\* The counters that the self-monitoring plugin reports lose nothing to the
\* order in which the snapshot goroutines run: together with what is on its way
\* to them, TotalCount is the number of series offered to the queue, and
\* FailTotal the number of those refused.
CountersAddUp ==
  /\ stats.TotalCount + Sum(LAMBDA a : a.count) = made
  /\ stats.FailTotal + Sum(LAMBDA a : IF a.success THEN 0 ELSE a.count) + Len(accepted) = made

\* The queue with its lock, its callers and its loop is a bounded first in,
\* first out queue for each writer: each is given what was accepted, once and
\* in order, never more than a batch ahead of another, and none falls further
\* behind than a full queue and a batch.
Fifo == INSTANCE MetricFifo
ImplementsFifo == Fifo!FifoSpec

\* Every accepted series is given to every writer in the end, also when the
\* queue never fills a batch.
AcceptedIsPosted ==
  \A s \in 1..(MaxCall * MaxCalls), w \in Writers :
    s \in Range(accepted) ~> s \in Range(posted[w])
============================================================================
