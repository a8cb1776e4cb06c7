----------------------------- MODULE MetricFifo -----------------------------
(***************************************************************************)
(* What the metric queue promises (writer/writers.go): one bounded first   *)
(* in, first out queue for each writer, all fed with the same series.  The *)
(* series of a call of WriteSamples enter only if no writer falls back     *)
(* further than a full queue and a batch.  A writer is given what it has   *)
(* not been given yet, in order, a batch at a time, and is never more than *)
(* a batch ahead of another: WriteTimeSeries serves all of them before the *)
(* next batch is taken.                                                    *)
(*                                                                         *)
(* Neither the list, nor its lock, nor the loop is in sight here.          *)
(***************************************************************************)
EXTENDS Naturals, Sequences

CONSTANTS
  Writers,    \* writerMap
  ChanSize,   \* WriterOpt.ChanSize
  Batch,      \* WriterOpt.Batch
  MaxCall     \* bound: series in one call

VARIABLES
  accepted,   \* the series that entered, in order
  posted      \* what each writer was given, in order

fifoVars == <<accepted, posted>>

Extends(s, t) == Len(s) < Len(t) /\ SubSeq(t, 1, Len(s)) = s

FifoInit ==
  /\ accepted = <<>>
  /\ posted = [w \in Writers |-> <<>>]

Accept ==
  /\ Extends(accepted, accepted')
  /\ Len(accepted') <= Len(accepted) + MaxCall
  /\ \A w \in Writers : Len(accepted') <= Len(posted[w]) + ChanSize + Batch
  /\ UNCHANGED posted

Give(w) ==
  /\ Extends(posted[w], posted'[w])
  /\ posted'[w] = SubSeq(accepted, 1, Len(posted'[w])) /\ Len(posted'[w]) <= Len(accepted)
  /\ \A v \in Writers : Len(posted'[w]) <= Len(posted[v]) + Batch
  /\ posted' = [posted EXCEPT ![w] = posted'[w]]
  /\ UNCHANGED accepted

FifoNext == Accept \/ \E w \in Writers : Give(w)
FifoSpec == FifoInit /\ [][FifoNext]_fifoVars
=============================================================================
