------------------------- MODULE MetricQueueProofs -------------------------
(***************************************************************************)
(* Proofs about the metric queue, for every number of collectors, writers, *)
(* series and calls and every size of queue and batch.                     *)
(***************************************************************************)
EXTENDS MetricQueue, SequenceTheorems, FiniteSetTheorems, WellFoundedInduction, TLAPS

\* The provers, in the order in which they are tried.
USE ZenonT(2), SMTT(30), ZenonT(60)

\* The types of what the proofs speak about (the statistics are left out).
QueueTypes ==
  /\ queue \in Seq(Nat)
  /\ producer \in [Producers -> CallRecord]
  /\ loop \in [batch : Seq(Nat), todo : SUBSET Writers]
  /\ made \in Nat
  /\ accepted \in Seq(Nat)
  /\ posted \in [Writers -> Seq(Nat)]

\* Only a batch that exists is still to be written.
BatchIsPending == loop.batch = <<>> => loop.todo = {}

\* Series are numbered in the order of the calls, so those of a later call
\* are not those of a call that was refused.
Numbered ==
  /\ \A x \in Range(accepted) : x <= made
  /\ \A p \in Producers : producer[p].pc = "len" => producer[p].first + producer[p].count = made + 1
                                                    \/ producer[p].first + producer[p].count <= made

\* The inductive invariant.
QInv == QueueTypes /\ BatchIsPending /\ QueueBounded /\ InOrderOnce /\ Numbered /\ AllOrNothing

----------------------------------------------------------------------------
\* Concatenation is associative on sequences of series.
LEMMA Associative ==
  ASSUME NEW s \in Seq(Nat), NEW t \in Seq(Nat), NEW u \in Seq(Nat)
  PROVE  (s \o t) \o u = s \o (t \o u)
BY ConcatAssociative, SMTT(90)

\* What a concatenation holds.
LEMMA RangeOfConcat ==
  ASSUME NEW s \in Seq(Nat), NEW t \in Seq(Nat)
  PROVE  Range(s \o t) = Range(s) \cup Range(t)
BY RangeConcatenation

\* A push adds all of the series or none, as the answer of the call says, and
\* stays within the size of the queue (PushFrontNIfNotFull).
LEMMA PushProperties ==
  ASSUME NEW q \in Seq(Nat), NEW vs \in Seq(Nat), Len(q) <= ChanSize
  PROVE  /\ Entered(q, vs) = IF Fits(q, vs) THEN vs ELSE <<>>
         /\ Pushed(q, vs) = q \o Entered(q, vs)
         /\ Pushed(q, vs) \in Seq(Nat)
         /\ Entered(q, vs) \in Seq(Nat)
         /\ Len(Pushed(q, vs)) <= ChanSize
<1>1. /\ Len(q) \in Nat /\ Len(vs) \in Nat /\ ChanSize \in Nat
      /\ q \o vs \in Seq(Nat) /\ Len(q \o vs) = Len(q) + Len(vs)
      /\ q \o <<>> = q
  BY QueueAssumption, LenProperties, ConcatProperties, ConcatEmptySeq
<1>2. CASE Fits(q, vs)
  <2>1. Pushed(q, vs) = q \o vs
    BY <1>2 DEF Pushed
  <2>2. CASE vs = <<>>
    <3>1. Len(vs) = 0 /\ Pushed(q, vs) = q
      BY <2>1, <2>2, <1>1
    <3>2. SubSeq(q, Len(q) + 1, Len(q)) = <<>>
      BY <1>1, SubSeqEmpty
    <3> QED BY <1>1, <1>2, <2>2, <3>1, <3>2 DEF Entered
  <2>3. CASE vs # <<>>
    <3>1. Len(vs) > 0
      BY <2>3, <1>1, EmptySeq
    <3>2. SubSeq(q \o vs, Len(q) + 1, Len(q) + Len(vs)) = SubSeq(vs, 1, Len(vs))
      BY <1>1, <3>1, SubSeqOfConcat2
    <3>3. SubSeq(vs, 1, Len(vs)) = vs
      BY SubSeqFull
    <3>4. Entered(q, vs) = vs
      BY <1>1, <2>1, <3>2, <3>3 DEF Entered
    <3> QED BY <1>1, <1>2, <2>1, <3>1, <3>4 DEF Fits
  <2> QED BY <2>2, <2>3
<1>3. CASE ~Fits(q, vs)
  <2>1. Pushed(q, vs) = q
    BY <1>3 DEF Pushed
  <2>2. SubSeq(q, Len(q) + 1, Len(q)) = <<>>
    BY <1>1, SubSeqEmpty
  <2> QED BY <1>1, <1>3, <2>1, <2>2 DEF Entered
<1> QED BY <1>2, <1>3

\* PopBackN splits the queue in two and takes at least one element of a queue
\* that is not empty.
LEMMA PopProperties ==
  ASSUME NEW q \in Seq(Nat), q # <<>>
  PROVE  /\ Popped(q) \in Seq(Nat) /\ Left(q) \in Seq(Nat)
         /\ q = Popped(q) \o Left(q)
         /\ Len(Popped(q)) <= Batch
         /\ Popped(q) # <<>>
         /\ Len(Left(q)) <= Len(q)
<1> DEFINE n == PopCount(q)
<1>1. Len(q) \in Nat \ {0} /\ Batch \in Nat \ {0}
  BY QueueAssumption, LenProperties, EmptySeq
<1>2. n \in 1..Len(q) /\ n <= Batch
  BY <1>1 DEF PopCount
<1> HIDE DEF n
<1>3. \A i \in 1..Len(q) : q[i] \in Nat
  BY ElementOfSeq
<1>4. SubSeq(q, 1, n) \in Seq(Nat) /\ Len(SubSeq(q, 1, n)) = n
  BY <1>1, <1>2, <1>3, SubSeqProperties
<1>5. SubSeq(q, n + 1, Len(q)) \in Seq(Nat) /\ Len(SubSeq(q, n + 1, Len(q))) <= Len(q)
  <2>1. \A i \in (n + 1)..Len(q) : q[i] \in Nat
    BY <1>1, <1>2, <1>3
  <2>2. n + 1 \in Int /\ Len(q) \in Int
    BY <1>1, <1>2
  <2>3. /\ SubSeq(q, n + 1, Len(q)) \in Seq(Nat)
        /\ Len(SubSeq(q, n + 1, Len(q))) = IF n + 1 <= Len(q) THEN Len(q) - (n + 1) + 1 ELSE 0
    BY <2>1, <2>2, SubSeqProperties
  <2> QED BY <2>3, <1>1, <1>2
<1>6. SubSeq(q, 1, n) \o SubSeq(q, n + 1, Len(q)) = SubSeq(q, 1, Len(q))
  <2>1. 1 \in 1..(Len(q) + 1) /\ n \in (1 - 1)..Len(q) /\ Len(q) \in n..Len(q)
    BY <1>1, <1>2
  <2> QED BY <2>1, ConcatAdjacentSubSeq
<1>7. SubSeq(q, 1, Len(q)) = q
  BY SubSeqFull
<1>8. SubSeq(q, 1, n) # <<>>
  BY <1>2, <1>4, EmptySeq
<1> QED BY <1>2, <1>4, <1>5, <1>6, <1>7, <1>8 DEF Popped, Left, n

----------------------------------------------------------------------------
\* The empty queue satisfies the invariant.
LEMMA QInvInit == Init => QInv
<1> SUFFICES ASSUME Init PROVE QInv
  OBVIOUS
<1>1. <<>> \in Seq(Nat) /\ Len(<<>>) = 0 /\ <<>> \o <<>> = <<>>
  BY EmptySeq, ConcatEmptySeq
<1>2. QueueTypes
  <2>1. NoCall \in CallRecord
    BY DEF NoCall, CallRecord
  <2>2. NoBatch \in [batch : Seq(Nat), todo : SUBSET Writers]
    BY <1>1 DEF NoBatch
  <2> QED BY <1>1, <2>1, <2>2 DEF Init, QueueTypes
<1>3. BatchIsPending
  BY DEF Init, NoBatch, BatchIsPending
<1>4. QueueBounded
  BY <1>1, QueueAssumption DEF Init, NoBatch, QueueBounded
<1>5. InOrderOnce
  BY <1>1 DEF Init, NoBatch, InOrderOnce
<1>6. Numbered /\ AllOrNothing
  <2>1. Range(accepted) = {}
    BY DEF Init, Range
  <2>2. \A p \in Producers : producer[p].pc # "len"
    BY DEF Init, NoCall
  <2> QED BY <2>1, <2>2 DEF Numbered, AllOrNothing
<1> QED BY <1>2, <1>3, <1>4, <1>5, <1>6 DEF QInv

\* WriteSamples keeps the invariant: the queue and the accepted series grow by
\* the same elements, whose numbers are new.
LEMMA WriteSamplesKeeps ==
  ASSUME QInv, NEW p \in Producers, WriteSamples(p)
  PROVE  QInv'
<1> USE DEF QInv
<1>0. PICK n \in 0..MaxCall :
        LET items == [i \in 1..n |-> made + i] IN
        /\ made' = made + n
        /\ queue' = Pushed(queue, items)
        /\ accepted' = accepted \o Entered(queue, items)
        /\ producer' = [producer EXCEPT ![p] =
             [pc |-> "len", first |-> made + 1, count |-> n, success |-> Fits(queue, items)]]
  BY DEF WriteSamples
<1> DEFINE items == [i \in 1..n |-> made + i]
           new == Entered(queue, items)
           ok == Fits(queue, items)
           call == [pc |-> "len", first |-> made + 1, count |-> n, success |-> ok]
<1>1. /\ made' = made + n /\ queue' = Pushed(queue, items) /\ accepted' = accepted \o new
      /\ producer' = [producer EXCEPT ![p] = call]
      /\ loop' = loop /\ posted' = posted
  BY <1>0 DEF WriteSamples
<1>2. n \in Nat /\ made \in Nat /\ ok \in BOOLEAN
  BY QueueAssumption DEF QueueTypes, Fits
<1>3. items \in Seq(Nat) /\ Len(items) = n
  <2>1. \A i \in 1..n : made + i \in Nat
    BY <1>2
  <2> QED BY <1>2, <2>1
<1>4. \A i \in 1..n : items[i] = made + i
  OBVIOUS
<1> HIDE DEF items
<1>5. /\ new = IF ok THEN items ELSE <<>>
      /\ queue' = queue \o new
      /\ queue' \in Seq(Nat) /\ new \in Seq(Nat)
      /\ Len(queue') <= ChanSize
  BY <1>1, <1>3, PushProperties DEF QueueTypes, QueueBounded
<1> HIDE DEF new, ok
<1>6. accepted' \in Seq(Nat) /\ Range(accepted') = Range(accepted) \cup Range(new)
  <2>1. accepted \in Seq(Nat)
    BY DEF QueueTypes
  <2>2. accepted \o new \in Seq(Nat)
    BY <2>1, <1>5, ConcatProperties
  <2>3. new \in Seq(Nat)
    BY <1>5
  <2>4. Range(accepted \o new) = Range(accepted) \cup Range(new)
    BY <2>1, <2>3, RangeOfConcat
  <2> QED BY <1>1, <2>2, <2>4
<1>7. Range(accepted) \subseteq Nat /\ \A x \in Range(accepted) : x <= made
  BY RangeOfSeq DEF QueueTypes, Numbered
<1>8. call \in CallRecord
  <2>1. made + 1 \in Nat
    BY <1>2
  <2> QED BY <1>2, <2>1 DEF CallRecord
<1>9. QueueTypes'
  <2>1. made' \in Nat
    BY <1>1, <1>2
  <2>2. producer' \in [Producers -> CallRecord]
    BY <1>1, <1>8 DEF QueueTypes
  <2> QED BY <1>1, <1>5, <1>6, <2>1, <2>2 DEF QueueTypes
<1>10. BatchIsPending' /\ QueueBounded'
  BY <1>1, <1>5 DEF BatchIsPending, QueueBounded
<1>11. InOrderOnce'
  <2> SUFFICES ASSUME NEW w \in Writers
               PROVE  accepted' = posted[w] \o (IF w \in loop.todo THEN loop.batch ELSE <<>>) \o queue'
    BY <1>1 DEF InOrderOnce
  <2> DEFINE b == IF w \in loop.todo THEN loop.batch ELSE <<>>
  <2>1. b \in Seq(Nat) /\ posted[w] \in Seq(Nat) /\ queue \in Seq(Nat)
    BY EmptySeq DEF QueueTypes
  <2>2. accepted = (posted[w] \o b) \o queue
    BY DEF InOrderOnce
  <2> HIDE DEF b
  <2>3. posted[w] \o b \in Seq(Nat)
    BY <2>1, ConcatProperties
  <2> DEFINE before == posted[w] \o b
  <2>4. before \in Seq(Nat) /\ accepted = before \o queue
    BY <2>2, <2>3
  <2> HIDE DEF before
  <2>5. (before \o queue) \o new = before \o (queue \o new)
    <3>1. before \in Seq(Nat) /\ queue \in Seq(Nat) /\ new \in Seq(Nat)
      BY <2>1, <2>4, <1>5
    <3> QED BY <3>1, Associative
  <2>6. accepted' = before \o queue'
    BY <1>1, <1>5, <2>4, <2>5
  <2> QED BY <2>6 DEF b, before
<1>12. Range(new) = IF ok THEN (made + 1)..(made + n) ELSE {}
  <2>1. Range(<<>>) = {}
    BY DEF Range
  <2>2. Range(items) = {items[i] : i \in 1..n}
    BY <1>3, LenProperties DEF Range
  <2>3. \A i \in 1..n : items[i] \in (made + 1)..(made + n)
    BY <1>2, <1>4
  <2>4. \A x \in (made + 1)..(made + n) : x - made \in 1..n /\ items[x - made] = x
    BY <1>2, <1>4
  <2>5. Range(items) = (made + 1)..(made + n)
    BY <2>2, <2>3, <2>4
  <2> QED BY <1>5, <2>1, <2>5
<1>13. Numbered'
  <2>1. \A x \in Range(accepted') : x <= made'
    BY <1>1, <1>2, <1>6, <1>7, <1>12
  <2>2. ASSUME NEW r \in Producers, producer'[r].pc = "len"
        PROVE  producer'[r].first + producer'[r].count = made' + 1
                 \/ producer'[r].first + producer'[r].count <= made'
    <3>1. CASE r = p
      BY <3>1, <1>1, <1>2 DEF QueueTypes
    <3>2. CASE r # p
      <4>1. producer'[r] = producer[r] /\ producer[r].first \in Nat /\ producer[r].count \in Nat
        BY <3>2, <1>1 DEF QueueTypes, CallRecord
      <4> QED BY <2>2, <4>1, <1>1, <1>2 DEF Numbered
    <3> QED BY <3>1, <3>2
  <2> QED BY <2>1, <2>2 DEF Numbered
<1>14. AllOrNothing'
  <2> SUFFICES ASSUME NEW r \in Producers, producer'[r].pc = "len"
               PROVE  LET its == producer'[r].first .. (producer'[r].first + producer'[r].count - 1) IN
                      IF producer'[r].success THEN its \subseteq Range(accepted')
                                              ELSE its \cap Range(accepted') = {}
    BY DEF AllOrNothing
  <2>1. CASE r = p
    <3>1. /\ producer'[r].first = made + 1 /\ producer'[r].count = n
          /\ producer'[r].success = ok
      BY <2>1, <1>1 DEF QueueTypes
    <3>2. made + 1 + n - 1 = made + n
      BY <1>2
    <3>3. (made + 1)..(made + n) \cap Range(accepted) = {}
      BY <1>2, <1>7
    <3> QED BY <3>1, <3>2, <3>3, <1>6, <1>12
  <2>2. CASE r # p
    <3>1. producer'[r] = producer[r] /\ producer[r].pc = "len"
      BY <2>2, <1>1 DEF QueueTypes
    <3>2. producer[r].first \in Nat /\ producer[r].count \in Nat
      BY DEF QueueTypes, CallRecord
    <3> DEFINE its == producer[r].first .. (producer[r].first + producer[r].count - 1)
    <3>3. IF producer[r].success THEN its \subseteq Range(accepted) ELSE its \cap Range(accepted) = {}
      BY <3>1 DEF AllOrNothing
    <3>4. \A x \in its : x <= made /\ x \in Int
      BY <3>1, <3>2, <1>2 DEF Numbered
    <3>5. its \cap Range(new) = {}
      BY <3>4, <1>12, <1>2
    <3> QED BY <3>1, <3>3, <3>5, <1>6
  <2> QED BY <2>1, <2>2
<1> QED BY <1>9, <1>10, <1>11, <1>13, <1>14

\* Reading the length only ends the call.
LEMMA ReadLenKeeps ==
  ASSUME QInv, NEW p \in Producers, ReadLen(p)
  PROVE  QInv'
<1> USE DEF QInv
<1>1. /\ producer' = [producer EXCEPT ![p] = NoCall]
      /\ queue' = queue /\ loop' = loop /\ made' = made /\ accepted' = accepted /\ posted' = posted
  BY DEF ReadLen
<1>2. NoCall \in CallRecord /\ NoCall.pc = "idle"
  BY DEF NoCall, CallRecord
<1>3. \A r \in Producers : producer'[r].pc = "len" => producer'[r] = producer[r]
  BY <1>1, <1>2 DEF QueueTypes
<1>4. QueueTypes'
  BY <1>1, <1>2 DEF QueueTypes
<1>5. BatchIsPending' /\ QueueBounded' /\ InOrderOnce'
  BY <1>1 DEF BatchIsPending, QueueBounded, InOrderOnce
<1>6. Numbered'
  BY <1>1, <1>3 DEF Numbered
<1>7. AllOrNothing'
  BY <1>1, <1>3 DEF AllOrNothing
<1> QED BY <1>4, <1>5, <1>6, <1>7

\* Taking a batch: every writer is to be given it, before the rest of the queue.
LEMMA LoopPopsKeeps ==
  ASSUME QInv, LoopPops
  PROVE  QInv'
<1> USE DEF QInv
<1>1. /\ loop.batch = <<>> /\ queue # <<>>
      /\ loop' = [batch |-> Popped(queue), todo |-> Writers] /\ queue' = Left(queue)
      /\ producer' = producer /\ made' = made /\ accepted' = accepted /\ posted' = posted
  BY DEF LoopPops
<1>2. /\ Popped(queue) \in Seq(Nat) /\ Left(queue) \in Seq(Nat)
      /\ queue = Popped(queue) \o Left(queue)
      /\ Len(Popped(queue)) <= Batch /\ Popped(queue) # <<>>
      /\ Len(Left(queue)) <= Len(queue)
  BY <1>1, PopProperties DEF QueueTypes
<1>3. QueueTypes' /\ BatchIsPending'
  BY <1>1, <1>2 DEF QueueTypes, BatchIsPending
<1>4. QueueBounded'
  <2>1. Len(queue) \in Nat /\ Len(Left(queue)) \in Nat /\ ChanSize \in Nat
    BY <1>2, QueueAssumption, LenProperties DEF QueueTypes
  <2> QED BY <1>1, <1>2, <2>1 DEF QueueBounded
<1>5. InOrderOnce'
  <2> SUFFICES ASSUME NEW w \in Writers
               PROVE  accepted = (posted[w] \o Popped(queue)) \o Left(queue)
    BY <1>1 DEF InOrderOnce
  <2>1. posted[w] \in Seq(Nat)
    BY DEF QueueTypes
  <2>2. w \notin loop.todo
    BY <1>1 DEF BatchIsPending
  <2>3. accepted = (posted[w] \o <<>>) \o queue
    BY <2>2 DEF InOrderOnce
  <2>4. posted[w] \o <<>> = posted[w]
    BY <2>1, ConcatEmptySeq
  <2>5. (posted[w] \o Popped(queue)) \o Left(queue) = posted[w] \o (Popped(queue) \o Left(queue))
    BY <2>1, <1>2, Associative
  <2>6. posted[w] \o (Popped(queue) \o Left(queue)) = posted[w] \o queue
    BY <1>2
  <2> QED BY <2>3, <2>4, <2>5, <2>6
<1>6. Numbered' /\ AllOrNothing'
  BY <1>1 DEF Numbered, AllOrNothing
<1> QED BY <1>3, <1>4, <1>5, <1>6

\* A post moves the batch from what a writer is to be given to what it was given.
LEMMA WriteKeeps ==
  ASSUME QInv, NEW w \in Writers, Write(w)
  PROVE  QInv'
<1> USE DEF QInv
<1>1. /\ w \in loop.todo
      /\ posted' = [posted EXCEPT ![w] = posted[w] \o loop.batch]
      /\ loop' = [loop EXCEPT !.todo = loop.todo \ {w}]
      /\ queue' = queue /\ producer' = producer /\ made' = made /\ accepted' = accepted
  BY DEF Write
<1>2. posted[w] \in Seq(Nat) /\ loop.batch \in Seq(Nat)
  BY DEF QueueTypes
<1>3. posted[w] \o loop.batch \in Seq(Nat)
  BY <1>2, ConcatProperties
<1>4. loop'.batch = loop.batch /\ loop'.todo = loop.todo \ {w}
  BY <1>1 DEF QueueTypes
<1>5. QueueTypes'
  <2>1. loop' \in [batch : Seq(Nat), todo : SUBSET Writers]
    BY <1>1 DEF QueueTypes
  <2>2. posted' \in [Writers -> Seq(Nat)]
    BY <1>1, <1>3 DEF QueueTypes
  <2> QED BY <1>1, <2>1, <2>2 DEF QueueTypes
<1>6. BatchIsPending' /\ QueueBounded'
  BY <1>1, <1>4 DEF BatchIsPending, QueueBounded
<1>7. InOrderOnce'
  <2> SUFFICES ASSUME NEW v \in Writers
               PROVE  accepted = posted'[v] \o (IF v \in loop'.todo THEN loop'.batch ELSE <<>>) \o queue
    BY <1>1 DEF InOrderOnce
  <2>1. CASE v = w
    <3>1. posted'[v] = posted[w] \o loop.batch /\ v \notin loop'.todo
      BY <2>1, <1>1, <1>4 DEF QueueTypes
    <3>2. (posted[w] \o loop.batch) \o <<>> = posted[w] \o loop.batch
      BY <1>3, ConcatEmptySeq
    <3>3. accepted = (posted[w] \o loop.batch) \o queue
      BY <1>1 DEF InOrderOnce
    <3> QED BY <3>1, <3>2, <3>3
  <2>2. CASE v # w
    <3>1. posted'[v] = posted[v] /\ (v \in loop'.todo <=> v \in loop.todo)
      BY <2>2, <1>1, <1>4 DEF QueueTypes
    <3> QED BY <3>1, <1>4 DEF InOrderOnce
  <2> QED BY <2>1, <2>2
<1>8. Numbered' /\ AllOrNothing'
  BY <1>1 DEF Numbered, AllOrNothing
<1> QED BY <1>5, <1>6, <1>7, <1>8

\* The batch is dropped only when every writer was given it.
LEMMA WroteKeeps ==
  ASSUME QInv, Wrote
  PROVE  QInv'
<1> USE DEF QInv
<1>1. /\ loop.todo = {} /\ loop' = NoBatch
      /\ queue' = queue /\ producer' = producer /\ made' = made /\ accepted' = accepted
      /\ posted' = posted
  BY DEF Wrote
<1>2. <<>> \in Seq(Nat) /\ Len(<<>>) = 0 /\ Batch \in Nat
  BY EmptySeq, QueueAssumption
<1>3. QueueTypes' /\ BatchIsPending' /\ QueueBounded'
  BY <1>1, <1>2 DEF NoBatch, QueueTypes, BatchIsPending, QueueBounded
<1>4. InOrderOnce'
  BY <1>1 DEF NoBatch, InOrderOnce
<1>5. Numbered' /\ AllOrNothing'
  BY <1>1 DEF Numbered, AllOrNothing
<1> QED BY <1>3, <1>4, <1>5

\* Every step keeps the invariant; the statistics are not part of it.
LEMMA QInvNext == QInv /\ [Next]_vars => QInv'
<1> SUFFICES ASSUME QInv, [Next]_vars PROVE QInv'
  OBVIOUS
<1>1. ASSUME NEW p \in Producers, WriteSamples(p) PROVE QInv'
  BY <1>1, WriteSamplesKeeps
<1>2. ASSUME NEW p \in Producers, ReadLen(p) PROVE QInv'
  BY <1>2, ReadLenKeeps
<1>3. CASE Snapshot \/ UNCHANGED vars
  <2>1. /\ queue' = queue /\ producer' = producer /\ loop' = loop
        /\ made' = made /\ accepted' = accepted /\ posted' = posted
    BY <1>3 DEF Snapshot, vars
  <2> QED BY <2>1 DEF QInv, QueueTypes, BatchIsPending, QueueBounded, InOrderOnce, Numbered, AllOrNothing
<1>4. CASE LoopPops
  BY <1>4, LoopPopsKeeps
<1>5. CASE Wrote
  BY <1>5, WroteKeeps
<1>6. ASSUME NEW w \in Writers, Write(w) PROVE QInv'
  BY <1>6, WriteKeeps
<1> QED BY <1>1, <1>2, <1>3, <1>4, <1>5, <1>6 DEF Next, LoopRead

\* The inductive invariant of the queue, the callers and the loop holds in
\* every reachable state.
THEOREM QueueInvariant == Spec => []QInv
BY QInvInit, QInvNext, PTL DEF Spec

\* However many collectors call WriteSamples at once, the queue stays within
\* ChanSize and a batch within Batch.
THEOREM QueueBoundedAlways == Spec => []QueueBounded
<1>1. QInv => QueueBounded
  BY DEF QInv
<1> QED BY <1>1, QueueInvariant, PTL

\* Every writer is given every series that WriteSamples put into the queue
\* exactly once and in the order of the queue.
THEOREM InOrderOnceAlways == Spec => []InOrderOnce
<1>1. QInv => InOrderOnce
  BY DEF QInv
<1> QED BY <1>1, QueueInvariant, PTL

\* PushFrontN takes a call as a whole or not at all, as it answers.
THEOREM AllOrNothingAlways == Spec => []AllOrNothing
<1>1. QInv => AllOrNothing
  BY DEF QInv
<1> QED BY <1>1, QueueInvariant, PTL

----------------------------------------------------------------------------
(* The queue implements a first in, first out queue for each writer *)

\* What is appended to a sequence leaves it a prefix.
LEMMA PrefixOfConcat ==
  ASSUME NEW s \in Seq(Nat), NEW t \in Seq(Nat)
  PROVE  /\ SubSeq(s \o t, 1, Len(s)) = s
         /\ t # <<>> => Fifo!Extends(s, s \o t)
         /\ Len(s \o t) = Len(s) + Len(t) /\ Len(s) \in Nat /\ Len(t) \in Nat
<1>1. s \o t \in Seq(Nat) /\ Len(s \o t) = Len(s) + Len(t) /\ Len(s) \in Nat /\ Len(t) \in Nat
  BY ConcatProperties, LenProperties
<1>2. \A i \in 1..Len(s) : (s \o t)[i] = s[i] /\ s[i] \in Nat
  BY <1>1, ConcatProperties, ElementOfSeq
<1>3. /\ SubSeq(s \o t, 1, Len(s)) \in Seq(Nat) /\ Len(SubSeq(s \o t, 1, Len(s))) = Len(s)
      /\ \A i \in 1..Len(s) : SubSeq(s \o t, 1, Len(s))[i] = s[i]
  <2>1. \A i \in 1..Len(s) : (s \o t)[i] \in Nat
    BY <1>2
  <2>2. /\ SubSeq(s \o t, 1, Len(s)) \in Seq(Nat)
        /\ Len(SubSeq(s \o t, 1, Len(s))) = IF 1 <= Len(s) THEN Len(s) - 1 + 1 ELSE 0
        /\ \A i \in 1..(Len(s) - 1 + 1) : SubSeq(s \o t, 1, Len(s))[i] = (s \o t)[1 + i - 1]
    BY <1>1, <2>1, SubSeqProperties
  <2> QED BY <1>1, <1>2, <2>2
<1>4. SubSeq(s \o t, 1, Len(s)) = s
  BY <1>3, SeqEqual
<1>5. ASSUME t # <<>> PROVE Len(s) < Len(s \o t)
  <2>1. Len(t) # 0
    BY <1>5, EmptySeq
  <2> QED BY <1>1, <2>1
<1> QED BY <1>1, <1>4, <1>5 DEF Fifo!Extends

\* The length of three sequences one after the other.
LEMMA LengthOfThree ==
  ASSUME NEW s \in Seq(Nat), NEW t \in Seq(Nat), NEW u \in Seq(Nat)
  PROVE  /\ Len(s \o t \o u) = Len(s) + Len(t) + Len(u)
         /\ Len(s) \in Nat /\ Len(t) \in Nat /\ Len(u) \in Nat
<1>1. s \o t \in Seq(Nat) /\ Len(s \o t) = Len(s) + Len(t)
  BY ConcatProperties
<1>2. Len(s \o t \o u) = Len(s \o t) + Len(u)
  BY <1>1, ConcatProperties
<1> QED BY <1>1, <1>2, LenProperties

\* How far a writer is behind: by the queue, and a rest of at most the batch.
LEMMA Backlog ==
  ASSUME NEW q \in Seq(Nat), NEW b \in Seq(Nat), NEW d \in Seq(Nat), NEW r \in {b, <<>>}
  PROVE  /\ Len(d \o r \o q) = Len(d) + Len(r) + Len(q) /\ Len(r) <= Len(b)
         /\ Len(d) \in Nat /\ Len(r) \in Nat /\ Len(q) \in Nat
<1>1. r \in Seq(Nat)
  BY EmptySeq
<1>2. Len(b) \in Nat /\ Len(<<>>) = 0
  BY EmptySeq, LenProperties
<1>3. Len(r) <= Len(b)
  BY <1>2
<1> QED BY <1>1, <1>3, LengthOfThree

\* A call that is not refused enters whole.
LEMMA AcceptStep ==
  ASSUME QInv, QInv', NEW p \in Producers, WriteSamples(p)
  PROVE  Fifo!Accept \/ UNCHANGED <<accepted, posted>>
<1>0. PICK n \in 0..MaxCall :
        LET items == [i \in 1..n |-> made + i] IN accepted' = accepted \o Entered(queue, items)
  BY DEF WriteSamples
<1> DEFINE items == [i \in 1..n |-> made + i]
<1>1. accepted' = accepted \o Entered(queue, items) /\ loop' = loop /\ posted' = posted
  BY <1>0 DEF WriteSamples
<1>2. n \in Nat /\ n <= MaxCall /\ made \in Nat /\ MaxCall \in Nat /\ ChanSize \in Nat /\ Batch \in Nat
  BY QueueAssumption DEF QInv, QueueTypes
<1>3. items \in Seq(Nat) /\ Len(items) = n
  <2>1. \A i \in 1..n : made + i \in Nat
    BY <1>2
  <2> QED BY <1>2, <2>1
<1> HIDE DEF items
<1>4. queue \in Seq(Nat) /\ Len(queue) <= ChanSize /\ accepted \in Seq(Nat)
  BY DEF QInv, QueueTypes, QueueBounded
<1>5. Entered(queue, items) = items \/ Entered(queue, items) = <<>>
  BY <1>3, <1>4, PushProperties
<1>6. CASE Entered(queue, items) = <<>>
  <2>1. accepted' = accepted
    BY <1>1, <1>4, <1>6, ConcatEmptySeq
  <2> QED BY <1>1, <2>1
<1>7. CASE Entered(queue, items) = items /\ items # <<>>
  <2>1. accepted' = accepted \o items
    BY <1>1, <1>7
  <2>2. Fifo!Extends(accepted, accepted') /\ Len(accepted') = Len(accepted) + n /\ Len(accepted) \in Nat
    BY <1>3, <1>4, <1>7, <2>1, PrefixOfConcat
  <2>3. Len(accepted') <= Len(accepted) + MaxCall
    BY <1>2, <2>2
  <2>4. ASSUME NEW w \in Writers PROVE Len(accepted') <= Len(posted[w]) + ChanSize + Batch
    <3> DEFINE r == IF w \in loop'.todo THEN loop'.batch ELSE <<>>
    <3>0. /\ posted'[w] \in Seq(Nat) /\ loop'.batch \in Seq(Nat) /\ queue' \in Seq(Nat)
          /\ accepted' = posted'[w] \o r \o queue'
      BY DEF QInv, QueueTypes, InOrderOnce
    <3>r. r \in {loop'.batch, <<>>}
      OBVIOUS
    <3> HIDE DEF r
    <3>1. /\ Len(posted'[w] \o r \o queue') = Len(posted'[w]) + Len(r) + Len(queue')
          /\ Len(r) <= Len(loop'.batch) /\ Len(posted'[w]) \in Nat /\ Len(r) \in Nat /\ Len(queue') \in Nat
      BY <3>0, <3>r, Backlog
    <3>3. Len(accepted') = Len(posted'[w]) + Len(r) + Len(queue')
      BY <3>0, <3>1
    <3>4. Len(loop'.batch) \in Nat
      BY <3>0, LenProperties
    <3>2. Len(queue') <= ChanSize /\ Len(loop'.batch) <= Batch
      BY DEF QInv, QueueBounded
    <3> QED BY <1>1, <1>2, <3>1, <3>2, <3>3, <3>4
  <2> QED BY <1>1, <2>2, <2>3, <2>4 DEF Fifo!Accept
<1> QED BY <1>5, <1>6, <1>7

\* A post gives a writer its next batch, and no writer a batch too early.
LEMMA GiveStep ==
  ASSUME QInv, NEW w \in Writers, Write(w)
  PROVE  Fifo!Give(w)
<1>1. /\ w \in loop.todo /\ accepted' = accepted
      /\ posted' = [posted EXCEPT ![w] = posted[w] \o loop.batch]
  BY DEF Write
<1>2. /\ posted \in [Writers -> Seq(Nat)] /\ posted[w] \in Seq(Nat) /\ loop.batch \in Seq(Nat)
      /\ queue \in Seq(Nat) /\ Len(loop.batch) <= Batch /\ Batch \in Nat /\ loop.batch # <<>>
  BY <1>1, QueueAssumption DEF QInv, QueueTypes, QueueBounded, BatchIsPending
<1>3. posted'[w] = posted[w] \o loop.batch
  BY <1>1, <1>2
<1>4. /\ Fifo!Extends(posted[w], posted'[w]) /\ posted'[w] \in Seq(Nat)
      /\ Len(posted'[w]) = Len(posted[w]) + Len(loop.batch)
  BY <1>2, <1>3, PrefixOfConcat, ConcatProperties
<1>5. posted'[w] = SubSeq(accepted, 1, Len(posted'[w])) /\ Len(posted'[w]) <= Len(accepted)
  <2>1. accepted = posted'[w] \o queue
    BY <1>1, <1>3 DEF QInv, InOrderOnce
  <2> QED BY <1>2, <1>4, <2>1, PrefixOfConcat
<1>6. ASSUME NEW v \in Writers PROVE Len(posted'[w]) <= Len(posted[v]) + Batch
  <2> DEFINE r == IF v \in loop.todo THEN loop.batch ELSE <<>>
  <2>1. /\ posted[v] \in Seq(Nat) /\ accepted = posted[w] \o loop.batch \o queue
        /\ accepted = posted[v] \o r \o queue
    BY <1>1 DEF QInv, QueueTypes, InOrderOnce
  <2>2. r \in {loop.batch, <<>>}
    OBVIOUS
  <2> HIDE DEF r
  <2>3. /\ Len(posted[w] \o loop.batch \o queue) = Len(posted[w]) + Len(loop.batch) + Len(queue)
        /\ Len(posted[w]) \in Nat /\ Len(queue) \in Nat /\ Len(loop.batch) \in Nat
    BY <1>2, LengthOfThree
  <2>4. /\ Len(posted[v] \o r \o queue) = Len(posted[v]) + Len(r) + Len(queue)
        /\ Len(posted[v]) \in Nat /\ Len(r) \in Nat /\ Len(r) <= Len(loop.batch)
    BY <1>2, <2>1, <2>2, Backlog
  <2>5. Len(posted[w]) + Len(loop.batch) + Len(queue) = Len(posted[v]) + Len(r) + Len(queue)
    BY <2>1, <2>3, <2>4
  <2> QED BY <1>2, <1>4, <2>3, <2>4, <2>5
<1>7. posted' = [posted EXCEPT ![w] = posted'[w]]
  BY <1>1, <1>3
<1> QED BY <1>1, <1>4, <1>5, <1>6, <1>7 DEF Fifo!Give

\* The queue, with its lock, its callers and its loop, is a bounded first in,
\* first out queue for every writer, for any number of collectors and writers
\* and any sizes.
THEOREM QueueImplementsFifo == Spec => ImplementsFifo
<1>1. Init => Fifo!FifoInit
  BY DEF Init, Fifo!FifoInit
<1>2. QInv /\ QInv' /\ [Next]_vars => [Fifo!FifoNext]_<<accepted, posted>>
  <2> SUFFICES ASSUME QInv, QInv', [Next]_vars
               PROVE  Fifo!FifoNext \/ UNCHANGED <<accepted, posted>>
    OBVIOUS
  <2>1. ASSUME NEW p \in Producers, WriteSamples(p)
        PROVE  Fifo!FifoNext \/ UNCHANGED <<accepted, posted>>
    BY <2>1, AcceptStep DEF Fifo!FifoNext
  <2>2. ASSUME NEW w \in Writers, Write(w) PROVE Fifo!FifoNext
    BY <2>2, GiveStep DEF Fifo!FifoNext
  <2>3. CASE \/ \E p \in Producers : ReadLen(p)
             \/ Snapshot \/ LoopPops \/ Wrote
    BY <2>3 DEF ReadLen, Snapshot, LoopPops, Wrote
  <2>4. CASE UNCHANGED vars
    BY <2>4 DEF vars
  <2> QED BY <2>1, <2>2, <2>3, <2>4 DEF Next, LoopRead
<1>3. Spec => []QInv
  BY QueueInvariant
<1> QED BY <1>1, <1>2, <1>3, PTL DEF Spec, ImplementsFifo, Fifo!FifoSpec, Fifo!fifoVars

----------------------------------------------------------------------------
(* Sums over finite sets *)

\* Induction, for a set of numbers.
LEMMA AllNumbers ==
  ASSUME NEW A, 0 \in A, \A n \in Nat : n \in A => n + 1 \in A
  PROVE  \A n \in Nat : n \in A
<1> SUFFICES ASSUME Nat \ A # {} PROVE FALSE
  OBVIOUS
<1>1. PICK x \in Nat \ A : \A y \in Nat \ A : ~(<<y, x>> \in OpToRel(<, Nat))
  BY NatLessThanWellFounded, WFMin
<1>2. \A y \in Nat \ A : ~(y < x)
  BY <1>1 DEF OpToRel
<1>3. x # 0 /\ x \in Nat
  OBVIOUS
<1>4. x - 1 \in Nat /\ x - 1 < x /\ (x - 1) + 1 = x
  BY <1>3, SMT
<1>5. x - 1 \in A
  BY <1>2, <1>4
<1> QED BY <1>4, <1>5

\* The element that a sum over T begins with.
First(T) == CHOOSE x \in T : TRUE

\* It is an element of T.
LEMMA FirstIsMember == ASSUME NEW T, T # {} PROVE First(T) \in T
BY DEF First

\* g gives the sum of f over each subset of S.
Sums(g, f, S) == g = [T \in SUBSET S |-> IF T = {} THEN 0 ELSE f[First(T)] + g[T \ {First(T)}]]

\* SumFunctionOnSet is the value of such a g.
LEMMA SumIs ==
  ASSUME NEW f, NEW S
  PROVE  SumFunctionOnSet(f, S) = (CHOOSE g : Sums(g, f, S))[S]
BY DEF SumFunctionOnSet, FoldFunctionOnSet, MapThenFoldSet, Sums, First

\* The subsets with at most n elements.
UpTo(S, n) == {T \in SUBSET S : Cardinality(T) <= n}

\* Taking an element out.
LEMMA Without ==
  ASSUME NEW S, IsFiniteSet(S), NEW T \in SUBSET S, NEW x \in T
  PROVE  /\ T \ {x} \in SUBSET S /\ IsFiniteSet(T) /\ IsFiniteSet(T \ {x})
         /\ Cardinality(T \ {x}) \in Nat /\ Cardinality(T) = Cardinality(T \ {x}) + 1
<1>1. IsFiniteSet(T)
  BY FS_Subset
<1>2. IsFiniteSet(T \ {x}) /\ Cardinality(T \ {x}) = Cardinality(T) - 1
  BY <1>1, FS_RemoveElement
<1>3. Cardinality(T) \in Nat /\ Cardinality(T \ {x}) \in Nat
  BY <1>1, <1>2, FS_CardinalityType
<1>4. Cardinality(T) = Cardinality(T \ {x}) + 1
  BY <1>2, <1>3, SMT
<1> QED BY <1>1, <1>2, <1>3, <1>4

\* There are such sums, for small subsets and hence for all.
SumsUpTo(g, f, S, n) ==
  \A T \in UpTo(S, n) : g[T] = IF T = {} THEN 0 ELSE f[First(T)] + g[T \ {First(T)}]

LEMMA SumsExist ==
  ASSUME NEW S, IsFiniteSet(S), NEW f, \A x \in S : f[x] \in Int
  PROVE  \E g \in [SUBSET S -> Int] : Sums(g, f, S)
<1> DEFINE A == {n \in Nat : \E g \in [UpTo(S, n) -> Int] : SumsUpTo(g, f, S, n)}
<1>1. 0 \in A
  <2> DEFINE g == [T \in UpTo(S, 0) |-> 0]
  <2>1. \A T \in UpTo(S, 0) : T = {}
    <3> SUFFICES ASSUME NEW T \in UpTo(S, 0), NEW x \in T PROVE FALSE
      OBVIOUS
    <3>1. Cardinality(T) = Cardinality(T \ {x}) + 1 /\ Cardinality(T \ {x}) \in Nat /\ Cardinality(T) <= 0
      BY Without DEF UpTo
    <3> QED BY <3>1, SMT
  <2>2. g \in [UpTo(S, 0) -> Int] /\ SumsUpTo(g, f, S, 0)
    BY <2>1 DEF SumsUpTo
  <2> QED BY <2>2
<1>2. ASSUME NEW n \in Nat, n \in A PROVE n + 1 \in A
  <2>1. PICK g \in [UpTo(S, n) -> Int] : SumsUpTo(g, f, S, n)
    BY <1>2
  <2> DEFINE h == [T \in UpTo(S, n + 1) |-> IF T = {} THEN 0 ELSE f[First(T)] + g[T \ {First(T)}]]
  <2>2. ASSUME NEW T \in UpTo(S, n + 1), T # {}
        PROVE  T \ {First(T)} \in UpTo(S, n) /\ First(T) \in S
    <3>1. First(T) \in T /\ T \in SUBSET S /\ Cardinality(T) <= n + 1
      BY <2>2, FirstIsMember DEF UpTo
    <3>2. /\ T \ {First(T)} \in SUBSET S /\ Cardinality(T \ {First(T)}) \in Nat
          /\ Cardinality(T) = Cardinality(T \ {First(T)}) + 1
      BY <3>1, Without
    <3>3. Cardinality(T \ {First(T)}) <= n
      BY <3>1, <3>2, SMT
    <3> QED BY <3>1, <3>2, <3>3 DEF UpTo
  <2>3. \A T \in UpTo(S, n) : T \in UpTo(S, n + 1)
    <3> SUFFICES ASSUME NEW T \in UpTo(S, n) PROVE Cardinality(T) <= n + 1
      BY DEF UpTo
    <3>1. Cardinality(T) \in Nat /\ Cardinality(T) <= n
      BY FS_Subset, FS_CardinalityType DEF UpTo
    <3> QED BY <3>1, SMT
  <2>4. h \in [UpTo(S, n + 1) -> Int]
    <3>1. ASSUME NEW T \in UpTo(S, n + 1), T # {} PROVE f[First(T)] + g[T \ {First(T)}] \in Int
      <4>1. f[First(T)] \in Int /\ g[T \ {First(T)}] \in Int
        BY <2>1, <2>2, <3>1
      <4> QED BY <4>1, SMT
    <3>2. 0 \in Int
      BY SMT
    <3> QED BY <3>1, <3>2
  <2>5. \A T \in UpTo(S, n) : h[T] = g[T]
    BY <2>1, <2>3 DEF SumsUpTo
  <2>6. SumsUpTo(h, f, S, n + 1)
    <3> SUFFICES ASSUME NEW T \in UpTo(S, n + 1)
                 PROVE  h[T] = IF T = {} THEN 0 ELSE f[First(T)] + h[T \ {First(T)}]
      BY DEF SumsUpTo
    <3>1. h[T] = IF T = {} THEN 0 ELSE f[First(T)] + g[T \ {First(T)}]
      OBVIOUS
    <3> HIDE DEF h
    <3> QED BY <3>1, <2>2, <2>5
  <2>7. n + 1 \in Nat
    BY SMT
  <2> HIDE DEF h
  <2> QED BY <2>4, <2>6, <2>7
<1>3. Cardinality(S) \in A
  <2> HIDE DEF A
  <2> QED BY <1>1, <1>2, FS_CardinalityType, AllNumbers
<1>4. UpTo(S, Cardinality(S)) = SUBSET S
  BY FS_Subset DEF UpTo
<1>5. PICK g \in [SUBSET S -> Int] : SumsUpTo(g, f, S, Cardinality(S))
  BY <1>3, <1>4
<1>6. Sums(g, f, S)
  BY <1>4, <1>5 DEF SumsUpTo, Sums
<1> QED BY <1>6

\* What g gives for a set does not depend on the set it was made for.
LEMMA SumsAgree ==
  ASSUME NEW S, IsFiniteSet(S), NEW f, NEW e, NEW g, Sums(g, f, S), NEW U \in SUBSET S, NEW h, Sums(h, e, U),
         \A x \in U : e[x] = f[x]
  PROVE  h[U] = g[U]
<1> DEFINE A == {n \in Nat : \A T \in SUBSET U : Cardinality(T) = n => h[T] = g[T]}
<1>0. ASSUME NEW T \in SUBSET U
      PROVE  /\ g[T] = IF T = {} THEN 0 ELSE f[First(T)] + g[T \ {First(T)}]
             /\ h[T] = IF T = {} THEN 0 ELSE e[First(T)] + h[T \ {First(T)}]
  <2>1. T \in SUBSET S
    OBVIOUS
  <2>2. g[T] = IF T = {} THEN 0 ELSE f[First(T)] + g[T \ {First(T)}]
    BY <2>1 DEF Sums
  <2>3. h[T] = IF T = {} THEN 0 ELSE e[First(T)] + h[T \ {First(T)}]
    BY DEF Sums
  <2> QED BY <2>2, <2>3
<1>1. 0 \in A
  <2> SUFFICES ASSUME NEW T \in SUBSET U, Cardinality(T) = 0 PROVE h[T] = g[T]
    OBVIOUS
  <2>1. T = {}
    BY FS_Subset, FS_EmptySet
  <2> QED BY <1>0, <2>1
<1>2. ASSUME NEW n \in Nat, n \in A PROVE n + 1 \in A
  <2>0. n + 1 \in Nat
    BY SMT
  <2> SUFFICES ASSUME NEW T \in SUBSET U, Cardinality(T) = n + 1 PROVE h[T] = g[T]
    BY <2>0
  <2>1. T # {}
    <3> SUFFICES ASSUME T = {} PROVE FALSE
      OBVIOUS
    <3>1. n + 1 = 0
      BY FS_EmptySet
    <3> QED BY <3>1, SMT
  <2>2. First(T) \in T
    BY <2>1, FirstIsMember
  <2>3. T \ {First(T)} \in SUBSET U /\ Cardinality(T \ {First(T)}) = n
    <3>1. /\ Cardinality(T \ {First(T)}) \in Nat
          /\ Cardinality(T) = Cardinality(T \ {First(T)}) + 1
      BY <2>2, Without, FS_Subset
    <3>2. Cardinality(T \ {First(T)}) = n
      BY <3>1, SMT
    <3> QED BY <3>2
  <2>4. h[T \ {First(T)}] = g[T \ {First(T)}]
    BY <1>2, <2>3
  <2> QED BY <1>0, <2>1, <2>2, <2>4
<1>3. IsFiniteSet(U) /\ Cardinality(U) \in Nat
  BY FS_Subset, FS_CardinalityType
<1>4. Cardinality(U) \in A
  <2> HIDE DEF A
  <2> QED BY <1>1, <1>2, <1>3, AllNumbers
<1> QED BY <1>4

\* A sum is the same whichever element comes first.
TakesOut(g, f, S) == \A T \in SUBSET S : \A x \in T : g[T] = f[x] + g[T \ {x}]

LEMMA SumsTakeOut ==
  ASSUME NEW S, IsFiniteSet(S), NEW f, \A x \in S : f[x] \in Int, NEW g \in [SUBSET S -> Int], Sums(g, f, S)
  PROVE  TakesOut(g, f, S)
<1>0. \A T \in SUBSET S : \A z \in T :
         Cardinality(T \ {z}) \in Nat /\ Cardinality(T) = Cardinality(T \ {z}) + 1
  BY Without
<1> DEFINE A == {n \in Nat : \A T \in SUBSET S : Cardinality(T) = n => \A x \in T : g[T] = f[x] + g[T \ {x}]}
<1>1. 0 \in A
  <2> SUFFICES ASSUME NEW T \in SUBSET S, Cardinality(T) = 0, NEW x \in T PROVE FALSE
    OBVIOUS
  <2>1. T = {}
    BY FS_Subset, FS_EmptySet
  <2> QED BY <2>1
<1>2. ASSUME NEW n \in Nat, n \in A PROVE n + 1 \in A
  <2>0. n + 1 \in Nat
    BY SMT
  <2> SUFFICES ASSUME NEW T \in SUBSET S, Cardinality(T) = n + 1, NEW x \in T PROVE g[T] = f[x] + g[T \ {x}]
    BY <2>0
  <2> DEFINE y == First(T)
             V == (T \ {x}) \ {y}
  <2>1. y \in T
    BY FirstIsMember
  <2>2. g[T] = f[y] + g[T \ {y}]
    BY <2>1 DEF Sums
  <2> HIDE DEF y
  <2>3. CASE x = y
    BY <2>2, <2>3
  <2>4. CASE x # y
    <3>1. x \in T \ {y} /\ y \in T \ {x} /\ (T \ {y}) \ {x} = V
      BY <2>1, <2>4
    <3>2. ASSUME NEW z \in T PROVE T \ {z} \in SUBSET S /\ Cardinality(T \ {z}) = n
      <4>1. Cardinality(T \ {z}) \in Nat /\ Cardinality(T) = Cardinality(T \ {z}) + 1
        BY <1>0, <3>2
      <4>2. Cardinality(T \ {z}) = n
        BY <4>1, SMT
      <4> QED BY <4>2
    <3>3. g[T \ {y}] = f[x] + g[V]
      <4>1. T \ {y} \in SUBSET S /\ Cardinality(T \ {y}) = n
        BY <2>1, <3>2
      <4>2. \A z \in T \ {y} : g[T \ {y}] = f[z] + g[(T \ {y}) \ {z}]
        BY <1>2, <4>1
      <4> QED BY <3>1, <4>2
    <3>4. g[T \ {x}] = f[y] + g[V]
      BY <1>2, <3>1, <3>2
    <3>5. f[x] \in Int /\ f[y] \in Int /\ g[V] \in Int
      BY <2>1
    <3> HIDE DEF V
    <3> QED BY <2>2, <3>3, <3>4, <3>5, SMT
  <2> QED BY <2>3, <2>4
<1>3. \A n \in Nat : n \in A
  <2> HIDE DEF A
  <2> QED BY <1>1, <1>2, AllNumbers
<1>4. \A T \in SUBSET S : Cardinality(T) \in Nat
  BY FS_Subset, FS_CardinalityType
<1> QED BY <1>3, <1>4 DEF TakesOut

\* The sum that SumFunctionOnSet gives.
LEMMA SumIsSums ==
  ASSUME NEW S, IsFiniteSet(S), NEW f, \A x \in S : f[x] \in Int, NEW g, Sums(g, f, S), NEW U \in SUBSET S,
         NEW e, \A x \in U : e[x] = f[x]
  PROVE  SumFunctionOnSet(e, U) = g[U]
<1> DEFINE h == CHOOSE d : Sums(d, e, U)
<1>1. IsFiniteSet(U) /\ \A x \in U : e[x] \in Int
  BY FS_Subset
<1>2. \E d : Sums(d, e, U)
  BY <1>1, SumsExist
<1>3. Sums(h, e, U)
  BY <1>2
<1>4. SumFunctionOnSet(e, U) = h[U]
  BY SumIs
<1> HIDE DEF h
<1> QED BY <1>3, <1>4, SumsAgree

\* A sum of integers is one, and an element can be taken out of it.
LEMMA SumOfIntegers ==
  ASSUME NEW S, IsFiniteSet(S), NEW f, \A x \in S : f[x] \in Int
  PROVE  SumFunctionOnSet(f, S) \in Int
<1>1. PICK g \in [SUBSET S -> Int] : Sums(g, f, S)
  BY SumsExist
<1>2. SumFunctionOnSet(f, S) = g[S]
  BY <1>1, SumIsSums
<1> QED BY <1>1, <1>2

\* Any element can be taken out of a sum.
LEMMA SumWithout ==
  ASSUME NEW S, IsFiniteSet(S), NEW f, \A x \in S : f[x] \in Int
  PROVE  \A x \in S : SumFunctionOnSet(f, S) = f[x] + SumFunctionOnSet(f, S \ {x})
<1>1. PICK g \in [SUBSET S -> Int] : Sums(g, f, S)
  BY SumsExist
<1>2. \A T \in SUBSET S : SumFunctionOnSet(f, T) = g[T]
  BY <1>1, SumIsSums
<1>3. TakesOut(g, f, S)
  BY <1>1, SumsTakeOut
<1> QED BY <1>2, <1>3 DEF TakesOut

\* A sum depends only on the values that it adds.
LEMMA SameSum ==
  ASSUME NEW S, IsFiniteSet(S), NEW f, \A x \in S : f[x] \in Int, NEW e, \A x \in S : e[x] = f[x]
  PROVE  SumFunctionOnSet(e, S) = SumFunctionOnSet(f, S)
<1>1. PICK g \in [SUBSET S -> Int] : Sums(g, f, S)
  BY SumsExist
<1>2. SumFunctionOnSet(f, S) = g[S] /\ SumFunctionOnSet(e, S) = g[S]
  BY <1>1, SumIsSums
<1> QED BY <1>2

\* The same for the functions of CountersAddUp.
LEMMA SumTakeOut ==
  ASSUME NEW S, IsFiniteSet(S), NEW f, \A x \in S : f[x] \in Int, NEW x \in S,
         NEW e, \A y \in S \ {x} : e[y] = f[y]
  PROVE  SumFunctionOnSet(f, S) = f[x] + SumFunctionOnSet(e, S \ {x})
<1>1. SumFunctionOnSet(f, S) = f[x] + SumFunctionOnSet(f, S \ {x})
  BY SumWithout
<1>2. IsFiniteSet(S \ {x}) /\ \A y \in S \ {x} : f[y] \in Int
  BY FS_Subset
<1>3. SumFunctionOnSet(e, S \ {x}) = SumFunctionOnSet(f, S \ {x})
  BY <1>2, SameSum
<1> QED BY <1>1, <1>3

\* Nothing adds up to 0.
LEMMA SumOfNone == ASSUME NEW f PROVE SumFunctionOnSet(f, {}) = 0
<1>1. IsFiniteSet({})
  BY FS_EmptySet
<1>2. PICK g \in [SUBSET {} -> Int] : Sums(g, f, {})
  BY <1>1, SumsExist
<1>3. SumFunctionOnSet(f, {}) = g[{}]
  BY <1>1, <1>2, SumIsSums
<1>4. g[{}] = 0
  BY <1>2 DEF Sums
<1> QED BY <1>3, <1>4

\* So do zeros.
LEMMA SumOfZeros ==
  ASSUME NEW S, IsFiniteSet(S), NEW f, \A x \in S : f[x] = 0
  PROVE  SumFunctionOnSet(f, S) = 0
<1> DEFINE A == {n \in Nat : \A T \in SUBSET S : Cardinality(T) = n => SumFunctionOnSet(f, T) = 0}
<1>1. 0 \in A
  <2> SUFFICES ASSUME NEW T \in SUBSET S, Cardinality(T) = 0 PROVE SumFunctionOnSet(f, T) = 0
    OBVIOUS
  <2>1. T = {}
    BY FS_Subset, FS_EmptySet
  <2> QED BY <2>1, SumOfNone
<1>2. ASSUME NEW n \in Nat, n \in A PROVE n + 1 \in A
  <2>0. n + 1 \in Nat
    BY SMT
  <2> SUFFICES ASSUME NEW T \in SUBSET S, Cardinality(T) = n + 1 PROVE SumFunctionOnSet(f, T) = 0
    BY <2>0
  <2>1. T # {}
    <3> SUFFICES ASSUME T = {} PROVE FALSE
      OBVIOUS
    <3>1. n + 1 = 0
      BY FS_EmptySet
    <3> QED BY <3>1, SMT
  <2>2. PICK x \in T : TRUE
    BY <2>1
  <2>3. Cardinality(T \ {x}) = n
    <3>1. Cardinality(T \ {x}) \in Nat /\ Cardinality(T) = Cardinality(T \ {x}) + 1
      <4> HIDE DEF A
      <4> QED BY Without
    <3> QED BY <3>1, SMT
  <2>4. SumFunctionOnSet(f, T \ {x}) = 0
    BY <1>2, <2>3
  <2>5. IsFiniteSet(T) /\ \A y \in T : f[y] \in Int
    <3>1. 0 \in Int
      BY SMT
    <3> QED BY <3>1, FS_Subset
  <2>6. SumFunctionOnSet(f, T) = f[x] + SumFunctionOnSet(f, T \ {x})
    <3> HIDE DEF A
    <3> QED BY <2>2, <2>5, SumWithout
  <2>7. 0 + 0 = 0 /\ f[x] = 0
    BY SMT
  <2> QED BY <2>4, <2>6, <2>7
<1>3. Cardinality(S) \in A
  <2> HIDE DEF A
  <2> QED BY <1>1, <1>2, FS_CardinalityType, AllNumbers
<1> QED BY <1>3

----------------------------------------------------------------------------
(* The counters *)

\* One value of a sum changes.
LEMMA SumChange ==
  ASSUME NEW S, IsFiniteSet(S), NEW f \in [S -> Int], NEW g \in [S -> Int], NEW x \in S, \A y \in S \ {x} : g[y] = f[y]
  PROVE  SumFunction(g) = SumFunction(f) - f[x] + g[x] /\ SumFunction(f) \in Int
<1> DEFINE rest == SumFunctionOnSet(g, S \ {x})
<1>1. SumFunctionOnSet(f, S) = f[x] + rest /\ SumFunctionOnSet(g, S) = g[x] + rest
  BY SumTakeOut
<1>2. rest \in Int /\ f[x] \in Int /\ g[x] \in Int
  BY SumOfIntegers, FS_Subset
<1>3. SumFunction(f) = SumFunctionOnSet(f, S) /\ SumFunction(g) = SumFunctionOnSet(g, S)
  BY DEF SumFunction
<1> HIDE DEF rest
<1> QED BY <1>1, <1>2, <1>3, SMT

\* The sum of w over a bag.
Products(B, w) == [a \in BagToSet(B) |-> B[a] * w[a]]
Weighted(B, w) == SumFunction(Products(B, w))

\* The bag is a function on a finite set.
Counts(B, R) == B \in [BagToSet(B) -> Nat \ {0}] /\ BagToSet(B) \subseteq R /\ IsFiniteSet(BagToSet(B))

\* The sum over a bag, over any set that holds its elements.
LEMMA WeightedIs ==
  ASSUME NEW R, NEW w \in [R -> Nat], NEW B, Counts(B, R)
  PROVE  /\ Weighted(B, w) = SumFunctionOnSet(Products(B, w), DOMAIN B)
         /\ \A a \in DOMAIN B : Products(B, w)[a] \in Int /\ Products(B, w)[a] = B[a] * w[a]
         /\ IsFiniteSet(DOMAIN B) /\ \A a \in DOMAIN B : B[a] \in Nat /\ w[a] \in Nat /\ B[a] # 0
         /\ Weighted(B, w) \in Int
<1> DEFINE D == DOMAIN B
           f == Products(B, w)
<1>1. IsFiniteSet(D) /\ \A a \in D : B[a] \in Nat /\ w[a] \in Nat /\ B[a] # 0
  BY DEF Counts, BagToSet
<1>2. ASSUME NEW m \in Nat, NEW n \in Nat PROVE m * n \in Int
  BY SMT
<1>3. \A a \in D : f[a] \in Int /\ f[a] = B[a] * w[a]
  BY <1>1, <1>2 DEF Products, BagToSet
<1>4. Weighted(B, w) = SumFunctionOnSet(f, D)
  BY DEF Weighted, SumFunction, BagToSet, Products
<1>5. SumFunctionOnSet(f, D) \in Int
  BY <1>1, <1>3, SumOfIntegers
<1> QED BY <1>1, <1>3, <1>4, <1>5

\* A goroutine with argument e is spawned.
LEMMA BagGrows ==
  ASSUME NEW R, NEW w \in [R -> Nat], NEW B, Counts(B, R), NEW e \in R
  PROVE  LET C == B (+) SetToBag({e}) IN
         Counts(C, R) /\ Weighted(C, w) = Weighted(B, w) + w[e] /\ Weighted(B, w) \in Int
<1> DEFINE C == B (+) SetToBag({e})
           D == DOMAIN B
           E == D \cup {e}
           f == Products(B, w)
           g == Products(C, w)
<1>1. /\ DOMAIN C = E /\ C = [a \in E |-> C[a]]
      /\ \A a \in E : C[a] = (IF a \in D THEN B[a] ELSE 0) + (IF a = e THEN 1 ELSE 0)
  BY DEF (+), SetToBag
<1> HIDE DEF C
<1>2. IsFiniteSet(D) /\ \A a \in D : B[a] \in Nat /\ w[a] \in Nat /\ B[a] # 0
  BY DEF Counts, BagToSet
<1>3. ASSUME NEW a \in E PROVE C[a] \in Nat \ {0} /\ C[a] = IF a = e THEN (IF e \in D THEN B[e] + 1 ELSE 1) ELSE B[a]
  <2>1. CASE a \in D
    <3> DEFINE n == B[a]
    <3>1. n \in Nat /\ n # 0 /\ C[a] = n + (IF a = e THEN 1 ELSE 0)
      BY <1>1, <1>2, <2>1
    <3> HIDE DEF n
    <3>2. CASE a = e
      <4>1. n + 1 \in Nat /\ n + 1 # 0
        BY <3>1, SMT
      <4> QED BY <2>1, <3>1, <3>2, <4>1 DEF n
    <3>3. CASE a # e
      <4>1. n + 0 = n
        BY <3>1, SMT
      <4> QED BY <3>1, <3>3, <4>1 DEF n
    <3> QED BY <3>2, <3>3
  <2>2. CASE a \notin D
    BY <1>1, <2>2, SMT
  <2> QED BY <2>1, <2>2
<1>4. Counts(C, R)
  <2>1. IsFiniteSet(E)
    BY <1>2, FS_AddElement
  <2>2. C \in [E -> Nat \ {0}]
    BY <1>1, <1>3
  <2>3. E \subseteq R
    BY DEF Counts, BagToSet
  <2> QED BY <1>1, <2>1, <2>2, <2>3 DEF Counts, BagToSet
<1>5. /\ Weighted(B, w) = SumFunctionOnSet(f, D) /\ \A a \in D : f[a] \in Int /\ f[a] = B[a] * w[a]
      /\ Weighted(B, w) \in Int
  BY WeightedIs
<1>6. /\ Weighted(C, w) = SumFunctionOnSet(g, E) /\ \A a \in E : g[a] \in Int /\ g[a] = C[a] * w[a]
      /\ IsFiniteSet(E)
  BY <1>1, <1>4, WeightedIs
<1>7. \A a \in D \ {e} : g[a] = f[a]
  BY <1>3, <1>5, <1>6
<1> HIDE DEF f, g
<1>8. CASE e \in D
  <2>1. E = D
    BY <1>8
  <2> DEFINE rest == SumFunctionOnSet(f, D \ {e})
  <2>2. SumFunctionOnSet(f, D) = f[e] + rest
    BY <1>2, <1>5, <1>8, SumTakeOut
  <2>3. SumFunctionOnSet(g, D) = g[e] + rest
    <3>1. (\A a \in D : g[a] \in Int) /\ \A a \in D \ {e} : f[a] = g[a]
      BY <1>6, <1>7, <2>1
    <3>2. SumFunctionOnSet(g, D) = g[e] + SumFunctionOnSet(g, D \ {e})
      BY <1>2, <1>8, <3>1, SumWithout
    <3>3. IsFiniteSet(D \ {e}) /\ \A a \in D \ {e} : f[a] \in Int
      BY <1>2, <1>5, FS_Subset
    <3>4. SumFunctionOnSet(g, D \ {e}) = rest
      BY <1>7, <3>3, SameSum
    <3> QED BY <3>2, <3>4
  <2>4. rest \in Int
    <3>1. IsFiniteSet(D \ {e}) /\ \A a \in D \ {e} : f[a] \in Int
      BY <1>2, <1>5, FS_Subset
    <3> QED BY <3>1, SumOfIntegers
  <2>5. g[e] = f[e] + w[e] /\ f[e] \in Int /\ w[e] \in Int
    <3>1. g[e] = (B[e] + 1) * w[e] /\ f[e] = B[e] * w[e]
      BY <1>3, <1>5, <1>6, <1>8
    <3>2. B[e] \in Nat /\ w[e] \in Nat
      BY <1>2, <1>8
    <3> QED BY <3>1, <3>2, SMT
  <2>6. Weighted(C, w) = g[e] + rest /\ Weighted(B, w) = f[e] + rest
    BY <1>5, <1>6, <2>1, <2>2, <2>3
  <2> HIDE DEF rest
  <2>7. Weighted(C, w) = Weighted(B, w) + w[e]
    BY <2>4, <2>5, <2>6, SMT
  <2> QED BY <1>4, <1>5, <2>7 DEF C
<1>9. CASE e \notin D
  <2>1. E \ {e} = D
    BY <1>9
  <2>2. SumFunctionOnSet(g, E) = g[e] + SumFunctionOnSet(f, E \ {e})
    <3>1. e \in E /\ \A a \in E \ {e} : f[a] = g[a]
      BY <1>7
    <3> HIDE DEF E
    <3> QED BY <1>6, <3>1, SumTakeOut
  <2>3. g[e] = w[e] /\ w[e] \in Int
    <3>1. g[e] = 1 * w[e]
      BY <1>3, <1>6, <1>9
    <3>2. w[e] \in Nat
      OBVIOUS
    <3> QED BY <3>1, <3>2, SMT
  <2>4. Weighted(C, w) = w[e] + Weighted(B, w)
    BY <1>5, <1>6, <2>1, <2>2, <2>3
  <2>5. Weighted(C, w) = Weighted(B, w) + w[e]
    BY <1>5, <2>3, <2>4, SMT
  <2> QED BY <1>4, <1>5, <2>5 DEF C
<1> QED BY <1>8, <1>9

\* The goroutine with argument e runs.
LEMMA BagShrinks ==
  ASSUME NEW R, NEW B, Counts(B, R), NEW e \in BagToSet(B)
  PROVE  LET C == B (-) SetToBag({e}) IN Counts(C, R) /\ B = C (+) SetToBag({e})
<1> DEFINE C == B (-) SetToBag({e})
           D == DOMAIN B
           E == {d \in D : (IF d = e THEN B[d] - 1 ELSE B[d]) > 0}
           F == C (+) SetToBag({e})
<1>1. e \in D /\ IsFiniteSet(D) /\ D \subseteq R /\ B = [d \in D |-> B[d]] /\ \A a \in D : B[a] \in Nat /\ B[a] # 0
  BY DEF Counts, BagToSet
<1>2. /\ DOMAIN C = E /\ C = [a \in E |-> C[a]]
      /\ \A a \in E : C[a] = IF a = e THEN B[a] - 1 ELSE B[a]
  BY DEF (-), SetToBag
<1>3. ASSUME NEW n \in Nat, n # 0 PROVE n > 0 /\ n - 1 \in Nat /\ (n - 1) + 1 = n /\ (~(n - 1 > 0) => 0 + 1 = n) /\ n + 0 = n
  BY <1>3, SMT
<1>4. ASSUME NEW n \in Nat, n > 0 PROVE n # 0
  BY <1>4, SMT
<1> HIDE DEF C
<1>5. \A a \in E : C[a] \in Nat \ {0}
  <2> SUFFICES ASSUME NEW a \in E PROVE C[a] \in Nat \ {0}
    OBVIOUS
  <2>1. CASE a = e
    BY <1>1, <1>2, <1>3, <1>4, <2>1
  <2>2. CASE a # e
    BY <1>1, <1>2, <2>2
  <2> QED BY <2>1, <2>2
<1>6. Counts(C, R)
  <2>1. IsFiniteSet(E) /\ E \subseteq R
    BY <1>1, FS_Subset
  <2>2. C \in [E -> Nat \ {0}]
    BY <1>2, <1>5
  <2> QED BY <1>2, <2>1, <2>2 DEF Counts, BagToSet
<1>7. \A d \in D : d \in E \/ d = e
  BY <1>1, <1>3
<1>8. DOMAIN F = D /\ F = [d \in D |-> F[d]]
  <2>1. DOMAIN F = E \cup {e} /\ F = [d \in E \cup {e} |-> F[d]]
    BY <1>2 DEF (+), SetToBag
  <2>2. E \cup {e} = D
    BY <1>1, <1>7
  <2> QED BY <2>1, <2>2
<1>9. \A d \in D : F[d] = (IF d \in E THEN C[d] ELSE 0) + (IF d = e THEN 1 ELSE 0)
  BY <1>1, <1>2, <1>7 DEF (+), SetToBag
<1>10. ASSUME NEW d \in D PROVE F[d] = B[d]
  <2> HIDE DEF F
  <2>1. CASE d = e /\ d \in E
    BY <1>1, <1>2, <1>3, <1>9, <2>1
  <2>2. CASE d = e /\ d \notin E
    <3>1. F[d] = 0 + 1
      BY <1>9, <2>2
    <3>2. ~(B[d] - 1 > 0)
      BY <2>2
    <3> QED BY <1>1, <1>3, <3>1, <3>2
  <2>3. CASE d # e
    <3>1. F[d] = C[d] + 0 /\ C[d] = B[d]
      BY <1>2, <1>7, <1>9, <2>3
    <3> QED BY <1>1, <1>3, <3>1
  <2> QED BY <2>1, <2>2, <2>3
<1>11. B = F
  <2> HIDE DEF F
  <2> QED BY <1>1, <1>8, <1>10
<1> QED BY <1>6, <1>11 DEF C

\* The arguments of snapshot, what each counts, and what the calls will report.
Report == [count : Nat, size : Nat, success : BOOLEAN]
AllSeries == [a \in Report |-> a.count]
Failures == [a \in Report |-> IF a.success THEN 0 ELSE a.count]
Offered == [p \in Producers |-> producer[p].count]
Refused == [p \in Producers |-> IF producer[p].success THEN 0 ELSE producer[p].count]

\* The types of the statistics and of the goroutines that are to update them.
StatTypes ==
  /\ stats \in [FailCount : Nat, FailTotal : Nat, TotalCount : Nat, QueueSize : Nat]
  /\ Counts(snapshots, Report)

\* A collector outside of WriteSamples has nothing to report.
IdleCounts == \A p \in Producers : producer[p].pc = "idle" => producer[p].count = 0

\* The counters and what is on its way to them, against what was offered.
Balanced ==
  /\ stats.TotalCount + (Weighted(snapshots, AllSeries) + SumFunction(Offered)) = made
  /\ stats.FailTotal + (Weighted(snapshots, Failures) + SumFunction(Refused)) + Len(accepted) = made

\* The inductive invariant of the counters.
CountersInv == QInv /\ StatTypes /\ IdleCounts /\ Balanced

\* The weights are numbers.
LEMMA WeightTypes ==
  /\ AllSeries \in [Report -> Nat] /\ Failures \in [Report -> Nat]
  /\ \A a \in Report : AllSeries[a] = a.count /\ Failures[a] = IF a.success THEN 0 ELSE a.count
<1>1. \A a \in Report : a.count \in Nat /\ (IF a.success THEN 0 ELSE a.count) \in Nat
  BY DEF Report
<1> QED BY <1>1 DEF AllSeries, Failures

\* What the calls will report are numbers.
CallsReport ==
  /\ Offered \in [Producers -> Int] /\ Refused \in [Producers -> Int]
  /\ \A p \in Producers : /\ Offered[p] = producer[p].count /\ producer[p].count \in Nat
                          /\ Refused[p] = IF producer[p].success THEN 0 ELSE producer[p].count

\* They are, in every state of the queue.
LEMMA CallTypes == QInv => CallsReport
<1> SUFFICES ASSUME QInv PROVE CallsReport
  OBVIOUS
<1>1. \A p \in Producers : producer[p].count \in Nat
  BY DEF QInv, QueueTypes, CallRecord
<1>2. \A n \in Nat : n \in Int
  BY SMT
<1> QED BY <1>1, <1>2 DEF CallsReport, Offered, Refused

\* And after a step.
LEMMA CallTypesAfter == QInv' => CallsReport'
BY CallTypes, PTL

\* What CountersAddUp says.
LEMMA BalancedIs == StatTypes => (Balanced <=> CountersAddUp)
<1> SUFFICES ASSUME StatTypes PROVE Balanced <=> CountersAddUp
  OBVIOUS
<1> DEFINE D == BagToSet(snapshots)
<1>1. \A a \in D : a \in Report
  BY DEF StatTypes, Counts
<1>2. /\ Products(snapshots, AllSeries) = [a \in D |-> snapshots[a] * a.count]
      /\ Products(snapshots, Failures) = [a \in D |-> snapshots[a] * (IF a.success THEN 0 ELSE a.count)]
  BY <1>1, WeightTypes DEF Products
<1> QED BY <1>2 DEF Balanced, CountersAddUp, Sum, Weighted, Offered, Refused

\* Nothing is counted at the start.
LEMMA CountersInit == Init => CountersInv
<1> SUFFICES ASSUME Init PROVE CountersInv
  OBVIOUS
<1>1. QInv
  BY QInvInit
<1>2. BagToSet(snapshots) = {} /\ IsFiniteSet({})
  BY FS_EmptySet DEF Init, EmptyBag, SetToBag, BagToSet
<1>3. snapshots \in [{} -> Nat \ {0}]
  BY DEF Init, EmptyBag, SetToBag
<1>4. StatTypes
  BY <1>2, <1>3 DEF Init, StatTypes, Counts
<1>5. IdleCounts
  BY DEF Init, IdleCounts, NoCall
<1>6. ASSUME NEW w PROVE Weighted(snapshots, w) = 0
  <2>1. DOMAIN Products(snapshots, w) = {}
    BY <1>2 DEF Products
  <2> QED BY <2>1, SumOfNone DEF Weighted, SumFunction
<1>7. \A p \in Producers : Offered[p] = 0 /\ Refused[p] = 0
  BY DEF Init, NoCall, Offered, Refused
<1>8. SumFunction(Offered) = 0 /\ SumFunction(Refused) = 0
  <2>1. DOMAIN Offered = Producers /\ DOMAIN Refused = Producers
    BY DEF Offered, Refused
  <2> QED BY <1>7, <2>1, QueueAssumption, SumOfZeros DEF SumFunction
<1>9. stats.TotalCount = 0 /\ stats.FailTotal = 0 /\ made = 0 /\ Len(accepted) = 0
  BY EmptySeq DEF Init
<1>10. 0 + (0 + 0) = 0 /\ (0 + (0 + 0)) + 0 = 0
  BY SMT
<1>11. Balanced
  BY <1>6, <1>8, <1>9, <1>10 DEF Balanced
<1> QED BY <1>1, <1>4, <1>5, <1>11 DEF CountersInv

\* What the sums and counters are, for arithmetic.
LEMMA BalanceTypes ==
  ASSUME CountersInv
  PROVE  /\ stats.TotalCount \in Nat /\ stats.FailTotal \in Nat /\ made \in Nat /\ Len(accepted) \in Nat
         /\ Weighted(snapshots, AllSeries) \in Int /\ Weighted(snapshots, Failures) \in Int
         /\ SumFunction(Offered) \in Int /\ SumFunction(Refused) \in Int
<1>1. stats.TotalCount \in Nat /\ stats.FailTotal \in Nat
  BY DEF CountersInv, StatTypes
<1>2. made \in Nat /\ Len(accepted) \in Nat
  BY LenProperties DEF CountersInv, QInv, QueueTypes
<1>3. Weighted(snapshots, AllSeries) \in Int /\ Weighted(snapshots, Failures) \in Int
  BY WeightTypes, WeightedIs DEF CountersInv, StatTypes
<1>4. SumFunction(Offered) \in Int /\ SumFunction(Refused) \in Int
  <2>1. DOMAIN Offered = Producers /\ DOMAIN Refused = Producers
    BY DEF Offered, Refused
  <2>2. (\A p \in Producers : Offered[p] \in Int) /\ \A p \in Producers : Refused[p] \in Int
    BY CallTypes DEF CountersInv, CallsReport
  <2> QED BY <2>1, <2>2, QueueAssumption, SumOfIntegers DEF SumFunction
<1> QED BY <1>1, <1>2, <1>3, <1>4

\* A call adds as much to made as it has to report.
LEMMA WriteSamplesCounts ==
  ASSUME CountersInv, NEW p \in Producers, WriteSamples(p)
  PROVE  CountersInv'
<1>0. QInv /\ QInv' /\ StatTypes /\ IdleCounts /\ Balanced /\ producer[p].pc = "idle"
  BY WriteSamplesKeeps DEF CountersInv, WriteSamples
<1>1. PICK n \in 0..MaxCall :
        LET items == [i \in 1..n |-> made + i] IN
        /\ made' = made + n
        /\ accepted' = accepted \o Entered(queue, items)
        /\ producer' = [producer EXCEPT ![p] =
             [pc |-> "len", first |-> made + 1, count |-> n, success |-> Fits(queue, items)]]
  BY DEF WriteSamples
<1> DEFINE items == [i \in 1..n |-> made + i]
           new == Entered(queue, items)
           ok == Fits(queue, items)
           call == [pc |-> "len", first |-> made + 1, count |-> n, success |-> ok]
<1>2. /\ made' = made + n /\ accepted' = accepted \o new /\ producer' = [producer EXCEPT ![p] = call]
      /\ snapshots' = snapshots /\ stats' = stats
  BY <1>1 DEF WriteSamples
<1>3. n \in Nat /\ made \in Nat
  BY <1>0, QueueAssumption DEF QInv, QueueTypes
<1>4. items \in Seq(Nat) /\ Len(items) = n
  <2>1. \A i \in 1..n : made + i \in Nat
    BY <1>3
  <2> QED BY <1>3, <2>1
<1> HIDE DEF items
<1>5. new = (IF ok THEN items ELSE <<>>) /\ new \in Seq(Nat)
  BY <1>0, <1>4, PushProperties DEF QInv, QueueTypes, QueueBounded
<1>6. Len(accepted') = Len(accepted) + (IF ok THEN n ELSE 0)
  <2>1. accepted \in Seq(Nat) /\ Len(<<>>) = 0
    BY <1>0, EmptySeq DEF QInv, QueueTypes
  <2>2. Len(accepted \o new) = Len(accepted) + Len(new)
    BY <1>5, <2>1, ConcatProperties
  <2> QED BY <1>2, <1>4, <1>5, <2>1, <2>2
<1> HIDE DEF new, ok
<1>7. StatTypes'
  BY <1>0, <1>2 DEF StatTypes, Counts
<1>8. \A q \in Producers : producer'[q] = IF q = p THEN call ELSE producer[q]
  BY <1>0, <1>2 DEF QInv, QueueTypes
<1>9. IdleCounts'
  BY <1>0, <1>8 DEF IdleCounts
<1>10. /\ Offered' \in [Producers -> Int] /\ Refused' \in [Producers -> Int]
       /\ Offered'[p] = n /\ Refused'[p] = IF ok THEN 0 ELSE n
       /\ \A q \in Producers \ {p} : Offered'[q] = Offered[q] /\ Refused'[q] = Refused[q]
  <2>1. /\ Offered' \in [Producers -> Int] /\ Refused' \in [Producers -> Int]
        /\ \A q \in Producers : /\ Offered'[q] = producer'[q].count
                                /\ Refused'[q] = IF producer'[q].success THEN 0 ELSE producer'[q].count
    BY <1>0, CallTypesAfter DEF CallsReport
  <2> QED BY <1>0, <1>8, <2>1, CallTypes DEF CallsReport
<1>11. /\ Offered \in [Producers -> Int] /\ Refused \in [Producers -> Int]
       /\ Offered[p] = 0 /\ Refused[p] = 0
  BY <1>0, CallTypes DEF IdleCounts, CallsReport
<1>12. SumFunction(Offered') = SumFunction(Offered) - 0 + n
  BY <1>10, <1>11, QueueAssumption, SumChange
<1>13. SumFunction(Refused') = SumFunction(Refused) - 0 + (IF ok THEN 0 ELSE n)
  BY <1>10, <1>11, QueueAssumption, SumChange
<1>14. Balanced'
  <2> DEFINE A == SumFunction(Offered)
             R == SumFunction(Refused)
             l == Len(accepted)
             T == stats.TotalCount
             F == stats.FailTotal
             W == Weighted(snapshots, AllSeries)
             X == Weighted(snapshots, Failures)
  <2>1. T \in Nat /\ F \in Nat /\ made \in Nat /\ l \in Nat /\ W \in Int /\ X \in Int /\ A \in Int /\ R \in Int
    BY BalanceTypes
  <2>2. T + (W + A) = made /\ F + (X + R) + l = made
    BY <1>0 DEF Balanced
  <2> HIDE DEF A, R, l, T, F, W, X
  <2>3. /\ T + (W + (A - 0 + n)) = made + n
        /\ F + (X + (R - 0 + 0)) + (l + n) = made + n
        /\ F + (X + (R - 0 + n)) + (l + 0) = made + n
    BY <1>3, <2>1, <2>2, SMT
  <2>4. CASE ok
    BY <1>2, <1>6, <1>12, <1>13, <2>3, <2>4 DEF Balanced, A, R, l, T, F, W, X
  <2>5. CASE ~ok
    BY <1>2, <1>6, <1>12, <1>13, <2>3, <2>5 DEF Balanced, A, R, l, T, F, W, X
  <2> QED BY <2>4, <2>5
<1> QED BY <1>0, <1>7, <1>9, <1>14 DEF CountersInv

\* The goroutine of the call takes over what the call has to report.
LEMMA ReadLenCounts ==
  ASSUME CountersInv, NEW p \in Producers, ReadLen(p)
  PROVE  CountersInv'
<1> DEFINE c == producer[p]
           e == [count |-> c.count, size |-> Len(queue), success |-> c.success]
<1>0. QInv /\ QInv' /\ StatTypes /\ IdleCounts /\ Balanced
  BY ReadLenKeeps DEF CountersInv
<1>1. /\ snapshots' = snapshots (+) SetToBag({e}) /\ producer' = [producer EXCEPT ![p] = NoCall]
      /\ made' = made /\ accepted' = accepted /\ stats' = stats
  BY DEF ReadLen
<1>2. c.count \in Nat /\ c.success \in BOOLEAN /\ Len(queue) \in Nat
  BY <1>0, LenProperties DEF QInv, QueueTypes, CallRecord
<1>3. e \in Report /\ e.count = c.count /\ e.success = c.success
  BY <1>2 DEF Report
<1> HIDE DEF e
<1>4. /\ Counts(snapshots', Report)
      /\ Weighted(snapshots', AllSeries) = Weighted(snapshots, AllSeries) + AllSeries[e]
      /\ Weighted(snapshots', Failures) = Weighted(snapshots, Failures) + Failures[e]
  BY <1>0, <1>1, <1>3, WeightTypes, BagGrows DEF StatTypes
<1>5. AllSeries[e] = c.count /\ Failures[e] = IF c.success THEN 0 ELSE c.count
  BY <1>3, WeightTypes
<1>6. StatTypes'
  BY <1>0, <1>1, <1>4 DEF StatTypes
<1>7. \A q \in Producers : producer'[q] = IF q = p THEN NoCall ELSE producer[q]
  BY <1>0, <1>1 DEF QInv, QueueTypes
<1>8. IdleCounts'
  BY <1>0, <1>7 DEF IdleCounts, NoCall
<1>9. /\ Offered' \in [Producers -> Int] /\ Refused' \in [Producers -> Int]
      /\ Offered'[p] = 0 /\ Refused'[p] = 0
      /\ \A q \in Producers \ {p} : Offered'[q] = Offered[q] /\ Refused'[q] = Refused[q]
  <2>1. /\ Offered' \in [Producers -> Int] /\ Refused' \in [Producers -> Int]
        /\ \A q \in Producers : /\ Offered'[q] = producer'[q].count
                                /\ Refused'[q] = IF producer'[q].success THEN 0 ELSE producer'[q].count
    BY <1>0, CallTypesAfter DEF CallsReport
  <2>2. producer'[p].count = 0 /\ producer'[p].success = TRUE
    BY <1>7 DEF NoCall
  <2> QED BY <1>0, <1>7, <2>1, <2>2, CallTypes DEF CallsReport
<1>10. /\ Offered \in [Producers -> Int] /\ Refused \in [Producers -> Int]
       /\ Offered[p] = c.count /\ Refused[p] = IF c.success THEN 0 ELSE c.count
  BY <1>0, CallTypes DEF CallsReport
<1>11. SumFunction(Offered') = SumFunction(Offered) - c.count + 0
  BY <1>9, <1>10, QueueAssumption, SumChange
<1>12. SumFunction(Refused') = SumFunction(Refused) - (IF c.success THEN 0 ELSE c.count) + 0
  BY <1>9, <1>10, QueueAssumption, SumChange
<1>13. Balanced'
  <2> DEFINE A == SumFunction(Offered)
             R == SumFunction(Refused)
             l == Len(accepted)
             T == stats.TotalCount
             F == stats.FailTotal
             W == Weighted(snapshots, AllSeries)
             X == Weighted(snapshots, Failures)
             n == c.count
             k == IF c.success THEN 0 ELSE c.count
  <2>1. T \in Nat /\ F \in Nat /\ made \in Nat /\ l \in Nat /\ W \in Int /\ X \in Int /\ A \in Int /\ R \in Int
    BY BalanceTypes
  <2>2. T + (W + A) = made /\ F + (X + R) + l = made
    BY <1>0 DEF Balanced
  <2>3. n \in Nat /\ k \in Nat
    BY <1>2
  <2> HIDE DEF A, R, l, T, F, W, X, n, k
  <2>4. T + ((W + n) + (A - n + 0)) = made /\ F + ((X + k) + (R - k + 0)) + l = made
    BY <2>1, <2>2, <2>3, SMT
  <2> HIDE DEF c
  <2> QED BY <1>1, <1>4, <1>5, <1>11, <1>12, <2>4 DEF Balanced, A, R, l, T, F, W, X, n, k
<1> QED BY <1>0, <1>6, <1>8, <1>13 DEF CountersInv

\* snapshot: the counters take over what its arguments say, in any order.
LEMMA SnapshotCounts ==
  ASSUME CountersInv, Snapshot
  PROVE  CountersInv'
<1>0. QInv /\ QInv' /\ StatTypes /\ IdleCounts /\ Balanced
  BY QInvNext DEF CountersInv, Next
<1>1. PICK a \in BagToSet(snapshots) : snapshots' = snapshots (-) SetToBag({a}) /\ stats' = Counted(stats, a)
  BY DEF Snapshot
<1>2. producer' = producer /\ made' = made /\ accepted' = accepted
  BY DEF Snapshot
<1>3. a \in Report /\ a.count \in Nat /\ a.size \in Nat /\ a.success \in BOOLEAN
  BY <1>0 DEF StatTypes, Counts, Report
<1>4. Counts(snapshots', Report) /\ snapshots = snapshots' (+) SetToBag({a})
  BY <1>0, <1>1, BagShrinks DEF StatTypes
<1>5. /\ Weighted(snapshots, AllSeries) = Weighted(snapshots', AllSeries) + AllSeries[a]
      /\ Weighted(snapshots, Failures) = Weighted(snapshots', Failures) + Failures[a]
      /\ Weighted(snapshots', AllSeries) \in Int /\ Weighted(snapshots', Failures) \in Int
  BY <1>3, <1>4, WeightTypes, BagGrows
<1>6. AllSeries[a] = a.count /\ Failures[a] = IF a.success THEN 0 ELSE a.count
  BY <1>3, WeightTypes
<1>7. /\ stats'.TotalCount = stats.TotalCount + a.count
      /\ stats'.FailTotal = stats.FailTotal + (IF a.success THEN 0 ELSE a.count)
      /\ stats' \in [FailCount : Nat, FailTotal : Nat, TotalCount : Nat, QueueSize : Nat]
  <2>1. stats.TotalCount \in Nat /\ stats.FailTotal \in Nat /\ stats.FailCount \in Nat
    BY <1>0 DEF StatTypes
  <2>2. \A m, n \in Nat : m + n \in Nat /\ m + 1 \in Nat /\ m + 0 = m
    BY SMT
  <2> QED BY <1>1, <1>3, <2>1, <2>2 DEF Counted
<1>8. StatTypes' /\ IdleCounts'
  BY <1>0, <1>2, <1>4, <1>7 DEF StatTypes, IdleCounts
<1>9. Offered' = Offered /\ Refused' = Refused
  BY <1>2 DEF Offered, Refused
<1>10. Balanced'
  <2> DEFINE A == SumFunction(Offered)
             R == SumFunction(Refused)
             l == Len(accepted)
             T == stats.TotalCount
             F == stats.FailTotal
             W == Weighted(snapshots', AllSeries)
             X == Weighted(snapshots', Failures)
             n == a.count
             k == IF a.success THEN 0 ELSE a.count
  <2>1. T \in Nat /\ F \in Nat /\ made \in Nat /\ l \in Nat /\ W \in Int /\ X \in Int /\ A \in Int /\ R \in Int
    BY <1>5, BalanceTypes
  <2>2. T + ((W + n) + A) = made /\ F + ((X + k) + R) + l = made
    BY <1>0, <1>5, <1>6 DEF Balanced
  <2>3. n \in Nat /\ k \in Nat
    BY <1>3
  <2> HIDE DEF A, R, l, T, F, W, X, n, k
  <2>4. (T + n) + (W + A) = made /\ (F + k) + (X + R) + l = made
    BY <2>1, <2>2, <2>3, SMT
  <2> QED BY <1>2, <1>7, <1>9, <2>4 DEF Balanced, A, R, l, T, F, W, X, n, k
<1> QED BY <1>0, <1>8, <1>10 DEF CountersInv

\* No other step touches what is counted.
LEMMA CountersNext == CountersInv /\ [Next]_vars => CountersInv'
<1> SUFFICES ASSUME CountersInv, [Next]_vars PROVE CountersInv'
  OBVIOUS
<1>1. ASSUME NEW p \in Producers, WriteSamples(p) PROVE CountersInv'
  BY <1>1, WriteSamplesCounts
<1>2. ASSUME NEW p \in Producers, ReadLen(p) PROVE CountersInv'
  BY <1>2, ReadLenCounts
<1>3. CASE Snapshot
  BY <1>3, SnapshotCounts
<1>4. CASE LoopRead \/ UNCHANGED vars
  <2>1. snapshots' = snapshots /\ stats' = stats /\ producer' = producer /\ made' = made /\ accepted' = accepted
    BY <1>4 DEF LoopRead, LoopPops, Wrote, Write, vars
  <2>2. QInv'
    BY QInvNext DEF CountersInv
  <2>3. Offered' = Offered /\ Refused' = Refused
    BY <2>1 DEF Offered, Refused
  <2> QED BY <2>1, <2>2, <2>3 DEF CountersInv, StatTypes, IdleCounts, Balanced
<1> QED BY <1>1, <1>2, <1>3, <1>4 DEF Next

\* However the goroutines of snapshot are delayed and reordered, TotalCount and
\* FailTotal with what is on its way to them add up to the series that were
\* offered to the queue.
THEOREM CountersAddUpAlways == Spec => []CountersAddUp
<1>1. CountersInv => CountersAddUp
  BY BalancedIs DEF CountersInv
<1>2. Spec => []CountersInv
  BY CountersInit, CountersNext, PTL DEF Spec
<1> QED BY <1>1, <1>2, PTL
============================================================================
