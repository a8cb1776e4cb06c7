------------------------- MODULE LogPipelineProofs -------------------------
(***************************************************************************)
(* Proofs about the log pipeline, for every number of messages and sizes   *)
(* of the channels and the payloads, every configuration of the sender and *)
(* any number of stops and crashes.                                        *)
(***************************************************************************)
EXTENDS LogPipeline, TLAPS

\* The provers, in the order in which they are tried.
USE ZenonT(2), SMTT(30), ZenonT(60)

----------------------------------------------------------------------------
(* Sequences of messages *)

\* What a sequence holds after an append.
LEMMA ElemsOfAppend ==
  ASSUME NEW s \in Seq(Messages), NEW m \in Messages
  PROVE  /\ Append(s, m) \in Seq(Messages) /\ Len(Append(s, m)) = Len(s) + 1
         /\ Append(s, m) # <<>>
         /\ Elems(Append(s, m)) = Elems(s) \cup {m}
<1>1. /\ Append(s, m) \in Seq(Messages) /\ Len(Append(s, m)) = Len(s) + 1 /\ Len(s) \in Nat
      /\ \A i \in 1..Len(s) : Append(s, m)[i] = s[i]
      /\ Append(s, m)[Len(s) + 1] = m
  BY SMT
<1>2. 1..(Len(s) + 1) = 1..Len(s) \cup {Len(s) + 1}
  BY <1>1, SMT
<1>3. Elems(Append(s, m)) = Elems(s) \cup {m}
  BY <1>1, <1>2, ZenonT(10) DEF Elems
<1> QED BY <1>1, <1>3, SMT

\* What a sequence holds is its head and what its tail holds.
LEMMA ElemsOfTail ==
  ASSUME NEW s \in Seq(Messages), s # <<>>
  PROVE  /\ Head(s) \in Messages /\ Tail(s) \in Seq(Messages)
         /\ Len(s) \in Nat /\ Len(Tail(s)) \in Nat /\ Len(s) = Len(Tail(s)) + 1
         /\ Elems(s) = {Head(s)} \cup Elems(Tail(s))
<1>1. /\ Head(s) \in Messages /\ Tail(s) \in Seq(Messages)
      /\ Len(s) \in Nat /\ Len(Tail(s)) \in Nat /\ Len(s) = Len(Tail(s)) + 1
      /\ Head(s) = s[1]
      /\ \A i \in 1..Len(Tail(s)) : Tail(s)[i] = s[i + 1]
  BY SMT
<1>2. /\ 1 \in 1..Len(s)
      /\ \A i \in 1..Len(Tail(s)) : i + 1 \in 1..Len(s)
      /\ \A i \in 1..Len(s) : i = 1 \/ \E j \in 1..Len(Tail(s)) : i = j + 1
  <2>1. \A i \in 1..Len(s) : i = 1 \/ (i - 1 \in 1..Len(Tail(s)) /\ i = (i - 1) + 1)
    BY <1>1, SMT
  <2> QED BY <1>1, <2>1, SMT
<1>3. ASSUME NEW i \in 1..Len(s) PROVE s[i] \in {Head(s)} \cup Elems(Tail(s))
  <2>1. CASE i = 1
    BY <1>1, <2>1
  <2>2. ASSUME NEW j \in 1..Len(Tail(s)), i = j + 1 PROVE s[i] \in Elems(Tail(s))
    BY <1>1, <2>2 DEF Elems
  <2> QED BY <1>2, <2>1, <2>2
<1>4. ASSUME NEW j \in 1..Len(Tail(s)) PROVE Tail(s)[j] \in Elems(s)
  BY <1>1, <1>2 DEF Elems
<1>5. s[1] \in Elems(s)
  BY <1>2 DEF Elems
<1>6. Elems(s) \subseteq {Head(s)} \cup Elems(Tail(s))
  BY <1>3 DEF Elems
<1>7. {Head(s)} \cup Elems(Tail(s)) \subseteq Elems(s)
  BY <1>1, <1>4, <1>5 DEF Elems
<1> QED BY <1>1, <1>6, <1>7

\* An increasing sequence stays so when its head is taken, which is smaller
\* than the rest, and when a larger message is appended.
LEMMA IncreasingTail ==
  ASSUME NEW s \in Seq(Messages), s # <<>>, Increasing(s)
  PROVE  Increasing(Tail(s)) /\ Before({Head(s)}, Elems(Tail(s)))
<1>1. /\ Len(s) \in Nat /\ Len(Tail(s)) \in Nat /\ Len(s) = Len(Tail(s)) + 1
      /\ Head(s) = s[1] /\ \A i \in 1..Len(Tail(s)) : Tail(s)[i] = s[i + 1]
  BY SMT
<1>2. Increasing(Tail(s))
  BY <1>1, SMT DEF Increasing
<1>3. ASSUME NEW i \in 1..Len(Tail(s)) PROVE Head(s) < Tail(s)[i]
  <2>1. 1 \in 1..Len(s) /\ i + 1 \in 1..Len(s) /\ 1 < i + 1
    BY <1>1, SMT
  <2> QED BY <1>1, <2>1 DEF Increasing
<1> QED BY <1>2, <1>3 DEF Before, Elems

\* A message later than every one of an increasing sequence can be appended.
LEMMA IncreasingAppend ==
  ASSUME NEW s \in Seq(Messages), NEW m \in Messages, Increasing(s), Before(Elems(s), {m})
  PROVE  Increasing(Append(s, m))
<1>1. /\ Len(Append(s, m)) = Len(s) + 1 /\ Len(s) \in Nat
      /\ \A i \in 1..Len(s) : Append(s, m)[i] = s[i]
      /\ Append(s, m)[Len(s) + 1] = m
  BY SMT
<1>2. \A i \in 1..Len(s) : s[i] < m
  BY DEF Before, Elems
<1> QED BY <1>1, <1>2, SMT DEF Increasing

\* Nothing is in an empty sequence, and a sequence of one message holds it.
LEMMA ElemsOfShort ==
  /\ Elems(<<>>) = {} /\ Increasing(<<>>)
  /\ \A m \in Messages : <<m>> \in Seq(Messages) /\ Len(<<m>>) = 1 /\ Elems(<<m>>) = {m}
<1>1. \A i \in 1..Len(<<>>) : FALSE
  BY SMT
<1>2. \A m : Len(<<m>>) = 1 /\ <<m>>[1] = m /\ 1..1 = {1}
  BY SMT
<1>3. \A m : Elems(<<m>>) = {m}
  BY <1>2 DEF Elems
<1> QED BY <1>1, <1>2, <1>3, SMT DEF Elems, Increasing

\* A sequence of messages holds messages, and nothing only when it is empty.
LEMMA ElemsAreMessages ==
  ASSUME NEW s \in Seq(Messages)
  PROVE  /\ Elems(s) \subseteq Messages
         /\ Len(s) \in Nat
         /\ s # <<>> => 1 <= Len(s)
         /\ \A i \in 1..Len(s) : s[i] \in Elems(s)
BY SMT DEF Elems

----------------------------------------------------------------------------
(* The types *)

\* Position is a place in the file, whatever the mode.
LEMMA PositionInFile ==
  ASSUME written \in 0..MaxMessages, NEW r \in Offsets
  PROVE  Position(r) \in 0..MaxMessages
<1>1. MaxMessages \in Nat /\ 0 \in 0..MaxMessages /\ r \in 0..MaxMessages
  BY AuditorAssumption, SMT DEF Offsets, Messages, NoEntry
<1> QED BY <1>1, PipelineAssumption DEF Position

\* What the assumptions on the constants say of the sets of messages and offsets.
LEMMA Constants_ ==
  /\ MaxMessages \in Nat /\ ChanSize \in Nat /\ 1 <= ChanSize /\ BatchMax \in Nat /\ 1 <= BatchMax
  /\ None \notin Messages /\ NoEntry \in Offsets /\ Messages \subseteq Offsets /\ TooLarge \subseteq Messages
  /\ Messages \subseteq Nat /\ Offsets \subseteq Nat
BY AuditorAssumption, SenderAssumption, SMT DEF Messages, Offsets, NoEntry, None, TooLarge

\* The auditor of a new process, and of one that has ended.
LEMMA AuditorStartTypes ==
  ASSUME AuditorTypeOK, AuditorStart \/ AuditorCrash
  PROVE  AuditorTypeOK'
<1>1. auditIn' = <<>> /\ disk' = disk /\ registry' \in {disk, NoEntry}
  BY DEF AuditorStart, AuditorCrash, Recovered, Cleaned
<1>2. <<>> \in Seq(Messages) /\ Len(<<>>) <= ChanSize
  BY Constants_, SMT
<1>3. AuditorOff \in [on : BOOLEAN, closed : BOOLEAN, writing : BOOLEAN, copy : Offsets]
  BY Constants_ DEF AuditorOff
<1>4. auditor' \in [on : BOOLEAN, closed : BOOLEAN, writing : BOOLEAN, copy : Offsets]
  BY <1>3 DEF AuditorStart, AuditorCrash
<1> QED BY <1>1, <1>2, <1>4, Constants_ DEF AuditorTypeOK

\* The steps of the auditor's goroutine and of its Stop.
LEMMA AuditorStepTypes ==
  ASSUME AuditorTypeOK, AuditorRuns \/ AuditorClose \/ AuditorStop
  PROVE  AuditorTypeOK'
<1> USE DEF AuditorTypeOK
<1>1. CASE AuditorUpdates
  <2>1. Len(Tail(auditIn)) <= ChanSize
    BY <1>1, ElemsOfTail, Constants_, SMT DEF AuditorUpdates
  <2> QED BY <1>1, <2>1, ElemsOfTail, Constants_ DEF AuditorUpdates
<1>2. CASE AuditorCleans
  BY <1>2, Constants_ DEF AuditorCleans, Cleaned
<1>3. ASSUME NEW r \in Offsets, FlushBegins(r)
      PROVE  /\ auditor' \in [on : BOOLEAN, closed : BOOLEAN, writing : BOOLEAN, copy : Offsets]
             /\ disk' \in Offsets
  BY <1>3, Constants_ DEF FlushBegins
<1>4. CASE AuditorFlushes
  BY <1>3, <1>4 DEF AuditorFlushes
<1>5. CASE FlushEnds
  BY <1>5 DEF FlushEnds
<1>6. CASE AuditorEnds
  BY <1>6 DEF AuditorEnds
<1>7. CASE AuditorClose
  BY <1>7 DEF AuditorClose
<1>8. CASE AuditorStop
  <2>1. PICK r \in Cleaned(registry) : registry' = r /\ FlushBegins(r)
    BY <1>8 DEF AuditorStop
  <2>2. r \in Offsets /\ auditIn' = auditIn
    BY <1>8, Constants_ DEF AuditorStop, Cleaned
  <2> QED BY <1>3, <2>1, <2>2
<1> QED BY <1>1, <1>2, <1>4, <1>5, <1>6, <1>7, <1>8 DEF AuditorRuns

SenderRecord == [pc : {"off", "select", "flush", "wait", "done"}, next : {"select", "wait"},
                 retry : Messages \cup {None}, closed : BOOLEAN]
PayloadRecord == [msgs : Seq(Messages), pc : {"begin", "post", "ack"}, acked : Nat]

\* The sender of a new process, and of one that has ended.
LEMMA SenderStartTypes ==
  ASSUME SenderTypeOK, SenderStart \/ SenderCrash
  PROVE  SenderTypeOK'
<1>1. /\ sendIn' = <<>> /\ buffer' = <<>> /\ inflight' = {} /\ cancelled' = FALSE
      /\ UNCHANGED <<config, delivered, rejected, dropped>>
  BY DEF SenderStart, SenderCrash
<1>2. <<>> \in Seq(Messages) /\ Len(<<>>) <= ChanSize /\ Len(<<>>) <= BatchMax
  BY Constants_, SMT
<1>3. SenderOff \in SenderRecord
  BY DEF SenderOff, SenderRecord
<1>4. sender' \in SenderRecord
  BY <1>3 DEF SenderStart, SenderCrash, SenderRecord
<1> QED BY <1>1, <1>2, <1>4 DEF SenderTypeOK, SenderRecord

\* The loop of the sender.
LEMMA SenderLoopTypes ==
  ASSUME SenderTypeOK, SenderLoop
  PROVE  SenderTypeOK'
<1>0. /\ sender \in SenderRecord /\ sendIn \in Seq(Messages) /\ Len(sendIn) <= ChanSize
      /\ buffer \in Seq(Messages) /\ Len(buffer) <= BatchMax /\ inflight \subseteq PayloadRecord
  BY DEF SenderTypeOK, SenderRecord, PayloadRecord
<1>1. ASSUME sender' \in SenderRecord, sendIn' \in Seq(Messages), Len(sendIn') <= ChanSize,
             buffer' \in Seq(Messages), Len(buffer') <= BatchMax, inflight' \subseteq PayloadRecord,
             \A p \in inflight' : p.acked < Len(p.msgs) /\ Len(p.msgs) <= BatchMax,
             dropped' \subseteq Messages, UNCHANGED <<config, cancelled, delivered, rejected>>
      PROVE  SenderTypeOK'
  BY <1>1 DEF SenderTypeOK, SenderRecord, PayloadRecord
<1>2. sendIn # <<>> => Tail(sendIn) \in Seq(Messages) /\ Len(Tail(sendIn)) <= ChanSize /\ Head(sendIn) \in Messages
  BY <1>0, ElemsOfTail, Constants_, SMT
<1>3. ASSUME NEW ms \in Seq(Messages), ms # <<>>, Len(ms) <= BatchMax
      PROVE  /\ Payload(ms) \in PayloadRecord
             /\ Payload(ms).acked < Len(Payload(ms).msgs) /\ Len(Payload(ms).msgs) <= BatchMax
  BY <1>3, ElemsAreMessages, SMT DEF Payload, PayloadRecord
<1>4. CASE Receive
  <2> DEFINE m == Head(sendIn)
  <2>1. sendIn # <<>> /\ sendIn' = Tail(sendIn) /\ UNCHANGED <<config, inflight, cancelled, delivered, rejected, dropped>>
    BY <1>4 DEF Receive
  <2>2. CASE Added(m)
    <3>1. /\ buffer' = Append(buffer, m) /\ Len(buffer) < BatchMax
          /\ sender' \in {sender, [sender EXCEPT !.pc = "flush"]}
      BY <1>4, <2>2 DEF Receive, Added
    <3>2. buffer' \in Seq(Messages) /\ Len(buffer') <= BatchMax
      BY <1>0, <1>2, <2>1, <3>1, Constants_, SMT
    <3>3. sender' \in SenderRecord
      BY <1>0, <3>1, SMT DEF SenderRecord
    <3> QED BY <1>0, <1>1, <1>2, <2>1, <3>2, <3>3 DEF SenderTypeOK
  <2>3. CASE ~Added(m)
    <3>1. buffer' = buffer /\ sender' = [sender EXCEPT !.pc = "flush", !.retry = m]
      BY <1>4, <2>3 DEF Receive
    <3>2. sender' \in SenderRecord
      BY <1>0, <1>2, <2>1, <3>1 DEF SenderRecord
    <3> QED BY <1>0, <1>1, <1>2, <2>1, <3>1, <3>2 DEF SenderTypeOK
  <2> QED BY <2>2, <2>3
<1>5. CASE Flush
  <2>1. /\ inflight' = inflight \/ (buffer # <<>> /\ inflight' = inflight \cup {Payload(buffer)})
        /\ buffer' = IF sender.retry \in Messages \ TooLarge THEN <<sender.retry>> ELSE <<>>
        /\ dropped' = dropped \cup ({sender.retry} \cap TooLarge)
        /\ sender' = [sender EXCEPT !.pc = sender.next, !.retry = None]
        /\ UNCHANGED <<config, sendIn, cancelled, delivered, rejected>>
    BY <1>5 DEF Flush
  <2>2. sender' \in SenderRecord
    BY <1>0, <2>1 DEF SenderRecord
  <2>3. buffer' \in Seq(Messages) /\ Len(buffer') <= BatchMax
    BY <2>1, Constants_, SMT
  <2>4. dropped' \subseteq Messages
    BY <2>1, Constants_ DEF SenderTypeOK
  <2>5. inflight' \subseteq PayloadRecord /\ \A p \in inflight' : p.acked < Len(p.msgs) /\ Len(p.msgs) <= BatchMax
    BY <1>0, <1>3, <2>1 DEF SenderTypeOK
  <2> QED BY <1>0, <1>1, <2>1, <2>2, <2>3, <2>4, <2>5
<1>6. CASE Tick \/ InputEnds \/ SenderEnds \/ StreamEnds
  <2>1. UNCHANGED <<config, sendIn, buffer, inflight, cancelled, delivered, rejected, dropped>>
    BY <1>6 DEF Tick, InputEnds, SenderEnds, StreamEnds
  <2>2. sender' \in SenderRecord
    BY <1>0, <1>6 DEF SenderRecord, Tick, InputEnds, SenderEnds, StreamEnds
  <2> QED BY <1>0, <1>1, <2>1, <2>2 DEF SenderTypeOK
<1>7. CASE StreamReceive
  <2>1. /\ sendIn # <<>> /\ sendIn' = Tail(sendIn) /\ inflight' = {Payload(<<Head(sendIn)>>)}
        /\ UNCHANGED <<config, sender, buffer, cancelled, delivered, rejected, dropped>>
    BY <1>7 DEF StreamReceive
  <2>2. /\ <<Head(sendIn)>> \in Seq(Messages) /\ <<Head(sendIn)>> # <<>> /\ Len(<<Head(sendIn)>>) <= BatchMax
    BY <1>2, <2>1, Constants_, SMT
  <2> QED BY <1>0, <1>1, <1>2, <1>3, <2>1, <2>2 DEF SenderTypeOK
<1> QED BY <1>4, <1>5, <1>6, <1>7 DEF SenderLoop

\* A payload with another state, or with one more message forwarded.
LEMMA PayloadWithPc ==
  ASSUME NEW p \in PayloadRecord, NEW c \in {"begin", "post", "ack"}
  PROVE  LET q == [p EXCEPT !.pc = c]
         IN  q \in PayloadRecord /\ q.msgs = p.msgs /\ q.pc = c /\ q.acked = p.acked
BY DEF PayloadRecord

\* Counting an acknowledgement changes only how many messages of the payload are acknowledged.
LEMMA PayloadWithAcked ==
  ASSUME NEW p \in PayloadRecord, NEW k \in Nat
  PROVE  LET q == [p EXCEPT !.acked = k]
         IN  q \in PayloadRecord /\ q.msgs = p.msgs /\ q.pc = p.pc /\ q.acked = k
BY DEF PayloadRecord

\* The steps of a payload, up to its forwarding.
LEMMA PostTypes ==
  ASSUME SenderTypeOK, NEW p \in inflight, Post(p)
  PROVE  SenderTypeOK'
<1>0. /\ p \in PayloadRecord /\ inflight \subseteq PayloadRecord /\ Elems(p.msgs) \subseteq Messages
      /\ p.msgs \in Seq(Messages) /\ p.acked \in Nat /\ p.acked < Len(p.msgs) /\ Len(p.msgs) <= BatchMax
  BY ElemsAreMessages DEF SenderTypeOK, PayloadRecord
<1>1. CASE PostCancelled(p)
  <2>1. /\ inflight' \subseteq inflight
        /\ delivered' \in {delivered, delivered \cup Elems(p.msgs)}
        /\ sender' \in {sender, [sender EXCEPT !.pc = "done"]}
        /\ UNCHANGED <<config, sendIn, buffer, cancelled, rejected, dropped>>
    BY <1>1 DEF PostCancelled
  <2>2. sender' \in SenderRecord
    BY <2>1 DEF SenderTypeOK, SenderRecord
  <2> QED BY <1>0, <2>1, <2>2 DEF SenderTypeOK, SenderRecord
<1>2. CASE PostBegins(p) \/ PostSucceeds(p) \/ PostFails(p) \/ PostRejected(p)
  <2>1. PICK c \in {"begin", "post", "ack"} : inflight' = (inflight \ {p}) \cup {[p EXCEPT !.pc = c]}
    BY <1>2 DEF PostBegins, PostSucceeds, PostFails, PostRejected, Moved
  <2>2. /\ delivered' \in {delivered, delivered \cup Elems(p.msgs)}
        /\ rejected' \in {rejected, rejected \cup Elems(p.msgs)}
        /\ UNCHANGED <<config, sendIn, sender, buffer, cancelled, dropped>>
    BY <1>2 DEF PostBegins, PostSucceeds, PostFails, PostRejected
  <2>3. inflight' \subseteq PayloadRecord /\ \A q \in inflight' : q.acked < Len(q.msgs) /\ Len(q.msgs) <= BatchMax
    <3> DEFINE r == [p EXCEPT !.pc = c]
    <3>1. r \in PayloadRecord /\ r.acked = p.acked /\ r.msgs = p.msgs
      BY <1>0, PayloadWithPc
    <3>2. inflight' = (inflight \ {p}) \cup {r}
      BY <2>1
    <3> HIDE DEF r
    <3>3. r.acked < Len(r.msgs) /\ Len(r.msgs) <= BatchMax
      BY <1>0, <3>1
    <3> QED BY <1>0, <3>1, <3>2, <3>3 DEF SenderTypeOK
  <2> QED BY <1>0, <2>2, <2>3 DEF SenderTypeOK, PayloadRecord
<1> QED BY <1>1, <1>2 DEF Post

\* Handing a message of a posted payload to the auditor keeps the types, and there is such a message.
LEMMA ForwardTypes ==
  ASSUME AuditorTypeOK, SenderTypeOK, NEW p \in inflight, Forward(p)
  PROVE  /\ AuditorTypeOK' /\ SenderTypeOK'
         /\ p.acked + 1 \in 1..Len(p.msgs) /\ p.msgs[p.acked + 1] \in Messages
<1>0. /\ p \in PayloadRecord /\ inflight \subseteq PayloadRecord
      /\ p.msgs \in Seq(Messages) /\ Len(p.msgs) \in Nat /\ p.acked \in Nat /\ p.acked < Len(p.msgs)
  BY ElemsAreMessages DEF SenderTypeOK, PayloadRecord
<1>1. p.acked + 1 \in 1..Len(p.msgs) /\ p.acked + 1 \in Nat
  BY <1>0, SMT
<1>2. p.msgs[p.acked + 1] \in Messages
  BY <1>0, <1>1, SMT
<1>3. /\ auditIn \in Seq(Messages) /\ Len(auditIn) < ChanSize
      /\ auditIn' = Append(auditIn, p.msgs[p.acked + 1])
      /\ UNCHANGED <<config, sendIn, sender, buffer, cancelled, delivered, rejected, dropped, auditor, registry, disk>>
  BY DEF Forward, AuditorTypeOK
<1>4. auditIn' \in Seq(Messages) /\ Len(auditIn') <= ChanSize
  BY <1>2, <1>3, ElemsOfAppend, ElemsAreMessages, Constants_, SMT
<1>5. AuditorTypeOK'
  BY <1>3, <1>4 DEF AuditorTypeOK
<1>6. p.acked + 1 # Len(p.msgs) => p.acked + 1 < Len(p.msgs)
  BY <1>0, SMT
<1>7. inflight' \subseteq PayloadRecord /\ \A q \in inflight' : q.acked < Len(q.msgs) /\ Len(q.msgs) <= BatchMax
  <2> DEFINE r == [p EXCEPT !.acked = p.acked + 1]
  <2>1. r \in PayloadRecord /\ r.acked = p.acked + 1 /\ r.msgs = p.msgs
    BY <1>0, <1>1, PayloadWithAcked
  <2>2. inflight' = inflight \ {p} \/ (p.acked + 1 # Len(p.msgs) /\ inflight' = (inflight \ {p}) \cup {r})
    BY DEF Forward
  <2> HIDE DEF r
  <2>3. p.acked + 1 # Len(p.msgs) => r.acked < Len(r.msgs) /\ Len(r.msgs) <= BatchMax
    BY <1>6, <2>1 DEF SenderTypeOK
  <2> QED BY <1>0, <2>1, <2>2, <2>3 DEF SenderTypeOK
<1>8. SenderTypeOK'
  BY <1>3, <1>7 DEF SenderTypeOK, PayloadRecord
<1> QED BY <1>1, <1>2, <1>5, <1>8

\* The types of what is left.
ReaderRecord == [on : BOOLEAN, from : 0..MaxMessages, pos : 0..MaxMessages]
ProcRecord == [on : BOOLEAN, closed : BOOLEAN]
AgentTypeOK ==
  /\ written \in 0..MaxMessages /\ stops \in 0..MaxStops /\ crashes \in 0..MaxCrashes
  /\ reader \in ReaderRecord /\ proc \in ProcRecord
  /\ procIn \in Seq(Messages) /\ Len(procIn) <= ChanSize
  /\ main \in {"off", "running", "stopping", "forced", "stopped"}
  /\ stopper \in {"off", "inputs", "pipeline", "processor", "sender", "auditor", "flush", "done"}

\* The type invariant is that of the three parts.
LEMMA TypesAre == TypeOK <=> AuditorTypeOK /\ SenderTypeOK /\ AgentTypeOK
BY DEF TypeOK, AgentTypeOK, ReaderRecord, ProcRecord

\* A step that leaves the auditor alone keeps its types.
LEMMA AuditorUnchanged == ASSUME AuditorTypeOK, UNCHANGED auditorVars PROVE AuditorTypeOK'
BY DEF AuditorTypeOK, auditorVars

\* A step that leaves the sender alone keeps its types.
LEMMA SenderUnchanged == ASSUME SenderTypeOK, UNCHANGED senderVars PROVE SenderTypeOK'
BY DEF SenderTypeOK, senderVars

\* A step that leaves reader, processor and stopper alone keeps their types.
LEMMA AgentUnchanged == ASSUME AgentTypeOK, UNCHANGED agentVars PROVE AgentTypeOK'
BY DEF AgentTypeOK, agentVars

\* Starting the agent, with recoverRegistry, keeps the types.
LEMMA StartTypes ==
  ASSUME TypeOK, Start_
  PROVE  TypeOK'
<1>1. AuditorTypeOK'
  BY AuditorStartTypes, TypesAre DEF Start_
<1>2. SenderTypeOK'
  BY SenderStartTypes, TypesAre DEF Start_
<1>3. Position(registry') \in 0..MaxMessages
  BY <1>1, PositionInFile DEF TypeOK, AuditorTypeOK
<1>4. reader' \in ReaderRecord
  BY <1>3 DEF Start_, ReaderRecord
<1>5. proc' \in ProcRecord
  <2>1. ProcOff \in ProcRecord
    BY DEF ProcOff, ProcRecord
  <2> QED BY <2>1 DEF Start_, ProcRecord
<1>6. <<>> \in Seq(Messages) /\ Len(<<>>) <= ChanSize
  BY Constants_, SMT
<1>7. AgentTypeOK'
  BY <1>4, <1>5, <1>6, TypesAre DEF Start_, AgentTypeOK
<1> QED BY <1>1, <1>2, <1>7, TypesAre, PTL

\* The end of the process, orderly or not, keeps the types.
LEMMA ProcessEndsTypes ==
  ASSUME TypeOK, Exit \/ Crash
  PROVE  TypeOK'
<1>1. AuditorTypeOK'
  BY AuditorStartTypes, TypesAre DEF Exit, Crash, ProcessEnds
<1>2. SenderTypeOK'
  BY SenderStartTypes, TypesAre DEF Exit, Crash, ProcessEnds
<1>3. reader' \in ReaderRecord /\ proc' \in ProcRecord
  <2>1. ProcOff \in ProcRecord
    BY DEF ProcOff, ProcRecord
  <2>2. 0 \in 0..MaxMessages
    BY Constants_, SMT
  <2>3. ReaderOff \in ReaderRecord
    BY <2>2 DEF ReaderOff, ReaderRecord
  <2> QED BY <2>1, <2>3 DEF Exit, Crash, ProcessEnds
<1>4. <<>> \in Seq(Messages) /\ Len(<<>>) <= ChanSize
  BY Constants_, SMT
<1>5. crashes' \in 0..MaxCrashes
  <2>1. crashes \in 0..MaxCrashes /\ MaxCrashes \in Nat
    BY PipelineAssumption DEF TypeOK
  <2>2. crashes' = crashes \/ (crashes < MaxCrashes /\ crashes' = crashes + 1)
    BY DEF Exit, Crash
  <2> QED BY <2>1, <2>2, SMT
<1>6. AgentTypeOK'
  BY <1>3, <1>4, <1>5, TypesAre DEF Exit, Crash, ProcessEnds, AgentTypeOK
<1> QED BY <1>1, <1>2, <1>6, TypesAre, PTL

\* The application, the reader and the processor.
LEMMA InputTypes ==
  ASSUME TypeOK, Log \/ Read \/ Process \/ ProcessorEnds
  PROVE  TypeOK'
<1>0. AuditorTypeOK /\ SenderTypeOK /\ AgentTypeOK
  BY TypesAre
<1>1. AuditorTypeOK'
  BY <1>0, AuditorUnchanged DEF Log, Read, Process, ProcessorEnds
<1>2. SenderTypeOK'
  <2>1. CASE Process
    <3>1. procIn # <<>> /\ Head(procIn) \in Messages
      BY <1>0, <2>1, ElemsOfTail DEF Process, AgentTypeOK
    <3>2. UNCHANGED <<config, sender, buffer, inflight, cancelled, delivered, rejected>>
      BY <2>1 DEF Process
    <3>3. \/ sendIn' = sendIn /\ dropped' = dropped \cup {Head(procIn)}
          \/ Len(sendIn) < ChanSize /\ sendIn' = Append(sendIn, Head(procIn)) /\ dropped' = dropped
      BY <2>1 DEF Process
    <3>4. sendIn' \in Seq(Messages) /\ Len(sendIn') <= ChanSize
      <4>1. sendIn \in Seq(Messages) /\ Len(sendIn) <= ChanSize
        BY <1>0 DEF SenderTypeOK
      <4> QED BY <3>1, <3>3, <4>1, ElemsOfAppend, ElemsAreMessages, Constants_, SMT
    <3>5. dropped' \subseteq Messages
      BY <1>0, <3>1, <3>3 DEF SenderTypeOK
    <3> QED BY <1>0, <3>2, <3>4, <3>5 DEF SenderTypeOK
  <2> QED BY <1>0, <2>1, SenderUnchanged DEF Log, Read, ProcessorEnds
<1>3. AgentTypeOK'
  <2>1. CASE Log
    <3>1. written' \in 0..MaxMessages
      BY <1>0, <2>1, Constants_, SMT DEF Log, AgentTypeOK
    <3> QED BY <1>0, <2>1, <3>1 DEF Log, AgentTypeOK
  <2>2. CASE Read
    <3>1. reader.pos \in 0..MaxMessages /\ reader.pos + 1 \in Messages /\ reader.pos + 1 \in 0..MaxMessages
      <4>1. reader.pos \in 0..MaxMessages
        BY <1>0 DEF AgentTypeOK, ReaderRecord
      <4>2. reader.pos < written /\ written \in 0..MaxMessages
        BY <1>0, <2>2 DEF Read, AgentTypeOK
      <4> QED BY <4>1, <4>2, Constants_, SMT DEF Messages
    <3>2. reader' \in ReaderRecord
      BY <1>0, <2>2, <3>1 DEF Read, AgentTypeOK, ReaderRecord
    <3>3. procIn' \in Seq(Messages) /\ Len(procIn') <= ChanSize
      <4>1. procIn \in Seq(Messages) /\ Len(procIn) < ChanSize /\ procIn' = Append(procIn, reader.pos + 1)
        BY <1>0, <2>2 DEF Read, AgentTypeOK
      <4> QED BY <3>1, <4>1, ElemsOfAppend, Constants_, SMT
    <3> QED BY <1>0, <2>2, <3>2, <3>3 DEF Read, AgentTypeOK
  <2>3. CASE Process
    <3>1. procIn' \in Seq(Messages) /\ Len(procIn') <= ChanSize
      <4>1. procIn \in Seq(Messages) /\ procIn # <<>> /\ procIn' = Tail(procIn) /\ Len(procIn) <= ChanSize
        BY <1>0, <2>3 DEF Process, AgentTypeOK
      <4> QED BY <4>1, ElemsOfTail, Constants_, SMT
    <3> QED BY <1>0, <2>3, <3>1 DEF Process, AgentTypeOK
  <2>4. CASE ProcessorEnds
    <3>1. proc' \in ProcRecord
      BY <1>0, <2>4 DEF ProcessorEnds, AgentTypeOK, ProcRecord
    <3> QED BY <1>0, <2>4, <3>1 DEF ProcessorEnds, AgentTypeOK
  <2> QED BY <2>1, <2>2, <2>3, <2>4
<1> QED BY <1>1, <1>2, <1>3, TypesAre, PTL

\* Stop and its goroutine, and the tailer that it does not wait for.
Stopping == StopBegins \/ Stopper \/ SendPanics \/ StopForces \/ StopReturns \/ StopGivesUp

\* Every step of the Stop of the agent keeps the types.
LEMMA StopTypes ==
  ASSUME TypeOK, Stopping
  PROVE  TypeOK'
<1> USE DEF Stopping, Stopper
<1>0. AuditorTypeOK /\ SenderTypeOK /\ AgentTypeOK
  BY TypesAre
<1>1. AuditorTypeOK'
  BY <1>0, AuditorUnchanged, AuditorStepTypes
  DEF StopBegins, StopInputs, ClosePipeline, SendPanics, StopProcessor, StopSender, StopAuditor, StopDestinations, StopForces, StopReturns, StopGivesUp
<1>2. SenderTypeOK'
  <2>1. CASE StopProcessor
    <3>1. sender' \in SenderRecord
      BY <1>0, <2>1 DEF StopProcessor, SenderTypeOK, SenderRecord
    <3> QED BY <1>0, <2>1, <3>1 DEF StopProcessor, SenderTypeOK, SenderRecord
  <2>2. CASE StopDestinations \/ StopForces
    BY <1>0, <2>2 DEF StopDestinations, StopForces, SenderTypeOK
  <2> QED BY <1>0, <2>1, <2>2, SenderUnchanged
          DEF StopBegins, StopInputs, ClosePipeline, SendPanics, StopSender, StopAuditor, StopReturns, StopGivesUp
<1>3. AgentTypeOK'
  <2>1. CASE StopBegins
    <3>1. stops' \in 0..MaxStops
      BY <1>0, <2>1, PipelineAssumption, SMT DEF StopBegins, AgentTypeOK
    <3> QED BY <1>0, <2>1, <3>1 DEF StopBegins, AgentTypeOK
  <2>2. CASE StopInputs \/ ClosePipeline \/ SendPanics
    <3>1. reader' \in ReaderRecord /\ proc' \in ProcRecord
      BY <1>0, <2>2 DEF StopInputs, ClosePipeline, SendPanics, AgentTypeOK, ReaderRecord, ProcRecord
    <3> QED BY <1>0, <2>2, <3>1 DEF StopInputs, ClosePipeline, SendPanics, AgentTypeOK
  <2>3. CASE StopProcessor \/ StopSender \/ StopAuditor \/ StopDestinations \/ StopForces \/ StopReturns \/ StopGivesUp
    BY <1>0, <2>3 DEF StopProcessor, StopSender, StopAuditor, StopDestinations, StopForces, StopReturns, StopGivesUp, AgentTypeOK
  <2> QED BY <2>1, <2>2, <2>3
<1> QED BY <1>1, <1>2, <1>3, TypesAre, PTL

\* Every step keeps the types and the capacities of the channels.
LEMMA NextTypes ==
  ASSUME TypeOK, Next
  PROVE  TypeOK'
<1>0. AuditorTypeOK /\ SenderTypeOK /\ AgentTypeOK
  BY TypesAre
<1>1. CASE SenderLoop /\ UNCHANGED <<auditorVars, agentVars>>
  <2>1. AuditorTypeOK' /\ SenderTypeOK' /\ AgentTypeOK'
    BY <1>0, <1>1, SenderLoopTypes, AuditorUnchanged, AgentUnchanged
  <2> QED BY <2>1, TypesAre, PTL
<1>2. ASSUME NEW p \in inflight, Post(p), UNCHANGED <<auditorVars, agentVars>> PROVE TypeOK'
  <2>1. AuditorTypeOK' /\ SenderTypeOK' /\ AgentTypeOK'
    BY <1>0, <1>2, PostTypes, AuditorUnchanged, AgentUnchanged
  <2> QED BY <2>1, TypesAre, PTL
<1>3. ASSUME NEW p \in inflight, Forward(p), UNCHANGED agentVars PROVE TypeOK'
  <2>1. AuditorTypeOK' /\ SenderTypeOK' /\ AgentTypeOK'
    BY <1>0, <1>3, ForwardTypes, AgentUnchanged
  <2> QED BY <2>1, TypesAre, PTL
<1>4. CASE AuditorRuns /\ UNCHANGED <<senderVars, agentVars>>
  <2>1. AuditorTypeOK' /\ SenderTypeOK' /\ AgentTypeOK'
    BY <1>0, <1>4, AuditorStepTypes, SenderUnchanged, AgentUnchanged
  <2> QED BY <2>1, TypesAre, PTL
<1> QED BY <1>1, <1>2, <1>3, <1>4, StartTypes, ProcessEndsTypes, InputTypes, StopTypes DEF Next, Stopping

----------------------------------------------------------------------------
(* The goroutines and the order in which they end *)

\* The fields of the records that a step sets.
LEMMA SenderFields ==
  ASSUME TypeOK
  PROVE  /\ sender \in SenderRecord /\ auditor \in [on : BOOLEAN, closed : BOOLEAN, writing : BOOLEAN, copy : Offsets]
         /\ reader \in ReaderRecord /\ proc \in ProcRecord
         /\ inflight \subseteq PayloadRecord /\ config \in [strategy : {"batch", "stream"}, concurrent : Nat]
BY SenderAssumption DEF TypeOK, AuditorTypeOK, SenderTypeOK, SenderRecord, ReaderRecord, ProcRecord, PayloadRecord

\* A started agent has no channel closed and no stage ended.
LEMMA StartControl ==
  ASSUME PipelineInv, Start_
  PROVE  ControlInv'
<1>1. /\ sender'.pc = "select" /\ sender'.next = "select" /\ sender'.retry = None /\ sender'.closed = FALSE
      /\ sendIn' = <<>> /\ buffer' = <<>> /\ inflight' = {} /\ cancelled' = FALSE
  BY DEF Start_, SenderStart, SenderOff
<1>2. auditor'.on = TRUE /\ auditor'.closed = FALSE /\ proc'.on = TRUE /\ proc'.closed = FALSE
  BY DEF Start_, AuditorStart, AuditorOff, ProcOff
<1>3. stopper' = "off" /\ main' = "running"
  BY DEF Start_, PipelineInv, ControlInv, Unforced
<1> QED BY <1>1, <1>2, <1>3 DEF ControlInv, NoSendOnClosed, StagesEnd, SenderStates, Unforced

\* After the end of the process nothing runs and nothing is queued.
LEMMA ProcessEndsControl ==
  ASSUME PipelineInv, Exit \/ Crash
  PROVE  ControlInv'
<1>1. /\ sender'.pc = "off" /\ sender'.next = "select" /\ sender'.retry = None /\ sender'.closed = FALSE
      /\ sendIn' = <<>> /\ buffer' = <<>> /\ inflight' = {} /\ cancelled' = FALSE
      /\ auditor'.on = FALSE /\ auditor'.closed = FALSE /\ auditIn' = <<>>
      /\ proc'.on = FALSE /\ proc'.closed = FALSE /\ procIn' = <<>> /\ reader'.on = FALSE
      /\ stopper' = "off" /\ main' = "off"
  BY DEF Exit, Crash, ProcessEnds, SenderCrash, SenderOff, AuditorCrash, AuditorOff, ProcOff, ReaderOff
<1> QED BY <1>1 DEF ControlInv, NoSendOnClosed, StagesEnd, SenderStates, Unforced

\* The application, the reader and the processor.
LEMMA InputControl ==
  ASSUME PipelineInv, Log \/ Read \/ Process \/ ProcessorEnds
  PROVE  ControlInv'
<1> USE DEF PipelineInv, ControlInv, NoSendOnClosed, StagesEnd, SenderStates, Unforced
<1>1. CASE Log
  BY <1>1 DEF Log, auditorVars, senderVars
<1>2. CASE Read
  <2>1. /\ reader.on /\ ~proc.closed /\ reader'.on = reader.on
        /\ UNCHANGED <<auditorVars, senderVars, proc, main, stopper>>
    BY <1>2, SenderFields DEF Read, ReaderRecord
  <2> QED BY <2>1 DEF auditorVars, senderVars
<1>3. CASE Process
  <2>1. /\ proc.on /\ UNCHANGED <<auditorVars, config, sender, buffer, inflight, cancelled, reader, proc, main, stopper>>
    BY <1>3 DEF Process
  <2>2. sender.closed = FALSE
    BY <2>1, SenderFields DEF SenderRecord
  <2> QED BY <2>1, <2>2 DEF auditorVars
<1>4. CASE ProcessorEnds
  <2>1. /\ proc.closed /\ procIn = <<>> /\ proc'.on = FALSE /\ proc'.closed = proc.closed
        /\ UNCHANGED <<auditorVars, senderVars, reader, procIn, main, stopper>>
    BY <1>4, SenderFields DEF ProcessorEnds, ProcRecord
  <2> QED BY <2>1 DEF auditorVars, senderVars
<1> QED BY <1>1, <1>2, <1>3, <1>4

\* The sender.
LEMMA SenderLoopControl ==
  ASSUME PipelineInv, SenderLoop, UNCHANGED <<auditorVars, agentVars>>
  PROVE  ControlInv'
<1> USE DEF PipelineInv, ControlInv, NoSendOnClosed, StagesEnd, SenderStates, Unforced
<1>0. UNCHANGED <<auditIn, auditor, reader, procIn, proc, main, stopper>>
  BY DEF auditorVars, agentVars
<1>1. CASE Receive
  <2>1. /\ config.strategy = "batch" /\ sender.pc = "select" /\ sendIn # <<>>
        /\ UNCHANGED <<config, inflight, cancelled>>
    BY <1>1 DEF Receive, Selecting
  <2>2. /\ sender'.pc \in {"select", "flush"} /\ sender'.next = sender.next /\ sender'.closed = sender.closed
        /\ sender'.retry # sender.retry => sender'.pc = "flush"
    <3>1. \/ sender' = sender
          \/ sender' = [sender EXCEPT !.pc = "flush"]
          \/ sender' = [sender EXCEPT !.pc = "flush", !.retry = Head(sendIn)]
      BY <1>1 DEF Receive
    <3>2. sender \in SenderRecord
      BY SenderFields
    <3> QED BY ONLY <2>1, <3>1, <3>2 DEF SenderRecord
  <2>3. sender.next = "select" /\ sender.retry = None
    BY <2>1, SenderFields DEF SenderRecord
  <2> QED BY <1>0, <2>1, <2>2, <2>3
<1>2. CASE Tick
  <2>1. /\ config.strategy = "batch" /\ sender.pc = "select"
        /\ sender'.pc = "flush" /\ sender'.next = sender.next /\ sender'.closed = sender.closed /\ sender'.retry = sender.retry
        /\ UNCHANGED <<config, sendIn, buffer, inflight, cancelled>>
    BY <1>2, SenderFields DEF Tick, Selecting, SenderRecord
  <2> QED BY <1>0, <2>1
<1>3. CASE Flush
  <2>1. /\ sender.pc = "flush"
        /\ sender'.pc = sender.next /\ sender'.next = sender.next /\ sender'.closed = sender.closed /\ sender'.retry = None
        /\ UNCHANGED <<config, sendIn, cancelled>>
    BY <1>3, SenderFields DEF Flush, SenderRecord
  <2>2. sender.next \in {"select", "wait"} /\ config.strategy \in {"batch", "stream"}
    BY SenderFields DEF SenderRecord
  <2>3. sender.next = "wait" => buffer' = <<>>
    BY <1>3, Constants_ DEF Flush
  <2>4. config.concurrent = 0 => inflight' = inflight \/ (inflight = {} /\ inflight' = {Payload(buffer)})
    BY <1>3 DEF Flush
  <2> QED BY <1>0, <2>1, <2>2, <2>3, <2>4
<1>4. CASE InputEnds
  <2>1. /\ config.strategy = "batch" /\ sender.pc = "select" /\ sender.closed /\ sendIn = <<>>
        /\ sender'.pc = "flush" /\ sender'.next = "wait" /\ sender'.closed = sender.closed /\ sender'.retry = sender.retry
        /\ UNCHANGED <<config, sendIn, buffer, inflight, cancelled>>
    BY <1>4, SenderFields DEF InputEnds, Selecting, SenderRecord
  <2> QED BY <1>0, <2>1
<1>5. CASE SenderEnds
  <2>1. /\ sender.pc = "wait" /\ inflight = {}
        /\ sender'.pc = "done" /\ sender'.next = sender.next /\ sender'.closed = sender.closed /\ sender'.retry = sender.retry
        /\ UNCHANGED <<config, sendIn, buffer, inflight, cancelled>>
    BY <1>5, SenderFields DEF SenderEnds, SenderRecord
  <2> QED BY <1>0, <2>1
<1>6. CASE StreamReceive
  <2>1. /\ config.strategy = "stream" /\ sender.pc = "select" /\ sendIn # <<>>
        /\ inflight' = {Payload(<<Head(sendIn)>>)}
        /\ UNCHANGED <<config, sender, buffer, cancelled>>
    BY <1>6 DEF StreamReceive, Streaming
  <2> QED BY <1>0, <2>1
<1>7. CASE StreamEnds
  <2>1. /\ config.strategy = "stream" /\ sender.pc = "select" /\ inflight = {} /\ sender.closed /\ sendIn = <<>>
        /\ sender'.pc = "done" /\ sender'.next = sender.next /\ sender'.closed = sender.closed /\ sender'.retry = sender.retry
        /\ UNCHANGED <<config, sendIn, buffer, inflight, cancelled>>
    BY <1>7, SenderFields DEF StreamEnds, Streaming, SenderRecord
  <2> QED BY <1>0, <2>1
<1> QED BY <1>1, <1>2, <1>3, <1>4, <1>5, <1>6, <1>7 DEF SenderLoop

\* A cancelled context finds no payload unless Stop was forced.
LEMMA CancelledWhenForced ==
  ASSUME PipelineInv, NEW p \in inflight, cancelled
  PROVE  main \notin {"off", "running", "stopping"}
BY DEF PipelineInv, ControlInv, StagesEnd, Unforced

\* The payloads.
LEMMA PostControl ==
  ASSUME PipelineInv, NEW p \in inflight, Post(p), UNCHANGED <<auditorVars, agentVars>>
  PROVE  ControlInv'
<1> USE DEF PipelineInv, ControlInv, NoSendOnClosed, StagesEnd, SenderStates, Unforced
<1>0. UNCHANGED <<auditIn, auditor, reader, procIn, proc, main, stopper>>
  BY DEF auditorVars, agentVars
<1>1. sender.pc \notin {"off", "done"}
  OBVIOUS
<1>2. CASE PostCancelled(p)
  <2>1. cancelled /\ inflight' = inflight \ {p} /\ UNCHANGED <<config, sendIn, buffer, cancelled>>
    BY <1>2 DEF PostCancelled
  <2>2. main \notin {"off", "running", "stopping"}
    BY <2>1, CancelledWhenForced
  <2>3. CASE config.strategy = "stream"
    <3>1. /\ sender'.pc = "done" /\ sender'.next = sender.next /\ sender'.retry = sender.retry
          /\ sender'.closed = sender.closed
      BY <1>2, <2>3, SenderFields DEF PostCancelled, SenderRecord
    <3>2. inflight' = {} /\ buffer = <<>> /\ sender.pc \notin {"flush", "wait"}
      BY <2>1, <2>3
    <3> QED BY <1>0, <1>1, <2>1, <2>2, <2>3, <3>1, <3>2
  <2>4. CASE config.strategy # "stream"
    <3>1. sender' = sender
      BY <1>2, <2>4 DEF PostCancelled
    <3> QED BY <1>0, <1>1, <2>1, <2>2, <2>4, <3>1
  <2> QED BY <2>3, <2>4
<1>3. CASE PostBegins(p) \/ PostSucceeds(p) \/ PostFails(p) \/ PostRejected(p)
  <2>1. PICK q : inflight' = (inflight \ {p}) \cup {q}
    BY <1>3 DEF PostBegins, PostSucceeds, PostFails, PostRejected, Moved
  <2>2. UNCHANGED <<config, sendIn, sender, buffer, cancelled>>
    BY <1>3 DEF PostBegins, PostSucceeds, PostFails, PostRejected
  <2> QED BY <1>0, <1>1, <2>1, <2>2
<1> QED BY <1>2, <1>3 DEF Post

\* Handing a message to the auditor moves no stage of the pipeline.
LEMMA ForwardControl ==
  ASSUME PipelineInv, NEW p \in inflight, Forward(p), UNCHANGED agentVars
  PROVE  ControlInv'
<1> USE DEF PipelineInv, ControlInv, NoSendOnClosed, StagesEnd, SenderStates, Unforced
<1>0. UNCHANGED <<auditor, reader, procIn, proc, main, stopper, config, sendIn, sender, buffer, cancelled>>
  BY DEF Forward, agentVars
<1>1. sender.pc \notin {"off", "done"}
  OBVIOUS
<1>2. PICK q : inflight' \subseteq (inflight \ {p}) \cup {q}
  BY DEF Forward
<1> QED BY <1>0, <1>1, <1>2

\* The auditor.
LEMMA AuditorControl ==
  ASSUME PipelineInv, AuditorRuns, UNCHANGED <<senderVars, agentVars>>
  PROVE  ControlInv'
<1> USE DEF PipelineInv, ControlInv, NoSendOnClosed, StagesEnd, SenderStates, Unforced
<1>0. UNCHANGED <<reader, procIn, proc, main, stopper, config, sendIn, sender, buffer, inflight, cancelled>>
  BY DEF senderVars, agentVars
<1>1. CASE AuditorUpdates \/ AuditorCleans
  BY <1>0, <1>1 DEF AuditorUpdates, AuditorCleans
<1>2. CASE AuditorFlushes \/ FlushEnds
  <2>1. auditor'.on = auditor.on /\ auditor'.closed = auditor.closed /\ auditIn' = auditIn
    BY <1>2, SenderFields DEF AuditorFlushes, FlushBegins, FlushEnds
  <2> QED BY <1>0, <2>1
<1>3. CASE AuditorEnds
  <2>1. auditor'.on = FALSE /\ auditor.closed /\ auditor'.closed = auditor.closed /\ auditIn = <<>> /\ auditIn' = auditIn
    BY <1>3, SenderFields DEF AuditorEnds
  <2> QED BY <1>0, <2>1
<1> QED BY <1>1, <1>2, <1>3 DEF AuditorRuns

\* Stop and its goroutine.
LEMMA StopControl ==
  ASSUME PipelineInv, Stopping
  PROVE  ControlInv'
<1> USE DEF PipelineInv, ControlInv, NoSendOnClosed, StagesEnd, SenderStates, Unforced
<1>1. CASE StopBegins
  <2>1. /\ main = "running" /\ main' = "stopping" /\ stopper' = "inputs"
        /\ UNCHANGED <<auditorVars, senderVars, reader, procIn, proc>>
    BY <1>1 DEF StopBegins
  <2> QED BY <2>1 DEF auditorVars, senderVars
<1>2. CASE StopInputs \/ SendPanics
  <2>1. /\ stopper' = stopper \/ (stopper = "inputs" /\ stopper' = "pipeline")
        /\ reader'.on => reader.on
        /\ UNCHANGED <<auditorVars, senderVars, procIn, proc, main>>
    BY <1>2, SenderFields DEF StopInputs, SendPanics, ReaderRecord
  <2> QED BY <2>1 DEF auditorVars, senderVars
<1>9. CASE ClosePipeline
  <2>1. /\ stopper = "pipeline" /\ stopper' = "processor"
        /\ proc'.closed = TRUE /\ proc'.on = proc.on
        /\ UNCHANGED <<auditorVars, senderVars, reader, procIn, main>>
    BY <1>9, SenderFields DEF ClosePipeline, ProcRecord
  <2> QED BY <2>1 DEF auditorVars, senderVars
<1>3. CASE StopProcessor
  <2>1. /\ stopper = "processor" /\ ~proc.on /\ stopper' = "sender"
        /\ sender'.closed = TRUE /\ sender'.pc = sender.pc /\ sender'.next = sender.next /\ sender'.retry = sender.retry
        /\ UNCHANGED <<auditorVars, config, sendIn, buffer, inflight, cancelled, reader, procIn, proc, main>>
    BY <1>3, SenderFields DEF StopProcessor, SenderRecord
  <2> QED BY <2>1 DEF auditorVars
<1>4. CASE StopSender
  <2>1. /\ stopper = "sender" /\ sender.pc = "done" /\ stopper' = "auditor"
        /\ auditor'.closed = TRUE /\ auditor'.on = auditor.on /\ auditIn' = auditIn
        /\ UNCHANGED <<senderVars, reader, procIn, proc, main>>
    BY <1>4, SenderFields DEF StopSender, AuditorClose
  <2> QED BY <2>1 DEF senderVars
<1>5. CASE StopAuditor
  <2>1. /\ stopper = "auditor" /\ stopper' = "flush" /\ ~auditor.on
        /\ auditor'.closed = auditor.closed /\ auditor'.on = auditor.on /\ auditIn' = auditIn
        /\ UNCHANGED <<senderVars, reader, procIn, proc, main>>
    BY <1>5, SenderFields DEF StopAuditor, AuditorStop, FlushBegins
  <2> QED BY <2>1 DEF senderVars
<1>6. CASE StopDestinations
  <2>1. /\ stopper = "flush" /\ stopper' = "done" /\ cancelled' = TRUE
        /\ UNCHANGED <<auditorVars, config, sendIn, sender, buffer, inflight, reader, procIn, proc, main>>
    BY <1>6 DEF StopDestinations
  <2> QED BY <2>1 DEF auditorVars
<1>7. CASE StopForces
  <2>1. /\ main' = "forced" /\ stopper' = stopper
        /\ UNCHANGED <<auditorVars, config, sendIn, sender, buffer, inflight, reader, procIn, proc>>
    BY <1>7 DEF StopForces
  <2> QED BY <2>1 DEF auditorVars
<1>8. CASE StopReturns \/ StopGivesUp
  <2>1. /\ main' = "stopped" /\ UNCHANGED <<auditorVars, senderVars, reader, procIn, proc, stopper>>
    BY <1>8 DEF StopReturns, StopGivesUp
  <2> QED BY <2>1 DEF auditorVars, senderVars
<1> QED BY <1>1, <1>2, <1>3, <1>4, <1>5, <1>6, <1>7, <1>8, <1>9 DEF Stopping, Stopper

----------------------------------------------------------------------------
(* The messages on their way *)

\* What is held between reader and auditor are messages of the file.
LEMMA UnderwayAreMessages ==
  ASSUME TypeOK
  PROVE  /\ Elems(procIn) \subseteq Messages /\ Elems(sendIn) \subseteq Messages /\ Held \subseteq Messages
         /\ Elems(buffer) \subseteq Messages /\ Posted \subseteq Messages
         /\ Underway \subseteq Messages /\ reader.pos \in Nat /\ reader.from \in Nat
<1>1. /\ procIn \in Seq(Messages) /\ sendIn \in Seq(Messages) /\ buffer \in Seq(Messages)
      /\ sender.retry \in Messages \cup {None} /\ \A p \in inflight : p.msgs \in Seq(Messages)
      /\ reader.pos \in 0..MaxMessages /\ reader.from \in 0..MaxMessages
  BY SenderFields DEF TypeOK, SenderTypeOK, SenderRecord, ReaderRecord, PayloadRecord
<1>2. /\ Elems(procIn) \subseteq Messages /\ Elems(sendIn) \subseteq Messages /\ Elems(buffer) \subseteq Messages
      /\ Held \subseteq Messages
  BY <1>1, ElemsAreMessages DEF Held
<1>3. Posted \subseteq Messages
  BY <1>1, ElemsAreMessages DEF Posted
<1>4. reader.pos \in Nat /\ reader.from \in Nat
  BY <1>1, Constants_, SMT
<1> QED BY <1>2, <1>3, <1>4 DEF Underway

\* A step that moves no message and settles none.
LEMMA NothingMoves ==
  ASSUME DataInv, UNCHANGED <<procIn, sendIn, buffer, inflight, delivered, rejected, dropped>>,
         sender'.retry = sender.retry, reader'.pos = reader.pos, reader'.from = reader.from,
         Lossless' => Lossless
  PROVE  DataInv'
<1>1. Held' = Held /\ Posted' = Posted /\ Settled' = Settled
  BY DEF Held, Posted, Settled
<1>2. /\ Elems(procIn') = Elems(procIn) /\ Elems(sendIn') = Elems(sendIn) /\ Elems(buffer') = Elems(buffer)
      /\ Underway' = Underway
  BY <1>1 DEF Underway
<1>3. InOrder'
  BY <1>1, <1>2 DEF DataInv, InOrder
<1>4. NoneIsLost'
  BY <1>1, <1>2 DEF DataInv, NoneIsLost
<1>5. ForwardedIsSettled'
  BY <1>1 DEF DataInv, ForwardedIsSettled
<1> QED BY <1>3, <1>4, <1>5 DEF DataInv

\* A new process, and one that has ended, has no message on its way.
LEMMA NothingUnderway ==
  ASSUME procIn' = <<>>, sendIn' = <<>>, buffer' = <<>>, inflight' = {}, sender'.retry = None,
         reader'.from \in Nat, reader'.pos = reader'.from
  PROVE  DataInv'
<1>1. /\ Elems(procIn') = {} /\ Elems(sendIn') = {} /\ Elems(buffer') = {} /\ Held' = {} /\ Posted' = {}
      /\ Increasing(procIn') /\ Increasing(sendIn')
  BY ElemsOfShort DEF Held, Posted
<1>2. Underway' = {}
  BY <1>1 DEF Underway
<1>3. InOrder'
  BY <1>1, <1>2 DEF InOrder, Before
<1>4. (reader'.from + 1)..reader'.pos = {}
  BY SMT
<1>5. NoneIsLost'
  BY <1>4 DEF NoneIsLost
<1> QED BY <1>3, <1>5 DEF DataInv, ForwardedIsSettled

\* The start and the end of the process leave nothing underway.
LEMMA StartData ==
  ASSUME PipelineInv, Start_ \/ Exit \/ Crash
  PROVE  DataInv'
<1>1. CASE Start_
  <2>1. /\ procIn' = <<>> /\ sendIn' = <<>> /\ buffer' = <<>> /\ inflight' = {} /\ sender'.retry = None
        /\ reader'.pos = reader'.from
    BY <1>1 DEF Start_, SenderStart, SenderOff
  <2>2. TypeOK'
    BY <1>1, StartTypes DEF PipelineInv
  <2>3. reader'.from \in 0..MaxMessages
    BY <2>2 DEF TypeOK
  <2>4. reader'.from \in Nat
    BY <2>3, Constants_, SMT
  <2> QED BY <2>1, <2>4, NothingUnderway
<1>2. CASE Exit \/ Crash
  <2>1. /\ procIn' = <<>> /\ sendIn' = <<>> /\ buffer' = <<>> /\ inflight' = {} /\ sender'.retry = None
        /\ reader'.pos = 0 /\ reader'.from = 0
    BY <1>2 DEF Exit, Crash, ProcessEnds, SenderCrash, SenderOff, ReaderOff
  <2> QED BY <2>1, NothingUnderway
<1> QED BY <1>1, <1>2

\* The reader adds the message after the last one that it read.
LEMMA ReadData ==
  ASSUME PipelineInv, Read
  PROVE  DataInv'
<1> DEFINE m == reader.pos + 1
<1>0. TypeOK /\ InOrder /\ NoneIsLost /\ ForwardedIsSettled
  BY DEF PipelineInv, DataInv
<1>1. /\ procIn' = Append(procIn, m) /\ reader'.pos = m /\ reader'.from = reader.from
      /\ UNCHANGED <<auditorVars, senderVars, main>>
  BY <1>0, SenderFields DEF Read, ReaderRecord
<1>2. /\ m \in Messages /\ reader.pos \in Nat /\ reader.from \in Nat /\ Underway \subseteq Messages
      /\ procIn \in Seq(Messages)
  <2>1. /\ reader.pos \in Nat /\ reader.from \in Nat /\ Underway \subseteq Messages
    BY <1>0, UnderwayAreMessages
  <2>2. reader.pos < written /\ written \in 0..MaxMessages /\ procIn \in Seq(Messages)
    BY <1>0 DEF Read, TypeOK
  <2>3. m \in Messages
    BY <2>1, <2>2, Constants_, SMT DEF Messages
  <2> QED BY <2>1, <2>2, <2>3
<1>3. \A x \in Underway : x < m /\ x <= m
  <2>1. \A x \in Underway : x \in Nat /\ x <= reader.pos
    BY <1>0, <1>2, Constants_ DEF InOrder
  <2> QED BY <1>2, <2>1, SMT
<1>4. m <= m
  BY <1>2, Constants_, SMT
<1>5. (reader.from + 1)..m \subseteq (reader.from + 1)..reader.pos \cup {m}
  BY <1>2, SMT
<1> HIDE DEF m
<1>6. /\ Elems(procIn') = Elems(procIn) \cup {m} /\ Elems(sendIn') = Elems(sendIn) /\ Elems(buffer') = Elems(buffer)
      /\ Held' = Held /\ Posted' = Posted /\ Settled' = Settled
  BY <1>1, <1>2, ElemsOfAppend DEF senderVars, Held, Posted, Settled
<1>7. Underway' = Underway \cup {m}
  BY <1>6 DEF Underway
<1>8. InOrder'
  <2>1. Increasing(procIn') /\ Increasing(sendIn')
    <3>1. Before(Elems(procIn), {m})
      BY <1>3 DEF Before, Underway
    <3> QED BY <1>0, <1>1, <1>2, <3>1, IncreasingAppend DEF InOrder, senderVars
  <2>2. \A x \in Underway' : x <= reader'.pos
    BY <1>1, <1>3, <1>4, <1>7
  <2>3. /\ Before(Elems(sendIn), {m}) /\ Before(Held, {m}) /\ Before(Elems(buffer), {m}) /\ Before(Posted, {m})
    BY <1>3 DEF Before, Underway
  <2> QED BY <1>0, <1>6, <2>1, <2>2, <2>3 DEF InOrder, Before
<1>9. NoneIsLost'
  BY <1>0, <1>1, <1>5, <1>6, <1>7 DEF NoneIsLost, Lossless, senderVars
<1>10. ForwardedIsSettled'
  BY <1>0, <1>1, <1>6 DEF ForwardedIsSettled, senderVars
<1> QED BY <1>8, <1>9, <1>10 DEF DataInv

\* The processor settles a message or passes it on.
LEMMA ProcessData ==
  ASSUME PipelineInv, Process
  PROVE  DataInv'
<1> DEFINE m == Head(procIn)
<1>0. TypeOK /\ InOrder /\ NoneIsLost /\ ForwardedIsSettled
  BY DEF PipelineInv, DataInv
<1>1. /\ procIn \in Seq(Messages) /\ procIn # <<>> /\ procIn' = Tail(procIn) /\ sendIn \in Seq(Messages)
      /\ UNCHANGED <<config, sender, buffer, inflight, cancelled, delivered, rejected, reader, main>>
  BY <1>0 DEF Process, TypeOK, SenderTypeOK
<1>2. \/ dropped' = dropped \cup {m} /\ sendIn' = sendIn
      \/ dropped' = dropped /\ sendIn' = Append(sendIn, m)
  BY DEF Process
<1>3. /\ m \in Messages /\ Elems(procIn) = {m} \cup Elems(procIn')
      /\ Increasing(procIn') /\ Before({m}, Elems(procIn'))
  BY <1>0, <1>1, ElemsOfTail, IncreasingTail DEF InOrder
<1> HIDE DEF m
<1>4. Elems(buffer') = Elems(buffer) /\ Held' = Held /\ Posted' = Posted
  BY <1>1 DEF Held, Posted
<1>5. CASE dropped' = dropped \cup {m} /\ sendIn' = sendIn
  <2>1. Elems(sendIn') = Elems(sendIn) /\ Settled' = Settled \cup {m} /\ Underway \subseteq Underway' \cup {m}
        /\ Underway' \subseteq Underway
    BY <1>1, <1>3, <1>4, <1>5 DEF Settled, Underway
  <2>2. InOrder'
    BY <1>0, <1>1, <1>3, <1>4, <1>5, <2>1 DEF InOrder, Before
  <2>3. NoneIsLost'
    BY <1>0, <1>1, <2>1 DEF NoneIsLost, Lossless
  <2>4. ForwardedIsSettled'
    BY <1>0, <1>1, <2>1 DEF ForwardedIsSettled
  <2> QED BY <2>2, <2>3, <2>4 DEF DataInv
<1>6. CASE dropped' = dropped /\ sendIn' = Append(sendIn, m)
  <2>1. Elems(sendIn') = Elems(sendIn) \cup {m} /\ Settled' = Settled
    BY <1>1, <1>3, <1>6, ElemsOfAppend DEF Settled
  <2>2. Underway' = Underway
    BY <1>3, <1>4, <2>1 DEF Underway
  <2>3. InOrder'
    <3>1. Increasing(sendIn')
      <4>1. Before(Elems(sendIn), {m})
        BY <1>0, <1>3 DEF InOrder, Before
      <4> QED BY <1>0, <1>1, <1>3, <1>6, <4>1, IncreasingAppend DEF InOrder
    <3>2. /\ Before(Elems(sendIn'), Elems(procIn'))
          /\ Elems(sendIn') \cup Elems(procIn') = Elems(sendIn) \cup Elems(procIn)
      BY <1>0, <1>3, <2>1 DEF InOrder, Before
    <3>3. /\ Before(Held, Elems(sendIn') \cup Elems(procIn'))
          /\ Before(Elems(buffer), Held \cup Elems(sendIn') \cup Elems(procIn'))
          /\ Before(Posted, Elems(buffer) \cup Held \cup Elems(sendIn') \cup Elems(procIn'))
      BY <1>0, <3>2 DEF InOrder, Before
    <3> QED BY <1>0, <1>1, <1>3, <1>4, <2>2, <3>1, <3>2, <3>3 DEF InOrder
  <2>4. NoneIsLost'
    BY <1>0, <1>1, <2>1, <2>2 DEF NoneIsLost, Lossless
  <2>5. ForwardedIsSettled'
    BY <1>0, <1>1, <2>1 DEF ForwardedIsSettled
  <2> QED BY <2>3, <2>4, <2>5 DEF DataInv
<1> QED BY <1>2, <1>5, <1>6

\* The sender takes a message into its buffer, or holds it until the buffer is
\* flushed.
LEMMA ReceiveData ==
  ASSUME PipelineInv, Receive, UNCHANGED <<auditorVars, agentVars>>
  PROVE  DataInv'
<1> DEFINE m == Head(sendIn)
<1>0. TypeOK /\ InOrder /\ NoneIsLost /\ ForwardedIsSettled
  BY DEF PipelineInv, DataInv
<1>1. /\ sendIn \in Seq(Messages) /\ sendIn # <<>> /\ sendIn' = Tail(sendIn) /\ buffer \in Seq(Messages)
      /\ sender.pc = "select"
      /\ UNCHANGED <<config, inflight, cancelled, delivered, rejected, dropped, reader, procIn, main>>
  BY <1>0 DEF Receive, Selecting, TypeOK, SenderTypeOK, agentVars
<1>2. /\ m \in Messages /\ Elems(sendIn) = {m} \cup Elems(sendIn')
      /\ Increasing(sendIn') /\ Before({m}, Elems(sendIn'))
  BY <1>0, <1>1, ElemsOfTail, IncreasingTail DEF InOrder
<1>3. \/ /\ buffer' = Append(buffer, m)
         /\ sender' = sender \/ sender' = [sender EXCEPT !.pc = "flush"]
      \/ buffer' = buffer /\ sender' = [sender EXCEPT !.pc = "flush", !.retry = m]
  BY DEF Receive
<1>4. sender \in SenderRecord /\ sender.retry = None
  BY <1>0, <1>1, SenderFields DEF PipelineInv, ControlInv, SenderStates
<1> HIDE DEF m
<1>5. Held = {} /\ Posted' = Posted /\ Settled' = Settled /\ Elems(procIn') = Elems(procIn)
  BY <1>1, <1>4 DEF Held, Posted, Settled
<1>6. /\ sender'.pc # "done"
      /\ \/ Held' = {} /\ Elems(buffer') = Elems(buffer) \cup {m}
         \/ Held' = {m} /\ Elems(buffer') = Elems(buffer)
  <2>1. CASE buffer' = Append(buffer, m) /\ (sender' = sender \/ sender' = [sender EXCEPT !.pc = "flush"])
    <3>1. sender'.retry = None /\ sender'.pc # "done"
      BY <1>1, <1>4, <2>1 DEF SenderRecord
    <3> QED BY <1>1, <1>2, <2>1, <3>1, ElemsOfAppend DEF Held
  <2>2. CASE buffer' = buffer /\ sender' = [sender EXCEPT !.pc = "flush", !.retry = m]
    <3>1. sender'.retry = m /\ sender'.pc # "done" /\ m # None
      BY <1>2, <1>4, <2>2, Constants_ DEF SenderRecord
    <3> QED BY <2>2, <3>1 DEF Held
  <2> QED BY <1>3, <2>1, <2>2
<1>7. Underway' = Underway
  BY <1>2, <1>5, <1>6 DEF Underway
<1>8. Held' \cup Elems(buffer') = Elems(buffer) \cup {m} /\ Before(Elems(buffer'), Held')
  BY <1>0, <1>2, <1>6 DEF InOrder, Before
<1>9. InOrder'
  <2>1. Elems(buffer') \cup Held' \cup Elems(sendIn') \cup Elems(procIn') = Elems(buffer) \cup Held \cup Elems(sendIn) \cup Elems(procIn)
    BY <1>2, <1>5, <1>8
  <2>2. /\ Before(Elems(buffer) \cup {m}, Elems(sendIn') \cup Elems(procIn))
        /\ Before(Elems(sendIn'), Elems(procIn))
    BY <1>0, <1>2 DEF InOrder, Before
  <2>3. /\ Before(Held', Elems(sendIn') \cup Elems(procIn'))
        /\ Before(Elems(buffer'), Held' \cup Elems(sendIn') \cup Elems(procIn'))
    BY <1>5, <1>8, <2>2 DEF Before
  <2> QED BY <1>0, <1>1, <1>2, <1>5, <1>7, <2>1, <2>2, <2>3 DEF InOrder
<1>10. NoneIsLost'
  BY <1>0, <1>1, <1>5, <1>7 DEF NoneIsLost, Lossless
<1>11. ForwardedIsSettled'
  BY <1>0, <1>1, <1>5 DEF ForwardedIsSettled
<1> QED BY <1>9, <1>10, <1>11 DEF DataInv

\* A flush makes a payload of the buffer, and takes up the message that was held
\* or drops it for its size.
LEMMA FlushData ==
  ASSUME PipelineInv, Flush, UNCHANGED <<auditorVars, agentVars>>
  PROVE  DataInv'
<1>0. TypeOK /\ InOrder /\ NoneIsLost /\ ForwardedIsSettled
  BY DEF PipelineInv, DataInv
<1>1. /\ sender.pc = "flush"
      /\ UNCHANGED <<config, sendIn, cancelled, delivered, rejected, reader, procIn, main>>
      /\ buffer' = IF sender.retry \in Messages \ TooLarge THEN <<sender.retry>> ELSE <<>>
      /\ dropped' = dropped \cup ({sender.retry} \cap TooLarge)
  BY DEF Flush, agentVars
<1>2. sender'.retry = None /\ sender.retry \in Messages \cup {None}
  BY <1>0, SenderFields DEF Flush, SenderRecord
<1>3. /\ Held' = {} /\ Elems(buffer') = Held \ TooLarge /\ Settled' = Settled \cup (Held \cap TooLarge)
  <2>1. Held' = {} /\ Held \cap TooLarge = {sender.retry} \cap TooLarge
    BY <1>2, Constants_ DEF Held
  <2>2. Elems(buffer') = Held \ TooLarge
    <3>1. CASE sender.retry \in Messages \ TooLarge
      <4>1. buffer' = <<sender.retry>> /\ Held = {sender.retry}
        BY <1>1, <3>1, Constants_ DEF Held
      <4> QED BY <3>1, <4>1, ElemsOfShort
    <3>2. CASE sender.retry \notin Messages \ TooLarge
      <4>1. buffer' = <<>> /\ Held \subseteq TooLarge
        BY <1>1, <1>2, <3>2 DEF Held
      <4> QED BY <4>1, ElemsOfShort
    <3> QED BY <3>1, <3>2
  <2> QED BY <1>1, <2>1, <2>2 DEF Settled
<1>4. /\ Posted' = Posted \cup Elems(buffer)
      /\ \A p \in inflight' : p.pc = "ack" => p \in inflight
  <2>1. CASE buffer = <<>> /\ inflight' = inflight
    <3>1. Elems(buffer) = {}
      BY <2>1, ElemsOfShort
    <3> QED BY <2>1, <3>1 DEF Posted
  <2>2. CASE inflight' = inflight \cup {Payload(buffer)}
    <3>1. Payload(buffer).msgs = buffer /\ Payload(buffer).pc = "begin"
      BY DEF Payload
    <3> QED BY <2>2, <3>1 DEF Posted
  <2> QED BY <2>1, <2>2 DEF Flush
<1>5. Elems(sendIn') = Elems(sendIn) /\ Elems(procIn') = Elems(procIn)
  BY <1>1
<1>6. Underway' \subseteq Underway /\ Underway \subseteq Underway' \cup Settled'
  BY <1>3, <1>4, <1>5 DEF Underway
<1>7. InOrder'
  <2>1. /\ Before(Held', Elems(sendIn) \cup Elems(procIn))
        /\ Before(Elems(buffer'), Held' \cup Elems(sendIn) \cup Elems(procIn))
    BY <1>0, <1>3 DEF InOrder, Before
  <2>2. Before(Posted', Elems(buffer') \cup Held' \cup Elems(sendIn) \cup Elems(procIn))
    BY <1>0, <1>3, <1>4 DEF InOrder, Before
  <2> QED BY <1>0, <1>1, <1>5, <1>6, <2>1, <2>2 DEF InOrder
<1>8. NoneIsLost'
  BY <1>0, <1>1, <1>3, <1>6 DEF NoneIsLost, Lossless
<1>9. ForwardedIsSettled'
  BY <1>0, <1>3, <1>4 DEF ForwardedIsSettled
<1> QED BY <1>7, <1>8, <1>9 DEF DataInv

\* The stream strategy makes a payload of one message.
LEMMA StreamReceiveData ==
  ASSUME PipelineInv, StreamReceive, UNCHANGED <<auditorVars, agentVars>>
  PROVE  DataInv'
<1> DEFINE m == Head(sendIn)
<1>0. TypeOK /\ InOrder /\ NoneIsLost /\ ForwardedIsSettled
  BY DEF PipelineInv, DataInv
<1>1. /\ sendIn \in Seq(Messages) /\ sendIn # <<>> /\ sendIn' = Tail(sendIn)
      /\ config.strategy = "stream" /\ sender.pc = "select" /\ inflight = {} /\ inflight' = {Payload(<<m>>)}
      /\ UNCHANGED <<config, sender, buffer, cancelled, delivered, rejected, dropped, reader, procIn, main>>
  BY <1>0 DEF StreamReceive, Streaming, TypeOK, SenderTypeOK, agentVars
<1>2. /\ m \in Messages /\ Elems(sendIn) = {m} \cup Elems(sendIn')
      /\ Increasing(sendIn') /\ Before({m}, Elems(sendIn'))
  BY <1>0, <1>1, ElemsOfTail, IncreasingTail DEF InOrder
<1> HIDE DEF m
<1>3. buffer = <<>> /\ sender.retry = None
  BY <1>1 DEF PipelineInv, ControlInv, SenderStates
<1>4. /\ Held = {} /\ Held' = {} /\ Elems(buffer) = {} /\ Elems(buffer') = {}
      /\ Settled' = Settled /\ Elems(procIn') = Elems(procIn) /\ Posted = {}
  BY <1>1, <1>3, ElemsOfShort DEF Held, Settled, Posted
<1>5. Payload(<<m>>).msgs = <<m>> /\ Payload(<<m>>).pc = "begin"
  BY DEF Payload
<1>6. Posted' = {m}
  BY <1>1, <1>2, <1>5, ElemsOfShort DEF Posted
<1>7. Underway' = Underway
  BY <1>2, <1>4, <1>6 DEF Underway
<1>8. InOrder'
  <2>1. Before({m}, Elems(sendIn') \cup Elems(procIn)) /\ Before(Elems(sendIn'), Elems(procIn))
    BY <1>0, <1>2 DEF InOrder, Before
  <2>2. \A x : Before({}, x)
    BY DEF Before
  <2>3. {} \cup {} \cup Elems(sendIn') \cup Elems(procIn) = Elems(sendIn') \cup Elems(procIn)
    OBVIOUS
  <2> QED BY <1>0, <1>1, <1>2, <1>4, <1>6, <1>7, <2>1, <2>2, <2>3 DEF InOrder
<1>9. NoneIsLost'
  BY <1>0, <1>1, <1>4, <1>7 DEF NoneIsLost, Lossless
<1>10. ForwardedIsSettled'
  BY <1>1, <1>5 DEF ForwardedIsSettled
<1> QED BY <1>8, <1>9, <1>10 DEF DataInv

\* A payload moves on: what it holds stays on its way.
LEMMA PostData ==
  ASSUME PipelineInv, NEW p \in inflight, Post(p), UNCHANGED <<auditorVars, agentVars>>
  PROVE  DataInv'
<1>0. /\ TypeOK /\ InOrder /\ NoneIsLost /\ ForwardedIsSettled
      /\ inflight \subseteq PayloadRecord /\ sender \in SenderRecord
  BY SenderFields DEF PipelineInv, DataInv
<1>1. UNCHANGED <<reader, procIn, main>>
  BY DEF agentVars
<1>2. CASE PostCancelled(p)
  <2>1. /\ cancelled /\ inflight' = inflight \ {p} /\ UNCHANGED <<config, sendIn, buffer, cancelled, rejected, dropped>>
        /\ sender' = (IF config.strategy = "stream" THEN [sender EXCEPT !.pc = "done"] ELSE sender)
        /\ delivered \subseteq delivered'
    BY <1>2 DEF PostCancelled
  <2>2. sender'.retry = sender.retry /\ (config.strategy = "stream" => sender'.pc = "done")
    BY <1>0, <2>1 DEF SenderRecord
  <2>3. /\ Held' = Held /\ Posted' \subseteq Posted /\ Settled \subseteq Settled'
        /\ Elems(procIn') = Elems(procIn) /\ Elems(sendIn') = Elems(sendIn) /\ Elems(buffer') = Elems(buffer)
    BY <1>1, <2>1, <2>2 DEF Held, Posted, Settled
  <2>4. Underway' \subseteq Underway
    BY <2>3 DEF Underway
  <2>5. InOrder'
    BY <1>0, <1>1, <2>1, <2>3, <2>4 DEF InOrder, Before
  <2>6. NoneIsLost'
    BY <1>1, <2>1, <2>2, CancelledWhenForced DEF NoneIsLost, Lossless
  <2>7. ForwardedIsSettled'
    BY <1>0, <2>1, <2>3 DEF ForwardedIsSettled
  <2> QED BY <2>5, <2>6, <2>7 DEF DataInv
<1>3. CASE PostBegins(p) \/ PostSucceeds(p) \/ PostFails(p) \/ PostRejected(p)
  <2>1. PICK c \in {"begin", "post", "ack"} :
            /\ inflight' = (inflight \ {p}) \cup {[p EXCEPT !.pc = c]}
            /\ c = "ack" => PostSucceeds(p) \/ PostRejected(p)
    BY <1>3 DEF PostBegins, PostSucceeds, PostFails, PostRejected, Moved
  <2> DEFINE q == [p EXCEPT !.pc = c]
  <2>2. q.msgs = p.msgs /\ q.pc = c /\ inflight' = (inflight \ {p}) \cup {q}
    BY <1>0, <2>1, PayloadWithPc
  <2> HIDE DEF q
  <2>3. UNCHANGED <<config, sendIn, sender, buffer, cancelled, dropped>>
    BY <1>3 DEF PostBegins, PostSucceeds, PostFails, PostRejected
  <2>4. Settled \subseteq Settled' /\ (c = "ack" => Elems(p.msgs) \subseteq Settled')
    <3>1. delivered \subseteq delivered' /\ rejected \subseteq rejected' /\ dropped' = dropped
      BY <1>3 DEF PostBegins, PostSucceeds, PostFails, PostRejected
    <3>2. c = "ack" => Elems(p.msgs) \subseteq delivered' \cup rejected'
      BY <2>1 DEF PostSucceeds, PostRejected
    <3> QED BY <3>1, <3>2 DEF Settled
  <2>5. /\ Held' = Held /\ Posted' = Posted
        /\ Elems(procIn') = Elems(procIn) /\ Elems(sendIn') = Elems(sendIn) /\ Elems(buffer') = Elems(buffer)
    <3>1. Posted' \subseteq Posted
      BY <2>2 DEF Posted
    <3>2. Posted \subseteq Posted'
      BY <2>2 DEF Posted
    <3> QED BY <1>1, <2>3, <3>1, <3>2 DEF Held
  <2>6. Underway' = Underway
    BY <2>5 DEF Underway
  <2>7. InOrder'
    BY <1>0, <1>1, <2>3, <2>5, <2>6 DEF InOrder
  <2>8. NoneIsLost'
    BY <1>0, <1>1, <2>3, <2>4, <2>6 DEF NoneIsLost, Lossless
  <2>9. ForwardedIsSettled'
    BY <1>0, <2>2, <2>4 DEF ForwardedIsSettled
  <2> QED BY <2>7, <2>8, <2>9 DEF DataInv
<1> QED BY <1>2, <1>3 DEF Post

\* A payload that is forwarded to its end is settled.
LEMMA ForwardData ==
  ASSUME PipelineInv, NEW p \in inflight, Forward(p), UNCHANGED agentVars
  PROVE  DataInv'
<1>0. /\ TypeOK /\ InOrder /\ NoneIsLost /\ ForwardedIsSettled
      /\ inflight \subseteq PayloadRecord /\ p \in PayloadRecord
  BY SenderFields DEF PipelineInv, DataInv
<1>1. UNCHANGED <<config, sender, sendIn, buffer, cancelled, delivered, rejected, dropped, reader, procIn, main>>
  BY DEF Forward, agentVars
<1>2. p.pc = "ack" /\ Elems(p.msgs) \subseteq Settled
  BY <1>0 DEF Forward, ForwardedIsSettled
<1> DEFINE q == [p EXCEPT !.acked = p.acked + 1]
<1>3. /\ q.msgs = p.msgs /\ q.pc = "ack"
      /\ inflight' = inflight \ {p} \/ inflight' = (inflight \ {p}) \cup {q}
  <2>1. p.acked + 1 \in Nat
    BY <1>0, SMT DEF PayloadRecord
  <2> QED BY <1>0, <1>2, <2>1, PayloadWithAcked DEF Forward
<1> HIDE DEF q
<1>4. /\ Held' = Held /\ Settled' = Settled /\ Posted' \subseteq Posted /\ Posted \subseteq Posted' \cup Settled
      /\ Elems(procIn') = Elems(procIn) /\ Elems(sendIn') = Elems(sendIn) /\ Elems(buffer') = Elems(buffer)
  <2>1. Posted' \subseteq Posted
    BY <1>3 DEF Posted
  <2>2. Posted \subseteq Posted' \cup Settled
    BY <1>2, <1>3 DEF Posted
  <2> QED BY <1>1, <2>1, <2>2 DEF Held, Settled
<1>5. Underway' \subseteq Underway /\ Underway \subseteq Underway' \cup Settled
  BY <1>4 DEF Underway
<1>6. InOrder'
  BY <1>0, <1>1, <1>4, <1>5 DEF InOrder, Before
<1>7. NoneIsLost'
  BY <1>0, <1>1, <1>4, <1>5 DEF NoneIsLost, Lossless
<1>8. ForwardedIsSettled'
  BY <1>0, <1>2, <1>3, <1>4 DEF ForwardedIsSettled
<1> QED BY <1>6, <1>7, <1>8 DEF DataInv

\* The steps that move no message.
Quiet ==
  \/ Log \/ ProcessorEnds \/ Stopping
  \/ (Tick \/ InputEnds \/ SenderEnds \/ StreamEnds) /\ UNCHANGED <<auditorVars, agentVars>>
  \/ AuditorRuns /\ UNCHANGED <<senderVars, agentVars>>

\* The steps that only move the control of a stage keep the order of what is underway.
LEMMA QuietData ==
  ASSUME PipelineInv, Quiet
  PROVE  DataInv'
<1>0. TypeOK /\ DataInv /\ sender \in SenderRecord /\ reader \in ReaderRecord
  BY SenderFields DEF PipelineInv
<1>1. CASE Log \/ ProcessorEnds \/ (AuditorRuns /\ UNCHANGED <<senderVars, agentVars>>)
  <2>1. UNCHANGED <<senderVars, procIn, reader, main>>
    BY <1>1 DEF Log, ProcessorEnds, agentVars
  <2> QED BY <1>0, <2>1, NothingMoves DEF Lossless, senderVars
<1>2. CASE (Tick \/ InputEnds \/ SenderEnds \/ StreamEnds) /\ UNCHANGED <<auditorVars, agentVars>>
  <2>1. /\ UNCHANGED <<config, sendIn, buffer, inflight, cancelled, delivered, rejected, dropped, procIn, reader, main>>
        /\ sender.pc # "done"
    BY <1>2 DEF Tick, InputEnds, SenderEnds, StreamEnds, Selecting, Streaming, agentVars
  <2>2. sender'.retry = sender.retry
    BY <1>0, <1>2 DEF Tick, InputEnds, SenderEnds, StreamEnds, SenderRecord
  <2> QED BY <1>0, <2>1, <2>2, NothingMoves DEF Lossless
<1>3. CASE Stopping
  <2>1. UNCHANGED <<config, procIn, sendIn, buffer, inflight, delivered, rejected, dropped>>
    BY <1>3 DEF Stopping, Stopper, StopBegins, StopInputs, ClosePipeline, SendPanics, StopProcessor, StopSender, StopAuditor, StopDestinations,
                StopForces, StopReturns, StopGivesUp, senderVars
  <2>2. sender' = sender \/ sender' = [sender EXCEPT !.closed = TRUE]
    BY <1>3 DEF Stopping, Stopper, StopBegins, StopInputs, ClosePipeline, SendPanics, StopProcessor, StopSender, StopAuditor, StopDestinations,
                StopForces, StopReturns, StopGivesUp, senderVars
  <2>3. sender'.retry = sender.retry /\ sender'.pc = sender.pc
    BY <1>0, <2>2 DEF SenderRecord
  <2>4. reader' = reader \/ reader' = [reader EXCEPT !.on = FALSE]
    BY <1>3 DEF Stopping, Stopper, StopBegins, StopInputs, ClosePipeline, SendPanics, StopProcessor, StopSender, StopAuditor, StopDestinations,
                StopForces, StopReturns, StopGivesUp
  <2>5. reader'.from = reader.from /\ reader'.pos = reader.pos
    BY <1>0, <2>4 DEF ReaderRecord
  <2>6. main' \in {"off", "running", "stopping"} => main \in {"off", "running", "stopping"}
    BY <1>3 DEF Stopping, Stopper, StopBegins, StopInputs, ClosePipeline, SendPanics, StopProcessor, StopSender, StopAuditor, StopDestinations,
                StopForces, StopReturns, StopGivesUp
  <2>7. cancelled' = cancelled \/ cancelled' = TRUE
    BY <1>3 DEF Stopping, Stopper, StopBegins, StopInputs, ClosePipeline, SendPanics, StopProcessor, StopSender, StopAuditor, StopDestinations,
                StopForces, StopReturns, StopGivesUp, senderVars
  <2> QED BY <1>0, <2>1, <2>3, <2>5, <2>6, <2>7, NothingMoves DEF Lossless
<1> QED BY <1>1, <1>2, <1>3 DEF Quiet

----------------------------------------------------------------------------
(* The inductive invariant *)

\* The cases of Next, as the lemmas divide them.
LEMMA NextCases ==
  ASSUME Next
  PROVE  \/ Start_ \/ Exit \/ Crash \/ Read \/ Process \/ Quiet
         \/ (Receive \/ Flush \/ StreamReceive) /\ UNCHANGED <<auditorVars, agentVars>>
         \/ \E p \in inflight : Post(p) /\ UNCHANGED <<auditorVars, agentVars>>
         \/ \E p \in inflight : Forward(p) /\ UNCHANGED agentVars
BY DEF Next, Quiet, Stopping, SenderLoop

\* Every step keeps the invariant on the stages.
LEMMA NextControl ==
  ASSUME PipelineInv, Next
  PROVE  ControlInv'
<1>1. CASE Log \/ Read \/ Process \/ ProcessorEnds
  BY <1>1, InputControl
<1>2. CASE SenderLoop /\ UNCHANGED <<auditorVars, agentVars>>
  BY <1>2, SenderLoopControl
<1>3. CASE \E p \in inflight : Post(p) /\ UNCHANGED <<auditorVars, agentVars>>
  BY <1>3, PostControl
<1>4. CASE \E p \in inflight : Forward(p) /\ UNCHANGED agentVars
  BY <1>4, ForwardControl
<1>5. CASE AuditorRuns /\ UNCHANGED <<senderVars, agentVars>>
  BY <1>5, AuditorControl
<1>6. CASE Stopping
  BY <1>6, StopControl
<1> QED BY <1>1, <1>2, <1>3, <1>4, <1>5, <1>6, StartControl, ProcessEndsControl DEF Next, Stopping

\* Every step keeps the invariant on the order of the messages.
LEMMA NextData ==
  ASSUME PipelineInv, Next
  PROVE  DataInv'
BY NextCases, StartData, ReadData, ProcessData, QuietData, ReceiveData, FlushData, StreamReceiveData, PostData, ForwardData

\* A stuttering step keeps the invariant.
LEMMA StutterPipeline ==
  ASSUME PipelineInv, UNCHANGED vars
  PROVE  PipelineInv'
<1>0. UNCHANGED <<auditorVars, senderVars, agentVars>>
  BY DEF vars
<1>1. AuditorTypeOK' /\ SenderTypeOK' /\ AgentTypeOK'
  BY <1>0, AuditorUnchanged, SenderUnchanged, AgentUnchanged, TypesAre DEF PipelineInv
<1>2. TypeOK'
  BY <1>1, TypesAre, PTL
<1>3. UNCHANGED <<auditIn, auditor, config, sendIn, sender, buffer, inflight, cancelled, delivered, rejected, dropped,
                  reader, procIn, proc, main, stopper>>
  BY <1>0 DEF auditorVars, senderVars, agentVars
<1>4. ControlInv'
  BY <1>3 DEF PipelineInv, ControlInv, NoSendOnClosed, StagesEnd, SenderStates, Unforced
<1>5. DataInv'
  BY <1>3, NothingMoves DEF PipelineInv, Lossless
<1> QED BY <1>2, <1>4, <1>5 DEF PipelineInv

\* The invariant holds before the agent is started.
LEMMA InitPipeline == Init => PipelineInv
<1> SUFFICES ASSUME Init PROVE PipelineInv
  OBVIOUS
<1>1. /\ <<>> \in Seq(Messages) /\ Len(<<>>) <= ChanSize /\ Len(<<>>) <= BatchMax
      /\ 0 \in 0..MaxMessages /\ 0 \in 0..MaxStops /\ 0 \in 0..MaxCrashes
  BY Constants_, PipelineAssumption, SMT
<1>2. AuditorOff \in [on : BOOLEAN, closed : BOOLEAN, writing : BOOLEAN, copy : Offsets]
  BY Constants_ DEF AuditorOff
<1>3. AuditorTypeOK
  BY <1>1, <1>2, Constants_ DEF Init, AuditorInit, AuditorTypeOK
<1>4. SenderOff \in SenderRecord
  BY DEF SenderOff, SenderRecord
<1>5. SenderTypeOK
  BY <1>1, <1>4 DEF Init, SenderInit, SenderTypeOK, SenderRecord
<1>6. ReaderOff \in ReaderRecord /\ ProcOff \in ProcRecord
  BY <1>1 DEF ReaderOff, ReaderRecord, ProcOff, ProcRecord
<1>7. TypeOK
  BY <1>1, <1>3, <1>5, <1>6, TypesAre DEF Init, AgentTypeOK
<1>8. /\ sender.pc = "off" /\ sender.next = "select" /\ sender.retry = None /\ sender.closed = FALSE
      /\ sendIn = <<>> /\ buffer = <<>> /\ inflight = {} /\ cancelled = FALSE
      /\ auditor.on = FALSE /\ auditor.closed = FALSE /\ auditIn = <<>>
      /\ proc.on = FALSE /\ proc.closed = FALSE /\ procIn = <<>> /\ reader.on = FALSE
      /\ reader.from = 0 /\ reader.pos = 0 /\ stopper = "off" /\ main = "off"
  BY DEF Init, SenderInit, SenderOff, AuditorInit, AuditorOff, ProcOff, ReaderOff
<1>9. ControlInv
  BY <1>8 DEF ControlInv, NoSendOnClosed, StagesEnd, SenderStates, Unforced
<1>10. /\ Elems(procIn) = {} /\ Elems(sendIn) = {} /\ Elems(buffer) = {} /\ Held = {} /\ Posted = {}
       /\ Increasing(procIn) /\ Increasing(sendIn) /\ (reader.from + 1)..reader.pos = {}
  <2>1. (0 + 1)..0 = {}
    BY SMT
  <2> QED BY <1>8, <2>1, ElemsOfShort DEF Held, Posted
<1>11. Underway = {}
  BY <1>10 DEF Underway
<1>12. DataInv
  BY <1>8, <1>10, <1>11 DEF DataInv, InOrder, Before, NoneIsLost, ForwardedIsSettled
<1> QED BY <1>7, <1>9, <1>12 DEF PipelineInv

\* The inductive invariant of the pipeline holds for any number of messages,
\* any sizes of channels and payloads, every configuration of the sender and
\* every mode of tailing, through any number of stops and crashes.
THEOREM PipelineInvariant == Spec => []PipelineInv
<1>1. PipelineInv /\ [Next]_vars => PipelineInv'
  BY NextTypes, NextControl, NextData, StutterPipeline DEF PipelineInv
<1> QED BY <1>1, InitPipeline, PTL DEF Spec

\* Every variable keeps its type and no channel holds more than its capacity,
\* in every instance.
THEOREM PipelineTypes == Spec => []TypeOK
<1>1. PipelineInv => TypeOK
  BY DEF PipelineInv
<1> QED BY <1>1, PipelineInvariant, PTL

\* Sender.Stop and RegistryAuditor.Stop close their channels only when nothing
\* is left that would be sent on them, forced or not, even if a tailer outlives
\* Scanner.Stop and sends until Processor.Stop closes the first channel.
THEOREM NoSendOnClosedAlways == Spec => []NoSendOnClosed
<1>1. PipelineInv => NoSendOnClosed
  BY DEF PipelineInv, ControlInv
<1> QED BY <1>1, PipelineInvariant, PTL

\* A Stop that ends within its time limit has settled every message that was
\* read and left no channel, buffer or payload with one, whatever the number
\* of concurrent sends (LogsAgent.Stop).
THEOREM StopFlushesAlways == Spec => []StopFlushes
<1>1. PipelineInv => StopFlushes
  <2> SUFFICES ASSUME PipelineInv, stopper = "done", main = "stopping"
               PROVE  /\ (reader.from + 1)..reader.pos \subseteq Settled
                      /\ procIn = <<>> /\ sendIn = <<>> /\ buffer = <<>> /\ inflight = {} /\ auditIn = <<>>
    BY DEF StopFlushes
  <2>1. sender.pc = "done" /\ inflight = {} /\ buffer = <<>> /\ auditIn = <<>>
    BY DEF PipelineInv, ControlInv, StagesEnd
  <2>2. sendIn = <<>> /\ procIn = <<>> /\ sender.retry = None
    BY <2>1 DEF PipelineInv, ControlInv, NoSendOnClosed, StagesEnd, SenderStates, Unforced
  <2>3. Underway = {}
    BY <2>1, <2>2, ElemsOfShort DEF Underway, Held, Posted
  <2>4. (reader.from + 1)..reader.pos \subseteq Settled
    BY <2>3 DEF PipelineInv, DataInv, NoneIsLost, Lossless
  <2> QED BY <2>1, <2>2, <2>4
<1> QED BY <1>1, PipelineInvariant, PTL

----------------------------------------------------------------------------
(* The offsets *)

\* What is settled stays so.
LEMMA SettledGrows ==
  ASSUME PipelineInv, Next
  PROVE  Settled \subseteq Settled'
<1>1. CASE Start_ \/ Exit \/ Crash
  BY <1>1 DEF Start_, SenderStart, Exit, Crash, ProcessEnds, SenderCrash, Settled
<1>2. CASE Read \/ Process
  BY <1>2 DEF Read, Process, senderVars, Settled
<1>3. CASE Log \/ ProcessorEnds \/ (AuditorRuns /\ UNCHANGED <<senderVars, agentVars>>)
  BY <1>3 DEF Log, ProcessorEnds, senderVars, Settled
<1>4. CASE Stopping
  BY <1>4 DEF Stopping, Stopper, StopBegins, StopInputs, ClosePipeline, SendPanics, StopProcessor, StopSender, StopAuditor, StopDestinations,
              StopForces, StopReturns, StopGivesUp, senderVars, Settled
<1>5. CASE SenderLoop
  BY <1>5 DEF SenderLoop, Receive, Tick, Flush, InputEnds, SenderEnds, StreamReceive, StreamEnds, Settled
<1>6. ASSUME NEW p \in inflight, Post(p) PROVE Settled \subseteq Settled'
  BY <1>6 DEF Post, PostBegins, PostSucceeds, PostFails, PostRejected, PostCancelled, Settled
<1>7. ASSUME NEW p \in inflight, Forward(p) PROVE Settled \subseteq Settled'
  BY <1>7 DEF Forward, Settled
<1> QED BY <1>1, <1>2, <1>3, <1>4, <1>5, <1>6, <1>7 DEF Next, Stopping

\* Nothing is up to offset 0.
LEMMA NothingToCover == 1..NoEntry = {} /\ 1..0 = {}
BY SMT DEF NoEntry

\* The payloads after a step that changes none.
LEMMA SameTurn ==
  ASSUME PostedInTurn, Settled \subseteq Settled', config' = config,
         \A q \in inflight' : q.pc \in {"post", "ack"} =>
            \E p \in inflight : p.pc \in {"post", "ack"} /\ q.msgs = p.msgs
  PROVE  PostedInTurn'
BY DEF PostedInTurn

\* The one payload is posted when everything before it is settled: what is
\* still on its way comes later.
LEMMA PostBeginsInTurn ==
  ASSUME CommitInv, FromTheBeginning, NEW p \in inflight, PostBegins(p), UNCHANGED agentVars
  PROVE  PostedInTurn'
<1>0. /\ TypeOK /\ InOrder /\ NoneIsLost /\ ControlInv /\ OffsetsAreCovered
      /\ inflight \subseteq PayloadRecord /\ p \in PayloadRecord
  BY SenderFields DEF CommitInv, PipelineInv, DataInv
<1> DEFINE q == [p EXCEPT !.pc = "post"]
<1>1. /\ q.msgs = p.msgs /\ inflight' = (inflight \ {p}) \cup {q}
      /\ UNCHANGED <<config, sender, cancelled, delivered, rejected, dropped>>
  BY <1>0, PayloadWithPc DEF PostBegins, Moved
<1> HIDE DEF q
<1>2. SUFFICES ASSUME config.concurrent = 0, NEW n \in Elems(p.msgs), NEW m \in 1..n
               PROVE  m \in Settled \cup Elems(p.msgs)
  <2>1. config.concurrent = 0 => inflight = {p}
    BY <1>0 DEF ControlInv, SenderStates
  <2>2. config.concurrent = 0 => inflight' = {q}
    BY <1>1, <2>1
  <2>3. Settled' = Settled
    BY <1>1 DEF Settled
  <2> QED BY <1>1, <2>2, <2>3 DEF PostedInTurn
<1>3. inflight = {p}
  BY <1>0, <1>2 DEF ControlInv, SenderStates
<1>4. Posted = Elems(p.msgs)
  BY <1>3 DEF Posted
<1>5. /\ n \in Underway /\ n \in Nat /\ m \in Nat /\ 1 <= m /\ m <= n /\ m <= reader.pos
      /\ reader.pos \in Nat /\ reader.from \in Nat
  <2>1. n \in Underway /\ n \in Nat /\ n <= reader.pos /\ reader.pos \in Nat /\ reader.from \in Nat
    BY <1>0, <1>2, <1>4, UnderwayAreMessages, Constants_ DEF Underway, InOrder
  <2> QED BY <1>2, <2>1, SMT
<1>6. CASE m <= reader.from
  <2>1. m \in 1..reader.from
    BY <1>5, <1>6, SMT
  <2> QED BY <1>0, <1>2, <2>1 DEF OffsetsAreCovered, Covered
<1>7. CASE ~(m <= reader.from)
  <2>1. m \in (reader.from + 1)..reader.pos
    BY <1>5, <1>7, SMT
  <2>2. Lossless
    <3>1. sender.pc # "done"
      BY <1>0 DEF ControlInv, StagesEnd
    <3> QED BY <3>1 DEF Lossless, PostBegins
  <2>3. m \in Settled \cup Underway
    BY <1>0, <2>1, <2>2 DEF NoneIsLost
  <2>4. ~(n < m)
    BY <1>5, SMT
  <2>5. m \in Underway => m \in Elems(p.msgs)
    BY <1>0, <1>2, <1>4, <2>4 DEF Underway, InOrder, Before
  <2> QED BY <2>3, <2>5
<1> QED BY <1>6, <1>7

\* Every step keeps: what comes before a payload that is posted without concurrency is settled.
LEMMA NextInTurn ==
  ASSUME CommitInv, FromTheBeginning, Next
  PROVE  PostedInTurn'
<1>0. PipelineInv /\ PostedInTurn /\ inflight \subseteq PayloadRecord
  BY SenderFields DEF CommitInv, PipelineInv
<1>1. Settled \subseteq Settled'
  BY <1>0, SettledGrows
<1>2. CASE Start_ \/ Exit \/ Crash
  BY <1>2 DEF Start_, Exit, Crash, ProcessEnds, SenderStart, SenderCrash, PostedInTurn
<1>3. CASE Read \/ Process
  <2>1. UNCHANGED <<inflight, config>>
    BY <1>3 DEF Read, Process, senderVars
  <2> QED BY <1>0, <1>1, <2>1, SameTurn
<1>4. CASE Quiet
  <2>1. UNCHANGED <<inflight, config>>
    BY <1>4 DEF Quiet, Log, ProcessorEnds, Stopping, Stopper, StopBegins, StopInputs, ClosePipeline, SendPanics, StopProcessor, StopSender, StopAuditor,
                StopDestinations, StopForces, StopReturns, StopGivesUp, Tick, InputEnds, SenderEnds, StreamEnds, senderVars
  <2> QED BY <1>0, <1>1, <2>1, SameTurn
<1>5. CASE Receive \/ Flush \/ StreamReceive
  <2>1. \A ms : Payload(ms).pc = "begin"
    BY DEF Payload
  <2>2. config' = config /\ \A q \in inflight' : q \in inflight \/ q.pc = "begin"
    BY <1>5, <2>1 DEF Receive, Flush, StreamReceive
  <2> QED BY <1>0, <1>1, <2>2, SameTurn
<1>6. ASSUME NEW p \in inflight, Post(p), UNCHANGED agentVars PROVE PostedInTurn'
  <2>1. CASE PostBegins(p)
    BY <1>6, <2>1, PostBeginsInTurn
  <2>2. CASE PostCancelled(p)
    <3>1. inflight' \subseteq inflight /\ config' = config
      BY <2>2 DEF PostCancelled
    <3> QED BY <1>0, <1>1, <3>1, SameTurn
  <2>3. CASE PostSucceeds(p) \/ PostFails(p) \/ PostRejected(p)
    <3>1. p.pc = "post" /\ config' = config
      BY <2>3 DEF PostSucceeds, PostFails, PostRejected
    <3>2. PICK c \in {"begin", "post", "ack"} : inflight' = (inflight \ {p}) \cup {[p EXCEPT !.pc = c]}
      BY <2>3 DEF PostSucceeds, PostFails, PostRejected, Moved
    <3>3. [p EXCEPT !.pc = c].msgs = p.msgs
      BY <1>0, PayloadWithPc
    <3> QED BY <1>0, <1>1, <3>1, <3>2, <3>3, SameTurn
  <2> QED BY <1>6, <2>1, <2>2, <2>3 DEF Post
<1>7. ASSUME NEW p \in inflight, Forward(p) PROVE PostedInTurn'
  <2> DEFINE q == [p EXCEPT !.acked = p.acked + 1]
  <2>1. p.pc = "ack" /\ config' = config /\ inflight' \subseteq (inflight \ {p}) \cup {q}
    BY <1>7 DEF Forward
  <2>2. p.acked + 1 \in Nat
    BY <1>0, SMT DEF PayloadRecord
  <2>3. q.msgs = p.msgs
    BY <1>0, <2>2, PayloadWithAcked
  <2> HIDE DEF q
  <2> QED BY <1>0, <1>1, <2>1, <2>3, SameTurn
<1> QED BY <1>2, <1>3, <1>4, <1>5, <1>6, <1>7, NextCases

\* The messages of the payloads that are forwarded.
Acknowledged == UNION {Elems(p.msgs) : p \in {q \in inflight : q.pc = "ack"}}

\* Where the offsets of a step come from: from those before it, from messages
\* that are forwarded, and for the reader from the registry or the tailing mode.
OffsetsMove ==
  /\ config' = config
  /\ {registry', auditor'.copy, disk'} \subseteq {registry, auditor.copy, disk, NoEntry} \cup Elems(auditIn)
  /\ Elems(auditIn') \subseteq Elems(auditIn) \cup Acknowledged
  /\ reader'.from \in {reader.from, NoEntry, registry', written}
  /\ FromTheBeginning => reader'.from \in {reader.from, NoEntry, registry'}

\* No step makes up an offset.
LEMMA NextOffsetsMove ==
  ASSUME PipelineInv, Next
  PROVE  OffsetsMove
<1>0. /\ TypeOK
      /\ auditor \in [on : BOOLEAN, closed : BOOLEAN, writing : BOOLEAN, copy : Offsets]
      /\ reader \in ReaderRecord /\ auditIn \in Seq(Messages)
  BY SenderFields DEF PipelineInv, TypeOK, AuditorTypeOK
<1>2. Elems(<<>>) = {} /\ NoEntry = 0
  BY ElemsOfShort DEF NoEntry
<1>3. CASE Start_
  <2>1. /\ auditIn' = <<>> /\ registry' \in {disk, NoEntry} /\ disk' = disk /\ auditor'.copy = NoEntry
        /\ config' = config
    BY <1>3 DEF Start_, AuditorStart, AuditorOff, Recovered, Cleaned, SenderStart
  <2>2. reader'.from = Position(registry')
    BY <1>3 DEF Start_
  <2>3. /\ Position(registry') \in {NoEntry, registry', written}
        /\ FromTheBeginning => Position(registry') \in {NoEntry, registry'}
    BY <1>2, PipelineAssumption DEF Position, FromTheBeginning
  <2> QED BY <1>2, <2>1, <2>2, <2>3 DEF OffsetsMove
<1>4. CASE Exit \/ Crash
  <2>1. /\ auditIn' = <<>> /\ registry' = NoEntry /\ disk' = disk /\ auditor'.copy = NoEntry
        /\ config' = config /\ reader'.from = NoEntry
    BY <1>2, <1>4 DEF Exit, Crash, ProcessEnds, AuditorCrash, AuditorOff, SenderCrash, ReaderOff
  <2> QED BY <1>2, <2>1 DEF OffsetsMove
<1>5. ASSUME UNCHANGED <<auditIn, registry, disk, config>>, auditor'.copy = auditor.copy, reader'.from = reader.from
      PROVE  OffsetsMove
  BY <1>5 DEF OffsetsMove
<1>6. CASE Read \/ Process \/ Log \/ ProcessorEnds
  <2>1. UNCHANGED <<auditorVars, config>> /\ reader'.from = reader.from
    BY <1>0, <1>6 DEF Read, Process, Log, ProcessorEnds, senderVars, ReaderRecord
  <2> QED BY <1>5, <2>1 DEF auditorVars
<1>7. CASE UNCHANGED <<auditorVars, agentVars>> /\ (SenderLoop \/ \E p \in inflight : Post(p))
  <2>1. config' = config
    BY <1>7 DEF SenderLoop, Receive, Tick, Flush, InputEnds, SenderEnds, StreamReceive, StreamEnds,
                Post, PostBegins, PostSucceeds, PostFails, PostRejected, PostCancelled
  <2> QED BY <1>5, <1>7, <2>1 DEF auditorVars, agentVars
<1>8. ASSUME NEW p \in inflight, Forward(p), UNCHANGED agentVars PROVE OffsetsMove
  <2> DEFINE n == p.msgs[p.acked + 1]
  <2>1. /\ p.pc = "ack" /\ auditIn' = Append(auditIn, n)
        /\ UNCHANGED <<config, auditor, registry, disk, reader>>
    BY <1>8 DEF Forward, agentVars
  <2>2. n \in Messages /\ n \in Elems(p.msgs)
    <3>1. n \in Messages /\ p.acked + 1 \in 1..Len(p.msgs)
      BY <1>0, <1>8, ForwardTypes DEF TypeOK
    <3> QED BY <3>1 DEF Elems
  <2> HIDE DEF n
  <2>3. Elems(auditIn') = Elems(auditIn) \cup {n}
    BY <1>0, <2>1, <2>2, ElemsOfAppend
  <2>4. n \in Acknowledged
    BY <2>1, <2>2 DEF Acknowledged
  <2> QED BY <2>1, <2>3, <2>4 DEF OffsetsMove
<1>9. CASE AuditorRuns /\ UNCHANGED <<senderVars, agentVars>>
  <2>1. UNCHANGED <<config, reader>>
    BY <1>9 DEF senderVars, agentVars
  <2>2. CASE AuditorUpdates
    <3>1. /\ registry' = Head(auditIn) /\ auditIn' = Tail(auditIn) /\ auditIn # <<>> /\ UNCHANGED <<auditor, disk>>
      BY <2>2 DEF AuditorUpdates
    <3>2. registry' \in Elems(auditIn) /\ Elems(auditIn') \subseteq Elems(auditIn)
      BY <1>0, <3>1, ElemsOfTail
    <3> QED BY <2>1, <3>1, <3>2 DEF OffsetsMove
  <2>3. CASE AuditorCleans
    <3>1. registry' \in {registry, NoEntry} /\ UNCHANGED <<auditIn, auditor, disk>>
      BY <2>3 DEF AuditorCleans, Cleaned
    <3> QED BY <2>1, <3>1 DEF OffsetsMove
  <2>4. CASE AuditorFlushes
    <3>1. auditor'.copy \in {registry, disk} /\ disk' \in {disk, NoEntry} /\ UNCHANGED <<auditIn, registry>>
      BY <1>0, <2>4 DEF AuditorFlushes, FlushBegins
    <3> QED BY <2>1, <3>1 DEF OffsetsMove
  <2>5. CASE FlushEnds
    <3>1. auditor'.copy = auditor.copy /\ disk' \in {auditor.copy, disk} /\ UNCHANGED <<auditIn, registry>>
      BY <1>0, <2>5 DEF FlushEnds
    <3> QED BY <2>1, <3>1 DEF OffsetsMove
  <2>6. CASE AuditorEnds
    <3>1. auditor'.copy = auditor.copy /\ UNCHANGED <<auditIn, registry, disk>>
      BY <1>0, <2>6 DEF AuditorEnds
    <3> QED BY <1>5, <2>1, <3>1
  <2> QED BY <1>9, <2>2, <2>3, <2>4, <2>5, <2>6 DEF AuditorRuns
<1>10. CASE StopSender
  <2>1. auditor'.copy = auditor.copy /\ UNCHANGED <<auditIn, registry, disk, config, reader>>
    BY <1>0, <1>10 DEF StopSender, AuditorClose, senderVars
  <2> QED BY <1>5, <2>1
<1>11. CASE StopAuditor
  <2>1. PICK r \in Cleaned(registry) : registry' = r /\ FlushBegins(r)
    BY <1>11 DEF StopAuditor, AuditorStop
  <2>2. registry' \in {registry, NoEntry} /\ UNCHANGED <<auditIn, config, reader>>
    BY <1>11, <2>1 DEF StopAuditor, AuditorStop, Cleaned, senderVars
  <2>3. auditor'.copy \in {registry, disk, NoEntry} /\ disk' \in {disk, NoEntry}
    BY <1>0, <2>1 DEF FlushBegins, Cleaned
  <2> QED BY <2>2, <2>3 DEF OffsetsMove
<1>12. CASE StopBegins \/ StopInputs \/ ClosePipeline \/ SendPanics \/ StopProcessor \/ StopDestinations \/ StopForces \/ StopReturns \/ StopGivesUp
  <2>1. UNCHANGED <<auditorVars, config>> /\ reader'.from = reader.from
    BY <1>0, <1>12 DEF StopBegins, StopInputs, ClosePipeline, SendPanics, StopProcessor, StopDestinations, StopForces, StopReturns, StopGivesUp,
                       senderVars, ReaderRecord
  <2> QED BY <1>5, <2>1 DEF auditorVars
<1> QED BY <1>3, <1>4, <1>6, <1>7, <1>8, <1>9, <1>10, <1>11, <1>12 DEF Next, Stopper

\* An offset is remembered, written or read from only after everything up to it
\* is settled.
LEMMA NextOffsets ==
  ASSUME CommitInv, FromTheBeginning, Next
  PROVE  OffsetsAreCovered'
<1>1. PipelineInv /\ OffsetsAreCovered /\ PostedInTurn /\ ForwardedIsSettled
  BY DEF CommitInv, PipelineInv, DataInv
<1>2. Settled \subseteq Settled' /\ OffsetsMove
  BY <1>1, SettledGrows, NextOffsetsMove
<1>3. SUFFICES ASSUME config.concurrent = 0
               PROVE  /\ 1..reader'.from \subseteq Settled' /\ 1..registry' \subseteq Settled'
                      /\ 1..auditor'.copy \subseteq Settled' /\ 1..disk' \subseteq Settled'
                      /\ \A m \in Elems(auditIn') : 1..m \subseteq Settled'
  BY <1>2 DEF OffsetsMove, OffsetsAreCovered, Covered
<1>4. \A m \in {reader.from, registry, auditor.copy, disk, NoEntry} \cup Elems(auditIn) : 1..m \subseteq Settled
  BY <1>1, <1>3, NothingToCover DEF OffsetsAreCovered, Covered
<1>5. \A m \in Acknowledged : 1..m \subseteq Settled
  BY <1>1, <1>3 DEF Acknowledged, PostedInTurn, ForwardedIsSettled
<1>6. registry' \in {registry, auditor.copy, disk, NoEntry} \cup Elems(auditIn)
  BY <1>2 DEF OffsetsMove
<1> QED BY <1>2, <1>4, <1>5, <1>6 DEF OffsetsMove

\* The invariant of the offsets holds at first and is kept.
LEMMA InitCommit == Init => CommitInv
<1> SUFFICES ASSUME Init PROVE CommitInv
  OBVIOUS
<1>1. /\ inflight = {} /\ reader.from = 0 /\ registry = NoEntry /\ auditor.copy = NoEntry /\ disk = NoEntry
      /\ Elems(auditIn) = {}
  BY ElemsOfShort DEF Init, SenderInit, AuditorInit, AuditorOff, ReaderOff
<1>2. PostedInTurn /\ OffsetsAreCovered
  BY <1>1, NothingToCover DEF PostedInTurn, OffsetsAreCovered, Covered
<1> QED BY <1>2, InitPipeline DEF CommitInv

LEMMA NextCommit == FromTheBeginning /\ PipelineInv' /\ CommitInv /\ [Next]_vars => CommitInv'
<1> SUFFICES ASSUME FromTheBeginning, PipelineInv', CommitInv, [Next]_vars PROVE PostedInTurn' /\ OffsetsAreCovered'
  BY DEF CommitInv
<1>1. CASE Next
  BY <1>1, NextInTurn, NextOffsets
<1>2. CASE UNCHANGED vars
  BY <1>2 DEF vars, auditorVars, senderVars, agentVars, CommitInv, PostedInTurn, OffsetsAreCovered, Covered, Settled
<1> QED BY <1>1, <1>2

\* A source that is read from its beginning (tailing mode "beginning" or
\* "forceBeginning"), sent without concurrency: every message up to an offset
\* in the registry or in its file was delivered, refused or left out, in every
\* instance and through any number of crashes.
THEOREM CommitCoversSettledAlways ==
  ASSUME FromTheBeginning
  PROVE  Spec => []CommitCoversSettled
<1>1. PipelineInv' /\ CommitInv /\ [Next]_vars => CommitInv'
  BY NextCommit
<1>2. CommitInv => CommitCoversSettled
  <2> SUFFICES ASSUME CommitInv, config.concurrent = 0, NEW m \in Messages, m <= registry \/ m <= disk
               PROVE  m \in Settled
    BY DEF CommitCoversSettled
  <2>1. registry \in Nat /\ disk \in Nat /\ m \in Nat
    BY Constants_ DEF CommitInv, PipelineInv, TypeOK, AuditorTypeOK
  <2>2. m \in 1..registry \/ m \in 1..disk
    BY <2>1, SMT DEF Messages
  <2> QED BY <2>2 DEF CommitInv, OffsetsAreCovered, Covered
<1> QED BY <1>1, <1>2, InitCommit, PipelineInvariant, PTL DEF Spec

----------------------------------------------------------------------------
(* At-least-once delivery *)

\* The messages up to n are the numbers from 1 to n.
LEMMA UpToNumber ==
  ASSUME NEW n \in Nat
  PROVE  /\ \A m \in Nat : m <= n /\ m >= 1 => m \in 1..n
         /\ \A k \in Nat : k <= n => 1..k \subseteq 1..n
BY SMT

\* A message that is settled by a step was on its way.
LEMMA NewlySettled ==
  ASSUME PipelineInv, Next
  PROVE  Settled' \subseteq Settled \cup Underway
<1>0. TypeOK
  BY DEF PipelineInv
<1>1. CASE Start_ \/ Exit \/ Crash \/ Read \/ Quiet
  <2>1. UNCHANGED <<delivered, rejected, dropped>>
    BY <1>1 DEF Start_, SenderStart, Exit, Crash, ProcessEnds, SenderCrash, Read, Quiet, Log, ProcessorEnds, Stopping,
                Stopper, StopBegins, StopInputs, ClosePipeline, SendPanics, StopProcessor, StopSender, StopAuditor, StopDestinations, StopForces,
                StopReturns, StopGivesUp, Tick, InputEnds, SenderEnds, StreamEnds, senderVars
  <2> QED BY <2>1 DEF Settled
<1>2. CASE Process
  <2>1. delivered' = delivered /\ rejected' = rejected /\ dropped' \subseteq dropped \cup {Head(procIn)}
    BY <1>2 DEF Process
  <2>2. Head(procIn) \in Elems(procIn)
    BY <1>0, <1>2, ElemsOfTail DEF Process, TypeOK
  <2> QED BY <2>1, <2>2 DEF Settled, Underway
<1>3. CASE Receive \/ Flush \/ StreamReceive
  <2>1. /\ delivered' = delivered /\ rejected' = rejected
        /\ dropped' = dropped \/ dropped' = dropped \cup ({sender.retry} \cap TooLarge)
    BY <1>3 DEF Receive, Flush, StreamReceive
  <2>2. {sender.retry} \cap TooLarge \subseteq Held
    BY Constants_ DEF Held
  <2> QED BY <2>1, <2>2 DEF Settled, Underway
<1>4. ASSUME NEW p \in inflight, Post(p) PROVE Settled' \subseteq Settled \cup Underway
  <2>1. /\ delivered' \subseteq delivered \cup Elems(p.msgs) /\ rejected' \subseteq rejected \cup Elems(p.msgs)
        /\ dropped' = dropped
    BY <1>4 DEF Post, PostBegins, PostSucceeds, PostFails, PostRejected, PostCancelled
  <2>2. Elems(p.msgs) \subseteq Underway
    BY DEF Underway, Posted
  <2> QED BY <2>1, <2>2 DEF Settled
<1>5. ASSUME NEW p \in inflight, Forward(p) PROVE Settled' \subseteq Settled \cup Underway
  BY <1>5 DEF Forward, Settled
<1> QED BY <1>1, <1>2, <1>3, <1>4, <1>5, NextCases

\* What is on its way is in the file.
LEMMA UnderwayInFile ==
  ASSUME PipelineInv, WithinFile
  PROVE  Underway \subseteq 1..written
<1>1. /\ reader.pos \in Nat /\ Underway \subseteq Messages /\ written \in 0..MaxMessages
      /\ \A m \in Underway : m <= reader.pos
  BY UnderwayAreMessages DEF PipelineInv, DataInv, InOrder, TypeOK
<1>2. ASSUME NEW m \in Underway PROVE m \in 1..written
  <2>1. m \in Messages /\ m <= reader.pos /\ reader.pos <= written
    BY <1>1 DEF WithinFile
  <2> QED BY <1>1, <2>1, Constants_, SMT DEF Messages
<1> QED BY <1>2

\* The offsets stay those of settled messages.
LEMMA NextOffsetsSettled ==
  ASSUME PipelineInv, OffsetsAreSettled, Next
  PROVE  OffsetsAreSettled'
<1>1. Settled \subseteq Settled' /\ OffsetsMove
  BY SettledGrows, NextOffsetsMove
<1>2. Acknowledged \subseteq Settled
  BY DEF Acknowledged, PipelineInv, DataInv, ForwardedIsSettled
<1>3. Elems(auditIn') \subseteq Settled
  BY <1>1, <1>2 DEF OffsetsMove, OffsetsAreSettled
<1>4. {registry', auditor'.copy, disk'} \subseteq Settled \cup {NoEntry}
  BY <1>1 DEF OffsetsMove, OffsetsAreSettled
<1> QED BY <1>1, <1>3, <1>4 DEF OffsetsAreSettled

\* The file is not read beyond its end: a position from the registry is that of
\* a message that was settled.
LEMMA NextWithinFile ==
  ASSUME PipelineInv, PipelineInv', WithinFile, OffsetsAreSettled, Next
  PROVE  WithinFile'
<1>0. /\ written \in Nat /\ reader \in ReaderRecord /\ reader.pos \in Nat /\ reader.pos <= written
      /\ written' \in 0..MaxMessages /\ MaxMessages \in Nat
  BY SenderFields, UnderwayAreMessages, Constants_, SMT DEF PipelineInv, TypeOK, WithinFile
<1>1. written' = written \/ (written' = written + 1 /\ Log)
  BY DEF Next, Start_, Log, Read, Process, ProcessorEnds, Stopper, StopBegins, StopInputs, ClosePipeline, SendPanics, StopProcessor, StopSender, StopAuditor,
         StopDestinations, StopForces, StopReturns, StopGivesUp, Exit, Crash, ProcessEnds, agentVars
<1>2. written' \in Nat /\ written <= written'
  BY <1>0, <1>1, SMT
<1>3. Settled' \subseteq 1..written'
  <2>1. Settled' \subseteq 1..written
    BY NewlySettled, UnderwayInFile DEF WithinFile
  <2> QED BY <1>0, <1>2, <2>1, UpToNumber
<1>4. CASE Start_
  <2>1. reader'.pos = Position(registry') /\ written' = written /\ registry' \in {disk, NoEntry}
    BY <1>4 DEF Start_, AuditorStart, Recovered, Cleaned
  <2>2. registry' \in 1..written \cup {0}
    BY <2>1 DEF OffsetsAreSettled, WithinFile, NoEntry
  <2>3. Position(registry') \in {0, registry', written}
    BY PipelineAssumption DEF Position
  <2>4. reader'.pos <= written'
    BY <1>0, <2>1, <2>2, <2>3, SMT
  <2> QED BY <1>3, <2>4 DEF WithinFile
<1>5. CASE Exit \/ Crash
  <2>1. reader'.pos = 0
    BY <1>5 DEF Exit, Crash, ProcessEnds, ReaderOff
  <2>2. reader'.pos <= written'
    BY <1>2, <2>1, SMT
  <2> QED BY <1>3, <2>2 DEF WithinFile
<1>6. CASE Read
  <2>1. reader.pos < written /\ reader'.pos = reader.pos + 1 /\ written' = written
    BY <1>0, <1>6 DEF Read, ReaderRecord
  <2>2. reader'.pos <= written'
    BY <1>0, <2>1, SMT
  <2> QED BY <1>3, <2>2 DEF WithinFile
<1>7. CASE reader' = reader \/ reader' = [reader EXCEPT !.on = FALSE]
  <2>1. reader'.pos = reader.pos
    BY <1>0, <1>7 DEF ReaderRecord
  <2>2. reader'.pos <= written'
    BY <1>0, <1>2, <2>1, SMT
  <2> QED BY <1>3, <2>2 DEF WithinFile
<1>8. \/ Start_ \/ Exit \/ Crash \/ Read
      \/ reader' = reader \/ reader' = [reader EXCEPT !.on = FALSE]
  BY DEF Next, Log, Process, ProcessorEnds, Stopper, StopBegins, StopInputs, ClosePipeline, SendPanics, StopProcessor, StopSender, StopAuditor,
         StopDestinations, StopForces, StopReturns, StopGivesUp, agentVars
<1> QED BY <1>4, <1>5, <1>6, <1>7, <1>8

\* The invariant of the delivery holds at first and is kept.
LEMMA InitDelivery == Init => DeliveryInv
<1> SUFFICES ASSUME Init PROVE DeliveryInv
  OBVIOUS
<1>1. Settled = {} /\ reader.pos = 0 /\ written = 0 /\ auditIn = <<>>
      /\ registry = NoEntry /\ disk = NoEntry /\ auditor.copy = NoEntry
  BY DEF Init, SenderInit, AuditorInit, AuditorOff, ReaderOff, Settled
<1>2. WithinFile
  BY <1>1, SMT DEF WithinFile
<1>3. OffsetsAreSettled
  BY <1>1, ElemsOfShort DEF OffsetsAreSettled
<1> QED BY <1>2, <1>3, InitPipeline, InitCommit DEF DeliveryInv

LEMMA NextDelivery == PipelineInv' /\ DeliveryInv /\ [Next]_vars => DeliveryInv'
<1> SUFFICES ASSUME PipelineInv', DeliveryInv, [Next]_vars PROVE DeliveryInv'
  OBVIOUS
<1>1. PipelineInv /\ WithinFile /\ OffsetsAreSettled
  BY DEF DeliveryInv
<1>2. FromTheBeginning => CommitInv'
  BY NextCommit DEF DeliveryInv
<1>3. CASE Next
  BY <1>1, <1>2, <1>3, NextWithinFile, NextOffsetsSettled DEF DeliveryInv
<1>4. CASE UNCHANGED vars
  <2>1. WithinFile' /\ OffsetsAreSettled'
    BY <1>1, <1>4 DEF vars, auditorVars, senderVars, agentVars, WithinFile, OffsetsAreSettled, Settled
  <2> QED BY <1>2, <2>1 DEF DeliveryInv
<1> QED BY <1>3, <1>4

\* A step that writes and settles nothing is one that may change the offsets.
LEMMA CommitStep ==
  ASSUME DeliveryInv', UNCHANGED <<config, written, delivered, rejected, dropped>>
  PROVE  Delivery!Commit
<1>1. Settled' = Settled /\ Delivery!Done = Settled
  BY DEF Settled, Delivery!Done
<1>2. registry' \in Settled \cup {0} /\ disk' \in Settled \cup {0}
  BY <1>1 DEF DeliveryInv, OffsetsAreSettled, NoEntry
<1>3. config.concurrent = 0 /\ FromTheBeginning => 1..registry' \subseteq Settled /\ 1..disk' \subseteq Settled
  BY <1>1 DEF DeliveryInv, CommitInv, OffsetsAreCovered, Covered
<1>4. registry' \in Delivery!Committable /\ disk' \in Delivery!Committable
  BY <1>1, <1>2, <1>3 DEF Delivery!Committable
<1> QED BY <1>4 DEF Delivery!Commit

\* A message that a rule excludes, or that is too large, is left out.
LEMMA LeaveOutStep ==
  ASSUME NEW m \in Excluded \cup TooLarge, m \in 1..written, dropped' = dropped \cup {m},
         UNCHANGED <<config, written, delivered, rejected, registry, disk>>
  PROVE  Delivery!DeliveryNext
<1>1. Delivery!LeaveOut(m)
  BY DEF Delivery!LeaveOut
<1> QED BY <1>1 DEF Delivery!DeliveryNext

\* An attempt that ends settles its payload: what comes before it is settled.
LEMMA PostStep ==
  ASSUME DeliveryInv, DeliveryInv', NEW p \in inflight, Post(p), UNCHANGED <<auditorVars, agentVars>>
  PROVE  Delivery!DeliveryNext
<1> DEFINE S == Elems(p.msgs)
<1>1. UNCHANGED <<written, registry, disk>>
  BY DEF auditorVars, agentVars
<1>2. UNCHANGED <<config, dropped>>
  BY DEF Post, PostBegins, PostSucceeds, PostFails, PostRejected, PostCancelled
<1>3. \/ UNCHANGED <<delivered, rejected>>
      \/ p.pc = "post" /\ delivered' = delivered \cup S /\ rejected' = rejected
      \/ p.pc = "post" /\ rejected' = rejected \cup S /\ delivered' = delivered
  BY DEF Post, PostBegins, PostSucceeds, PostFails, PostRejected, PostCancelled
<1>4. S \in SUBSET (1..written)
  <2>1. S \subseteq Underway
    BY DEF Underway, Posted
  <2> QED BY <2>1, UnderwayInFile DEF DeliveryInv
<1>5. config.concurrent = 0 /\ FromTheBeginning /\ p.pc = "post" => \A n \in S : 1..n \subseteq Settled \cup S
  BY DEF DeliveryInv, CommitInv, PostedInTurn
<1>6. Delivery!Done = Settled
  BY DEF Delivery!Done, Settled
<1> HIDE DEF S
<1>7. CASE UNCHANGED <<delivered, rejected>>
  BY <1>1, <1>2, <1>7, CommitStep DEF Delivery!DeliveryNext
<1>8. CASE p.pc = "post" /\ \/ delivered' = delivered \cup S /\ rejected' = rejected
                            \/ rejected' = rejected \cup S /\ delivered' = delivered
  <2>1. Delivery!Settle(S)
    BY <1>1, <1>2, <1>5, <1>6, <1>8 DEF Delivery!Settle
  <2> QED BY <1>4, <2>1 DEF Delivery!DeliveryNext
<1> QED BY <1>3, <1>7, <1>8

\* Every step of the pipeline is one of the delivery.
LEMMA NextDelivers ==
  ASSUME DeliveryInv, DeliveryInv', Next
  PROVE  Delivery!DeliveryNext
<1>0. PipelineInv /\ WithinFile /\ TypeOK
  BY DEF DeliveryInv, PipelineInv
<1>1. Underway \subseteq 1..written
  BY <1>0, UnderwayInFile
<1>2. ASSUME UNCHANGED <<config, written, delivered, rejected, dropped>> PROVE Delivery!DeliveryNext
  BY <1>2, CommitStep DEF Delivery!DeliveryNext
<1>3. CASE Log
  <2>1. Delivery!Write
    BY <1>3 DEF Log, auditorVars, senderVars, Delivery!Write
  <2> QED BY <2>1 DEF Delivery!DeliveryNext
<1>4. CASE Process
  <2>1. UNCHANGED <<config, written, delivered, rejected, registry, disk>>
    BY <1>4 DEF Process, auditorVars
  <2>2. dropped' = dropped \/ (Head(procIn) \in Excluded /\ dropped' = dropped \cup {Head(procIn)})
    BY <1>4 DEF Process
  <2>3. Head(procIn) \in 1..written
    <3>1. Head(procIn) \in Elems(procIn)
      BY <1>0, <1>4, ElemsOfTail DEF Process, TypeOK
    <3> QED BY <1>1, <3>1 DEF Underway
  <2> QED BY <1>2, <2>1, <2>2, <2>3, LeaveOutStep
<1>5. CASE Flush /\ UNCHANGED <<auditorVars, agentVars>>
  <2>1. UNCHANGED <<config, written, delivered, rejected, registry, disk>>
    BY <1>5 DEF Flush, auditorVars, agentVars
  <2>2. dropped' = dropped \cup ({sender.retry} \cap TooLarge)
    BY <1>5 DEF Flush
  <2>3. CASE sender.retry \in TooLarge
    <3>1. sender.retry \in Held /\ dropped' = dropped \cup {sender.retry}
      BY <2>2, <2>3, Constants_ DEF Held
    <3>2. sender.retry \in 1..written
      BY <1>1, <3>1 DEF Underway
    <3> QED BY <2>1, <2>3, <3>1, <3>2, LeaveOutStep
  <2>4. CASE sender.retry \notin TooLarge
    <3>1. dropped' = dropped
      BY <2>2, <2>4
    <3> QED BY <1>2, <2>1, <3>1
  <2> QED BY <2>3, <2>4
<1>6. CASE \E p \in inflight : Post(p) /\ UNCHANGED <<auditorVars, agentVars>>
  BY <1>6, PostStep
<1>7. CASE \/ (Receive \/ StreamReceive) /\ UNCHANGED <<auditorVars, agentVars>>
           \/ \E p \in inflight : Forward(p) /\ UNCHANGED agentVars
  <2>1. UNCHANGED <<config, written, delivered, rejected, dropped>>
    BY <1>7 DEF Receive, StreamReceive, Forward, agentVars
  <2> QED BY <1>2, <2>1
<1>8. CASE Start_ \/ Exit \/ Crash \/ Read \/ Quiet
  <2>1. CASE ~Log
    <3>1. UNCHANGED <<config, written, delivered, rejected, dropped>>
      BY <1>8, <2>1 DEF Start_, SenderStart, Exit, Crash, ProcessEnds, SenderCrash, Read, Quiet, ProcessorEnds, Stopping,
                  Stopper, StopBegins, StopInputs, ClosePipeline, SendPanics, StopProcessor, StopSender, StopAuditor, StopDestinations, StopForces,
                  StopReturns, StopGivesUp, Tick, InputEnds, SenderEnds, StreamEnds, senderVars, agentVars
    <3> QED BY <1>2, <3>1
  <2> QED BY <1>3, <2>1
<1> QED BY <1>4, <1>5, <1>6, <1>7, <1>8, NextCases

\* The pipeline implements at-least-once delivery, whatever the tailing mode and
\* the configuration of the sender, through any number of stops and crashes:
\* only messages of the file are settled, and the offsets are those of settled
\* messages; without concurrent sends from the beginning of the file, no message
\* is settled or covered by an offset before those that it follows.
THEOREM PipelineImplementsDelivery == Spec => ImplementsDelivery
<1>1. Init => Delivery!DeliveryInit
  <2> SUFFICES ASSUME Init PROVE Delivery!DeliveryInit
    OBVIOUS
  <2>1. (config.concurrent = 0 /\ FromTheBeginning) \in BOOLEAN
    OBVIOUS
  <2> QED BY <2>1 DEF Init, SenderInit, AuditorInit, NoEntry, Delivery!DeliveryInit
<1>2. DeliveryInv /\ DeliveryInv' /\ [Next]_vars => [Delivery!DeliveryNext]_(Delivery!deliveryVars)
  <2> SUFFICES ASSUME DeliveryInv, DeliveryInv', [Next]_vars PROVE [Delivery!DeliveryNext]_(Delivery!deliveryVars)
    OBVIOUS
  <2>1. CASE Next
    BY <2>1, NextDelivers
  <2>2. CASE UNCHANGED vars
    BY <2>2 DEF vars, auditorVars, senderVars, agentVars, Delivery!deliveryVars
  <2> QED BY <2>1, <2>2
<1> QED BY <1>1, <1>2, InitDelivery, NextDelivery, PipelineInvariant, PTL DEF Spec, ImplementsDelivery, Delivery!DeliverySpec
============================================================================
