-------------------------- MODULE LogDecoderProofs --------------------------
(***************************************************************************)
(* Proofs about the way of a log file through decoder, parser, handler and *)
(* forwardMessages, for every content of the file, every limit of a line,  *)
(* every size of the reads and any number of restarts.                     *)
(***************************************************************************)
EXTENDS LogDecoder, SequenceTheorems, WellFoundedInduction, TLAPS

\* The provers, in the order in which they are tried.
USE ZenonT(2), SMTT(30), ZenonT(60)

----------------------------------------------------------------------------
(* Numbers and text *)

\* A set of natural numbers that is not empty has a least element.
LEMMA MinIsLeast ==
  ASSUME NEW S \in SUBSET Nat, S # {}
  PROVE  Min(S) \in S /\ \A y \in S : Min(S) <= y
<1>1. PICK x \in S : \A y \in S : ~(<<y, x>> \in OpToRel(<, Nat))
  BY NatLessThanWellFounded, WFMin
<1>2. \A y \in S : ~(y < x)
  BY <1>1 DEF OpToRel
<1>3. \A y \in S : x <= y
  BY <1>2, SMT
<1> QED BY <1>3 DEF Min

\* And a greatest one when it is bounded.
LEMMA MaxIsGreatest ==
  ASSUME NEW n \in Nat, NEW S \in SUBSET (1..n), S # {}
  PROVE  Max(S) \in S /\ \A y \in S : Max(S) >= y
<1> DEFINE T == {n - y : y \in S}
<1>1. \A y \in S : n - y \in Nat
  BY SMT
<1>2. T \in SUBSET Nat /\ T # {} /\ \A y \in S : n - y \in T
  BY <1>1
<1>3. PICK x \in S : Min(T) = n - x
  BY <1>2, MinIsLeast
<1>4. \A z \in T : Min(T) <= z
  <2> HIDE DEF T
  <2> QED BY <1>2, MinIsLeast
<1>5. \A y \in S : n - x <= n - y
  BY <1>2, <1>3, <1>4
<1>6. \A y \in S : x >= y
  BY <1>5, SMT
<1> QED BY <1>6 DEF Max

\* A part of a text is a text.
LEMMA PartOfText ==
  ASSUME NEW S, NEW s \in Seq(S), NEW m \in Nat, NEW n \in Int, m >= 1, n <= Len(s)
  PROVE  SubSeq(s, m, n) \in Seq(S) /\ Len(SubSeq(s, m, n)) = IF m <= n THEN n - m + 1 ELSE 0
<1>1. \A k \in m .. n : s[k] \in S
  BY SMT
<1> QED BY <1>1, SubSeqProperties, SMT

\* What the decoder reads is a text.
LEMMA BytesAreText == Seq(Bytes) \subseteq Text
BY SMT DEF Text

\* TrimSpace and truncatedFlag.
LEMMA TrimText ==
  ASSUME NEW s \in Text
  PROVE  TrimSpace(s) \in Text
<1> DEFINE kept == {k \in DOMAIN s : s[k] # "n"}
<1>1. CASE kept = {}
  <2>1. TrimSpace(s) = <<>>
    BY <1>1 DEF TrimSpace
  <2> QED BY <2>1, SMT DEF Text
<1>2. CASE kept # {}
  <2>1. kept \in SUBSET (1..Len(s)) /\ kept \in SUBSET Nat /\ Len(s) \in Nat
    BY SMT DEF Text
  <2>2. TrimSpace(s) = SubSeq(s, Min(kept), Max(kept))
    BY <1>2 DEF TrimSpace
  <2> HIDE DEF kept
  <2>3. Min(kept) \in kept /\ Max(kept) \in kept
    BY <1>2, <2>1, MinIsLeast, MaxIsGreatest
  <2>4. Min(kept) \in 1..Len(s) /\ Max(kept) \in 1..Len(s)
    BY <2>1, <2>3
  <2>5. Min(kept) \in Nat /\ Max(kept) \in Int /\ Min(kept) >= 1 /\ Max(kept) <= Len(s)
    BY <2>1, <2>4, SMT
  <2> QED BY <2>2, <2>5, PartOfText DEF Text
<1> QED BY <1>1, <1>2

\* truncatedFlag is a text.
LEMMA FlagText == \A b \in BOOLEAN : Flag(b) \in Text
<1>1. <<>> \in Text /\ <<"T">> \in Text
  BY SMT DEF Text
<1> QED BY <1>1 DEF Flag

\* Texts are joined to a text.
LEMMA JoinedText ==
  ASSUME NEW s \in Text, NEW t \in Text
  PROVE  s \o t \in Text
BY ConcatProperties DEF Text

\* The line parsers: UTF-16, and the header of a container.
LEMMA ParsedText ==
  ASSUME NEW s \in Text
  PROVE  Parse(s) \in Text
<1>1. Utf16(s) \in Text
  <2> DEFINE c(k) == IF 2 * k <= Len(s) /\ s[2 * k - 1] = "0" THEN s[2 * k] ELSE "x"
             n == (Len(s) + 1) \div 2
  <2>1. n \in Nat /\ Len(s) \in Nat
    BY SMT DEF Text
  <2>2. \A k \in 1..n : c(k) \in Bytes \cup {"T"}
    BY SMT DEF Text, Bytes
  <2> HIDE DEF c, n
  <2>3. [k \in 1..n |-> c(k)] \in Seq(Bytes \cup {"T"})
    BY <2>1, <2>2, IsASeq
  <2> QED BY <2>3 DEF Utf16, c, n, Text
<1>2. s # <<>> => Tail(s) \in Text
  BY HeadTailProperties DEF Text
<1> QED BY <1>1, <1>2 DEF Parse, HasHeader

----------------------------------------------------------------------------
(* What is handed over *)

\* Small numbers.
LEMMA SmallNumbers ==
  ASSUME NEW n \in Nat
  PROVE  /\ n <= 2 => n \in {0, 1, 2}
         /\ n <= 1 => n \in {0, 1} /\ n <= 2
         /\ 1 \in 1..1 /\ 1 \in 1..2 /\ 2 \in 1..2 /\ n + 0 = n /\ 0 + n = n
BY SMT

\* How many things are handed over.
LEMMA Lengths ==
  ASSUME NEW s \in Seq(Item)
  PROVE  /\ Len(s) \in Nat /\ (s = <<>> <=> Len(s) = 0)
         /\ Len(s) <= 2 => Len(s) \in {0, 1, 2}
         /\ Len(s) <= 1 => Len(s) \in {0, 1} /\ Len(s) <= 2
<1>1. Len(s) \in Nat /\ (s = <<>> <=> Len(s) = 0)
  BY EmptySeq, LenProperties
<1> DEFINE n == Len(s)
<1> HIDE DEF n
<1>2. n \in Nat
  BY <1>1 DEF n
<1>3. (n <= 2 => n \in {0, 1, 2}) /\ (n <= 1 => n \in {0, 1} /\ n <= 2)
  BY <1>2, SmallNumbers
<1> QED BY <1>1, <1>3 DEF n

\* Nothing is handed over.
LEMMA EmptyChannel == <<>> \in Seq(Item) /\ Raw(<<>>) = 0 /\ Len(<<>>) = 0
BY SMT DEF Raw

\* One thing is handed over.
LEMMA OneItem ==
  ASSUME NEW m \in Item
  PROVE  <<m>> \in Seq(Item) /\ Raw(<<m>>) = m.raw /\ Len(<<m>>) = 1 /\ <<m>> # <<>>
<1>1. m.raw \in Nat
  BY DEF Item
<1>2. <<m>> \in Seq(Item) /\ Len(<<m>>) = 1 /\ <<m>> # <<>> /\ <<m>>[1] = m
  BY SMT
<1>3. Raw(<<m>>) = m.raw + 0
  BY <1>2, SMT DEF Raw
<1> QED BY <1>1, <1>2, <1>3, SMT

\* The first of what is handed over, and the rest.
LEMMA FirstItem ==
  ASSUME NEW s \in Seq(Item), s # <<>>, Len(s) <= 2
  PROVE  /\ s[1] \in Item /\ Tail(s) \in Seq(Item) /\ Len(Tail(s)) <= 1 /\ Raw(s) = s[1].raw + Raw(Tail(s))
         /\ Len(s) = 1 => Tail(s) = <<>> /\ Raw(s) = s[1].raw
<1> DEFINE t == Tail(s)
<1>1. /\ s[1] \in Item /\ t \in Seq(Item) /\ Len(t) = Len(s) - 1 /\ Len(s) \in {1, 2}
      /\ \A k \in 1 .. Len(t) : t[k] = s[k + 1]
  <2>1. t \in Seq(Item) /\ Len(t) = Len(s) - 1 /\ \A k \in 1 .. Len(t) : t[k] = s[k + 1]
    BY HeadTailProperties
  <2>2. Len(s) \in Nat /\ Len(s) # 0
    BY Lengths
  <2>3. Len(s) \in {1, 2}
    BY <2>2, Lengths
  <2>4. s[1] \in Item
    BY <2>3, SmallNumbers, ElementOfSeq
  <2> QED BY <2>1, <2>3, <2>4
<1> HIDE DEF t
<1>2. s[1].raw \in Nat
  BY <1>1 DEF Item
<1>3. CASE Len(s) = 1
  <2>1. Len(t) = 0
    BY <1>1, <1>3, SMT
  <2>2. t = <<>> /\ Len(t) <= 1 /\ ~(Len(s) > 1)
    BY <1>1, <1>3, <2>1, EmptySeq, SMT
  <2>3. Raw(s) = s[1].raw + 0 /\ Raw(t) = 0
    BY <2>2 DEF Raw
  <2>4. Raw(s) = s[1].raw /\ Raw(s) = s[1].raw + Raw(t)
    BY <1>2, <2>3, SMT
  <2> QED BY <1>1, <1>3, <2>2, <2>4 DEF t
<1>4. CASE Len(s) = 2
  <2>1. s[2] \in Item
    BY <1>1, <1>4, SmallNumbers, ElementOfSeq
  <2>2. s[2].raw \in Nat
    BY <2>1 DEF Item
  <2>3. Len(t) = 1
    BY <1>1, <1>4, SMT
  <2>4. t[1] = s[2] /\ Len(t) <= 1 /\ ~(Len(t) > 1) /\ Len(s) > 1 /\ Len(s) # 1
    BY <1>1, <1>4, <2>3, SMT
  <2>5. t # <<>>
    BY <1>1, <2>3, Lengths, SMT
  <2>6. Raw(s) = s[1].raw + s[2].raw /\ Raw(t) = s[2].raw + 0
    BY <2>4, <2>5 DEF Raw
  <2>7. Raw(s) = s[1].raw + Raw(t)
    BY <1>2, <2>2, <2>6, SMT
  <2> QED BY <1>1, <2>4, <2>7 DEF t
<1> QED BY <1>1, <1>3, <1>4

\* A channel holds a number of bytes.
LEMMA RawIsNat ==
  ASSUME NEW s \in Seq(Item), Len(s) <= 2
  PROVE  Raw(s) \in Nat
<1>1. CASE s = <<>>
  BY <1>1, EmptyChannel, SMT
<1>2. CASE s # <<>>
  <2>1. s[1] \in Item /\ Tail(s) \in Seq(Item) /\ Raw(s) = s[1].raw + Raw(Tail(s)) /\ Len(Tail(s)) <= 1
    BY <1>2, FirstItem
  <2>2. s[1].raw \in Nat
    BY <2>1 DEF Item
  <2>3. CASE Tail(s) = <<>>
    <3>1. Raw(s) = s[1].raw + 0
      BY <2>1, <2>3, EmptyChannel
    <3> QED BY <2>2, <3>1, SmallNumbers
  <2>4. CASE Tail(s) # <<>>
    <3> DEFINE t == Tail(s)
    <3>1. t \in Seq(Item) /\ t # <<>> /\ Len(t) <= 1
      BY <2>1, <2>4
    <3> HIDE DEF t
    <3>2. Len(t) = 1 /\ Len(t) <= 2
      BY <3>1, Lengths
    <3>3. t[1] \in Item /\ Raw(t) = t[1].raw
      BY <3>1, <3>2, FirstItem
    <3>4. Raw(t) \in Nat
      BY <3>3 DEF Item
    <3> QED BY <2>1, <2>2, <3>4, SMT DEF t
  <2> QED BY <2>3, <2>4
<1> QED BY <1>1, <1>2

\* Two things at most, one after the other.
LEMMA JoinedItems ==
  ASSUME NEW s \in Seq(Item), NEW t \in Seq(Item), Len(s) <= 1, Len(t) <= 1
  PROVE  s \o t \in Seq(Item) /\ Len(s \o t) <= 2 /\ Raw(s \o t) = Raw(s) + Raw(t)
<1>1. s \o t \in Seq(Item) /\ Len(s \o t) = Len(s) + Len(t) /\ Len(s) \in {0, 1} /\ Len(t) \in {0, 1}
  BY ConcatProperties, Lengths
<1>2. Raw(s) \in Nat /\ Raw(t) \in Nat
  BY RawIsNat, Lengths
<1>3. CASE s = <<>>
  <2>1. s \o t = t
    BY <1>3, ConcatEmptySeq
  <2>2. Raw(s) = 0
    BY <1>3, EmptyChannel
  <2> QED BY <1>1, <1>2, <2>1, <2>2, SMT
<1>4. CASE t = <<>>
  <2>1. s \o t = s
    BY <1>4, ConcatEmptySeq
  <2>2. Raw(t) = 0
    BY <1>4, EmptyChannel
  <2> QED BY <1>1, <1>2, <2>1, <2>2, SMT
<1>5. CASE s # <<>> /\ t # <<>>
  <2>1. Len(s) = 1 /\ Len(t) = 1 /\ s[1] \in Item /\ t[1] \in Item
    BY <1>1, <1>5, SMT
  <2>2. Len(s \o t) = 2 /\ (s \o t)[1] = s[1] /\ (s \o t)[2] = t[1] /\ s \o t # <<>>
    BY <1>1, <2>1, SMT
  <2>3. Raw(s \o t) = s[1].raw + t[1].raw
    BY <2>2, SMT DEF Raw
  <2>4. Raw(s) = s[1].raw /\ Raw(t) = t[1].raw
    BY <1>5, <2>1, FirstItem, Lengths
  <2> QED BY <1>1, <2>2, <2>3, <2>4
<1> QED BY <1>3, <1>4, <1>5

----------------------------------------------------------------------------
(* The line handlers *)

\* What a handler makes of a line of n bytes: it sends or counts all of them, and
\* only MultiLineHandler counts.
Conserves(h, n, done) ==
  /\ done.han \in Handler /\ done.msgs \in Seq(Item) /\ Len(done.msgs) <= 2
  /\ Raw(done.msgs) + done.han.linesLen = h.linesLen + n
  /\ done.han.mode # "multi" => done.han.linesLen = 0

\* What a new handler holds.
LEMMA NewHandlerFields ==
  ASSUME NEW mode \in {"single", "multi", "try"}
  PROVE  NewHandler(mode) \in Handler /\ NewHandler(mode).mode = mode /\ NewHandler(mode).linesLen = 0
<1>1. 0 \in Nat /\ <<>> \in Text
  BY SMT DEF Text
<1> QED BY <1>1 DEF NewHandler, Handler

\* SingleLineHandler.process.
LEMMA SingleLineConserves ==
  ASSUME NEW h \in Handler, NEW m \in Item, h.linesLen = 0
  PROVE  /\ Conserves(h, m.raw, SingleLine(h, m)) /\ SingleLine(h, m).han.mode = h.mode
         /\ SingleLine(h, m).han.linesLen = 0
<1> DEFINE content == Flag(h.shouldTruncate) \o TrimSpace(m.content)
           long == Len(content) >= contentLenLimit
           g == [h EXCEPT !.shouldTruncate = long]
           msg == [m EXCEPT !.content = content \o Flag(long)]
<1>1. content \in Text /\ m.raw \in Nat
  BY FlagText, TrimText, JoinedText DEF Handler, Item
<1>2. SingleLine(h, m) = [han |-> g, msgs |-> <<msg>>]
  BY DEF SingleLine
<1> HIDE DEF content
<1>3. long \in BOOLEAN
  OBVIOUS
<1> HIDE DEF long
<1>4. content \o Flag(long) \in Text
  BY <1>1, <1>3, FlagText, JoinedText
<1>5. g \in Handler /\ g.mode = h.mode /\ g.linesLen = 0
  BY <1>3 DEF Handler
<1>6. msg \in Item /\ msg.raw = m.raw
  BY <1>4 DEF Item
<1> HIDE DEF g, msg
<1>7. <<msg>> \in Seq(Item) /\ Len(<<msg>>) <= 2 /\ Raw(<<msg>>) = m.raw
  <2>1. <<msg>> \in Seq(Item) /\ Len(<<msg>>) = 1 /\ Raw(<<msg>>) = m.raw
    BY <1>6, OneItem
  <2> QED BY <2>1, SMT
<1>8. m.raw + 0 = 0 + m.raw
  BY <1>1, SMT
<1> QED BY <1>2, <1>5, <1>7, <1>8 DEF Conserves

\* MultiLineHandler.sendBuffer.
LEMMA SendBufferConserves ==
  ASSUME NEW h \in Handler
  PROVE  /\ SendBuffer(h).han \in Handler /\ SendBuffer(h).han.linesLen = 0 /\ SendBuffer(h).han.mode = h.mode
         /\ SendBuffer(h).msgs \in Seq(Item) /\ Len(SendBuffer(h).msgs) <= 1 /\ Raw(SendBuffer(h).msgs) = h.linesLen
<1> DEFINE content == TrimSpace(h.buf)
           msg == [content |-> content, raw |-> h.linesLen]
<1>0. h.buf \in Text /\ h.linesLen \in Nat
  BY DEF Handler
<1>1. content \in Text
  BY <1>0, TrimText
<1>2. SendBuffer(h).han \in Handler /\ SendBuffer(h).han.linesLen = 0 /\ SendBuffer(h).han.mode = h.mode
  <2>1. 0 \in Nat /\ <<>> \in Text
    BY SMT DEF Text
  <2> DEFINE g == [h EXCEPT !.buf = <<>>, !.linesLen = 0, !.shouldTruncate = FALSE]
  <2>2. SendBuffer(h).han = g
    BY DEF SendBuffer
  <2>3. g \in Handler /\ g.linesLen = 0 /\ g.mode = h.mode
    BY <2>1 DEF Handler
  <2> QED BY <2>2, <2>3
<1>3. SendBuffer(h).msgs = IF content # <<>> \/ h.linesLen > 0 THEN <<msg>> ELSE <<>>
  BY DEF SendBuffer
<1> HIDE DEF content
<1>4. CASE content # <<>> \/ h.linesLen > 0
  <2>1. msg \in Item /\ msg.raw = h.linesLen
    BY <1>0, <1>1 DEF Item
  <2> HIDE DEF msg
  <2>2. <<msg>> \in Seq(Item) /\ Len(<<msg>>) = 1 /\ Raw(<<msg>>) = h.linesLen
    BY <2>1, OneItem
  <2>3. 1 <= 1
    BY SMT
  <2> QED BY <1>2, <1>3, <1>4, <2>2, <2>3
<1>5. CASE ~(content # <<>> \/ h.linesLen > 0)
  <2>1. h.linesLen = 0 /\ 0 <= 1
    BY <1>0, <1>5, SMT
  <2> QED BY <1>2, <1>3, <1>5, <2>1, EmptyChannel
<1> QED BY <1>4, <1>5

\* MultiLineHandler.process: what it has counted is sent before a new entry, and
\* the entry itself when it reaches the limit.
LEMMA MultiLineConserves ==
  ASSUME NEW h \in Handler, NEW m \in Item, h.mode = "multi"
  PROVE  Conserves(h, m.raw, MultiLine(h, m)) /\ MultiLine(h, m).han.mode = "multi"
<1> DEFINE before == IF NewContent(m.content) THEN SendBuffer(h) ELSE [han |-> h, msgs |-> <<>>]
           g == before.han
           feed == IF g.buf # <<>> THEN <<"n">> ELSE <<>>
           buf == g.buf \o feed \o Flag(g.shouldTruncate) \o m.content
           added == [g EXCEPT !.shouldTruncate = FALSE, !.linesLen = @ + m.raw,
                              !.buf = @ \o feed \o Flag(g.shouldTruncate) \o m.content]
           full == [added EXCEPT !.buf = @ \o <<"T">>]
           cut == SendBuffer(full)
<1>0. m.raw \in Nat /\ m.content \in Text /\ h.linesLen \in Nat
  BY DEF Item, Handler
<1>1. /\ g \in Handler /\ g.mode = "multi" /\ before.msgs \in Seq(Item) /\ Len(before.msgs) <= 1
      /\ Raw(before.msgs) + g.linesLen = h.linesLen
  <2>1. CASE NewContent(m.content)
    <3>1. before = SendBuffer(h)
      BY <2>1
    <3> HIDE DEF before
    <3> QED BY <1>0, <3>1, SendBufferConserves, SmallNumbers
  <2>2. CASE ~NewContent(m.content)
    <3>1. before.han = h /\ before.msgs = <<>>
      BY <2>2
    <3>2. 0 <= 1 /\ 0 + h.linesLen = h.linesLen
      BY <1>0, SMT
    <3> HIDE DEF before
    <3> QED BY <3>1, <3>2, EmptyChannel
  <2> QED BY <2>1, <2>2
<1>m. MultiLine(h, m) = IF Len(added.buf) >= contentLenLimit
                        THEN [han |-> [cut.han EXCEPT !.shouldTruncate = TRUE], msgs |-> before.msgs \o cut.msgs]
                        ELSE [han |-> added, msgs |-> before.msgs]
  BY DEF MultiLine
<1> HIDE DEF before
<1>2. added \in Handler /\ added.mode = "multi" /\ added.linesLen = g.linesLen + m.raw
  <2>1. feed \in Text /\ g.buf \in Text /\ g.shouldTruncate \in BOOLEAN /\ g.linesLen \in Nat
    <3>1. <<>> \in Text /\ <<"n">> \in Text
      BY SMT DEF Text, Bytes
    <3> QED BY <1>1, <3>1 DEF Handler
  <2> HIDE DEF feed
  <2>2. buf \in Text
    BY <1>0, <2>1, FlagText, JoinedText
  <2>3. g.linesLen + m.raw \in Nat
    BY <1>0, <2>1, SMT
  <2>4. added = [g EXCEPT !.shouldTruncate = FALSE, !.linesLen = g.linesLen + m.raw, !.buf = buf]
    OBVIOUS
  <2> HIDE DEF buf, g, added
  <2> QED BY <1>1, <2>2, <2>3, <2>4 DEF Handler
<1>3. g.linesLen \in Nat /\ Raw(before.msgs) \in Nat
  BY <1>1, RawIsNat, Lengths DEF Handler
<1>4. CASE Len(added.buf) >= contentLenLimit
  <2> HIDE DEF added, g
  <2>1. full \in Handler /\ full.mode = "multi" /\ full.linesLen = g.linesLen + m.raw
    <3>1. added.buf \o <<"T">> \in Text
      <4>1. <<"T">> \in Text /\ added.buf \in Text
        BY <1>2, SMT DEF Text, Handler
      <4> QED BY <4>1, JoinedText
    <3> QED BY <1>2, <3>1 DEF Handler
  <2> HIDE DEF full
  <2>2. /\ cut.han \in Handler /\ cut.han.linesLen = 0 /\ cut.han.mode = "multi"
        /\ cut.msgs \in Seq(Item) /\ Len(cut.msgs) <= 1 /\ Raw(cut.msgs) = g.linesLen + m.raw
    BY <2>1, SendBufferConserves
  <2> HIDE DEF cut
  <2> DEFINE last == [cut.han EXCEPT !.shouldTruncate = TRUE]
             msgs == before.msgs \o cut.msgs
  <2>3. last \in Handler /\ last.linesLen = 0 /\ last.mode = "multi"
    BY <2>2 DEF Handler
  <2>4. msgs \in Seq(Item) /\ Len(msgs) <= 2 /\ Raw(msgs) = Raw(before.msgs) + (g.linesLen + m.raw)
    BY <1>1, <2>2, JoinedItems
  <2>5. MultiLine(h, m) = [han |-> last, msgs |-> msgs]
    BY <1>m, <1>4
  <2> HIDE DEF last, msgs
  <2>6. Raw(msgs) + last.linesLen = h.linesLen + m.raw
    BY <1>0, <1>1, <1>3, <2>3, <2>4, SMT
  <2> QED BY <2>3, <2>4, <2>5, <2>6 DEF Conserves
<1>5. CASE ~(Len(added.buf) >= contentLenLimit)
  <2> HIDE DEF added, g
  <2>1. Raw(before.msgs) + added.linesLen = h.linesLen + m.raw
    BY <1>0, <1>1, <1>2, <1>3, SMT
  <2>2. Len(before.msgs) <= 2
    BY <1>1, Lengths
  <2>3. MultiLine(h, m) = [han |-> added, msgs |-> before.msgs]
    BY <1>m, <1>5
  <2> QED BY <1>1, <1>2, <2>1, <2>2, <2>3 DEF Conserves
<1> QED BY <1>4, <1>5

\* AutoMultilineHandler.processAndTry, and process of whichever handler it is.
LEMMA ProcessConserves ==
  ASSUME NEW h \in Handler, NEW m \in Item, NEW timeout \in BOOLEAN, h.mode # "multi" => h.linesLen = 0
  PROVE  Conserves(h, m.raw, Process(h, m, timeout))
<1>1. CASE h.mode = "single"
  BY <1>1, SingleLineConserves DEF Process
<1>2. CASE h.mode = "multi"
  BY <1>2, MultiLineConserves DEF Process
<1>3. CASE h.mode = "try"
  <2> DEFINE one == SingleLine(h, m)
             g == [one.han EXCEPT !.tested = @ + 1, !.score = IF NewContent(one.msgs[1].content) THEN @ + 1 ELSE @]
             mode == IF 100 * g.score >= matchThreshold * g.tested THEN "multi" ELSE "single"
             settled == IF mode = "multi" THEN NewHandler("multi") ELSE [g EXCEPT !.mode = "single", !.tested = 0, !.score = 0]
             last == IF g.tested >= linesToAssess \/ timeout THEN settled ELSE g
  <2>1. Process(h, m, timeout) = [han |-> last, msgs |-> one.msgs]
    BY <1>3 DEF Process, ProcessAndTry
  <2>2. Conserves(h, m.raw, one) /\ one.han.linesLen = 0 /\ one.han.mode = "try"
    BY <1>3, SingleLineConserves
  <2> HIDE DEF one
  <2>3. g \in Handler /\ g.linesLen = 0 /\ g.mode = "try"
    <3>1. one.han \in Handler /\ one.han.tested \in Nat /\ one.han.score \in Nat
      BY <2>2 DEF Conserves, Handler
    <3>2. one.han.tested + 1 \in Nat /\ one.han.score + 1 \in Nat
      BY <3>1, SMT
    <3> QED BY <2>2, <3>1, <3>2 DEF Handler
  <2>4. settled \in Handler /\ settled.linesLen = 0
    <3> HIDE DEF g
    <3>1. 0 \in Nat
      BY SMT
    <3>2. [g EXCEPT !.mode = "single", !.tested = 0, !.score = 0] \in Handler
      BY <2>3, <3>1 DEF Handler
    <3>3. [g EXCEPT !.mode = "single", !.tested = 0, !.score = 0].linesLen = 0
      BY <2>3 DEF Handler
    <3> HIDE DEF mode
    <3> QED BY <3>2, <3>3, NewHandlerFields
  <2>5. last \in Handler /\ last.linesLen = 0
    <3> HIDE DEF g, settled
    <3> QED BY <2>3, <2>4
  <2> HIDE DEF last
  <2> QED BY <2>1, <2>2, <2>5 DEF Conserves
<1> QED BY <1>1, <1>2, <1>3 DEF Handler

----------------------------------------------------------------------------
(* The steps of the decoder *)

DecoderRecord == [chunk : Seq(Bytes), i : Nat, j : Nat, maxj : Nat, buf : Seq(Bytes), raw : Nat]

\* The bytes that the decoder was given and has not sent as a line.
Decoding == dec.raw + (Len(dec.chunk) - dec.i)

\* Every part of what is on its way is a number of bytes.
LEMMA Parts ==
  ASSUME DecoderInv
  PROVE  /\ Raw(out) \in Nat /\ han.linesLen \in Nat /\ Raw(parsed) \in Nat /\ par.raw \in Nat /\ Raw(line) \in Nat
         /\ Decoding \in Int /\ decodedOffset \in Nat /\ readOffset \in Nat
         /\ decodedOffset + Raw(out) + han.linesLen + Raw(parsed) + par.raw + Raw(line) + Decoding = readOffset
<1>1. Raw(out) \in Nat /\ Raw(parsed) \in Nat /\ Raw(line) \in Nat
  BY RawIsNat, Lengths DEF DecoderInv, DecoderTypes, LengthsAddUp
<1>2. han.linesLen \in Nat /\ par.raw \in Nat /\ dec.raw \in Nat /\ dec.i \in Nat /\ decodedOffset \in Nat /\ readOffset \in Nat
  BY DEF DecoderInv, DecoderTypes, Handler
<1>3. Len(dec.chunk) \in Nat
  <2>1. dec.chunk \in Seq(Bytes)
    BY DEF DecoderInv, DecoderTypes
  <2> QED BY <2>1, LenProperties
<1> DEFINE n == Len(dec.chunk)
<1>4. decodedOffset + Raw(out) + han.linesLen + Raw(parsed) + par.raw + Raw(line) + dec.raw + (n - dec.i) = readOffset
  BY DEF DecoderInv, LengthsAddUp
<1>5. Decoding = dec.raw + (n - dec.i) /\ n \in Nat
  BY <1>3 DEF Decoding
<1> HIDE DEF n
<1> QED BY <1>1, <1>2, <1>4, <1>5, SMT

\* What is on its way behind the decoder.
Behind == decodedOffset + Raw(out) + han.linesLen + Raw(parsed) + par.raw

\* A sum of numbers.
LEMMA SumOfFive ==
  ASSUME NEW a \in Nat, NEW b \in Nat, NEW c \in Nat, NEW d \in Nat, NEW e \in Nat
  PROVE  a + b + c + d + e \in Nat
BY SMT

\* A step after which the parts add up again.
LEMMA AddsUp ==
  ASSUME DecoderTypes', Len(out') <= 2, Len(parsed') <= 1, Len(line') <= 1,
         dec'.raw = Len(dec'.buf), dec'.raw <= contentLenLimit,
         Behind' + Raw(line') + Decoding' = readOffset'
  PROVE  LengthsAddUp'
<1>1. dec'.raw \in Nat /\ dec'.i \in Nat /\ dec'.chunk \in Seq(Bytes) /\ readOffset' \in Nat
  BY DEF DecoderTypes
<1>2. Behind' \in Nat /\ Raw(line') \in Nat
  <2>1. Raw(out') \in Nat /\ Raw(parsed') \in Nat /\ Raw(line') \in Nat
    BY RawIsNat, Lengths DEF DecoderTypes
  <2>2. han'.linesLen \in Nat /\ par'.raw \in Nat /\ decodedOffset' \in Nat
    BY DEF DecoderTypes, Handler
  <2>3. Behind' = decodedOffset' + Raw(out') + han'.linesLen + Raw(parsed') + par'.raw
    BY DEF Behind
  <2> QED BY <2>1, <2>2, <2>3, SumOfFive
<1> DEFINE k == Len(dec'.chunk)
           b == Behind'
           l == Raw(line')
           r == dec'.raw
           i == dec'.i
           n == readOffset'
<1>3. k \in Nat /\ b \in Nat /\ l \in Nat /\ r \in Nat /\ i \in Nat /\ n \in Nat /\ b + l + (r + (k - i)) = n
  BY <1>1, <1>2, LenProperties DEF Decoding
<1>4. b + l + r + (k - i) = n
  <2> HIDE DEF k, b, l, r, i, n
  <2> QED BY <1>3, SMT
<1>5. Behind' + Raw(line') + dec'.raw + (Len(dec'.chunk) - dec'.i) = readOffset'
  BY <1>4
<1> QED BY <1>5 DEF LengthsAddUp, Behind

\* What they add up to before it.
LEMMA AddedUp ==
  ASSUME DecoderInv
  PROVE  Behind \in Nat /\ Raw(line) \in Nat /\ Decoding \in Int /\ readOffset \in Nat /\ Behind + Raw(line) + Decoding = readOffset
BY Parts, SumOfFive DEF Behind

\* They add up again after the decoder took more from the file and gave some to the parser.
LEMMA DecoderBalance ==
  ASSUME DecoderInv, NEW l \in Nat, NEW d \in Int, NEW n \in Nat, l + d - n = Raw(line) + Decoding - readOffset
  PROVE  Behind + l + d = n
<1> DEFINE a == Behind
           l0 == Raw(line)
           d0 == Decoding
           n0 == readOffset
<1>1. a \in Nat /\ l0 \in Nat /\ d0 \in Int /\ n0 \in Nat /\ a + l0 + d0 = n0 /\ l + d - n = l0 + d0 - n0
  BY AddedUp
<1> SUFFICES a + l + d = n
  OBVIOUS
<1> HIDE DEF a, l0, d0, n0
<1> QED BY <1>1, SMT

\* A step that only the decoder takes part in.
LEMMA DecoderSide ==
  ASSUME DecoderInv, UNCHANGED <<file, life, start, par, parsed, han, out, decodedOffset, sent>>,
         life \in {"running", "InputChan"},
         dec' \in DecoderRecord, line' \in Seq(Item), Len(line') <= 1, readOffset' \in Nat,
         LimitAhead', dec'.raw = Len(dec'.buf), dec'.raw <= contentLenLimit, Decoding' \in Int,
         Raw(line') + Decoding' - readOffset' = Raw(line) + Decoding - readOffset
  PROVE  DecoderInv'
<1>1. DecoderTypes'
  BY DEF DecoderInv, DecoderTypes, DecoderRecord
<1>2. Flushed'
  BY DEF DecoderInv, Flushed
<1>3. Raw(line') \in Nat
  BY RawIsNat, Lengths
<1>4. Behind' = Behind
  BY DEF Behind, Raw
<1>5. Behind + Raw(line') + Decoding' = readOffset'
  BY <1>3, DecoderBalance
<1>6. LengthsAddUp'
  BY <1>1, <1>4, <1>5, AddsUp DEF DecoderInv, LengthsAddUp
<1> QED BY <1>1, <1>2, <1>6 DEF DecoderInv

\* What the decoder has.
LEMMA DecoderHas ==
  ASSUME DecoderInv
  PROVE  /\ dec \in DecoderRecord
         /\ dec.chunk \in Seq(Bytes) /\ dec.buf \in Seq(Bytes) /\ dec.raw \in Nat /\ dec.i \in Nat /\ dec.j \in Nat /\ dec.maxj \in Nat
         /\ Len(dec.chunk) \in Nat /\ Len(dec.buf) = dec.raw /\ dec.raw <= contentLenLimit
         /\ contentLenLimit \in Nat /\ contentLenLimit >= 2
         /\ dec.chunk = <<>> => Len(dec.chunk) = 0 /\ dec.i = 0
         /\ line = <<>> => Raw(line) = 0
<1>1. /\ dec \in DecoderRecord
      /\ dec.chunk \in Seq(Bytes) /\ dec.buf \in Seq(Bytes) /\ dec.raw \in Nat /\ dec.i \in Nat /\ dec.j \in Nat /\ dec.maxj \in Nat
  BY DEF DecoderInv, DecoderTypes, DecoderRecord
<1>2. Len(dec.chunk) \in Nat /\ (dec.chunk = <<>> => Len(dec.chunk) = 0)
  BY <1>1, LenProperties, EmptySeq
<1>3. contentLenLimit \in Nat /\ contentLenLimit >= 2
  BY DecoderAssumption, SMT
<1> QED BY <1>1, <1>2, <1>3, EmptyChannel DEF DecoderInv, LengthsAddUp, LimitAhead

\* Tailer.read.
LEMMA ReadStep ==
  ASSUME DecoderInv, Read
  PROVE  DecoderInv'
<1> DEFINE chunk(n) == SubSeq(file.input, readOffset + 1, readOffset + n)
<1>1. PICK n \in 1..ReadSize :
         /\ readOffset + n <= Len(file.input)
         /\ readOffset' = readOffset + n
         /\ dec' = [dec EXCEPT !.chunk = chunk(n), !.i = 0, !.j = 0, !.maxj = contentLenLimit - Len(dec.buf)]
  BY DEF Read
<1>2. /\ readOffset \in Nat /\ n \in Nat /\ n >= 1 /\ file.input \in Seq(Bytes)
      /\ readOffset + 1 \in Nat /\ readOffset + n \in Nat
  <2>1. file \in Files /\ readOffset \in Nat
    BY DEF DecoderInv, DecoderTypes
  <2>2. file.input \in Seq(Bytes) /\ ReadSize \in Nat
    BY <2>1, DecoderAssumption
  <2>3. n \in Nat /\ n >= 1
    BY <2>2, SMT
  <2> QED BY <2>1, <2>2, <2>3, SMT
<1>3. chunk(n) \in Seq(Bytes) /\ Len(chunk(n)) = n
  <2> DEFINE a == readOffset + 1
             b == readOffset + n
  <2>1. a \in Nat /\ b \in Int /\ a >= 1 /\ a <= b /\ b - a + 1 = n
    BY <1>2, SMT
  <2>2. b <= Len(file.input)
    BY <1>1
  <2> HIDE DEF a, b
  <2>3. SubSeq(file.input, a, b) \in Seq(Bytes) /\ Len(SubSeq(file.input, a, b)) = n
    BY <1>2, <2>1, <2>2, PartOfText
  <2> QED BY <2>3 DEF a, b
<1>4. chunk(n) # <<>>
  <2>1. Len(chunk(n)) # 0
    BY <1>2, <1>3, SMT
  <2> QED BY <2>1, EmptySeq
<1> HIDE DEF chunk
<1> DEFINE m == contentLenLimit - Len(dec.buf)
<1>5. m \in Nat /\ m = 0 + contentLenLimit - Len(dec.buf) /\ 0 <= 0 /\ 0 <= n /\ 0 <= m /\ 0 \in Nat
  <2> DEFINE k == Len(dec.buf)
  <2>1. k \in Nat /\ k <= contentLenLimit /\ contentLenLimit \in Nat
    BY DecoderHas
  <2> HIDE DEF k
  <2>2. contentLenLimit - k \in Nat /\ contentLenLimit - k = 0 + contentLenLimit - k
    BY <2>1, SMT
  <2>3. m \in Nat /\ m = 0 + contentLenLimit - Len(dec.buf)
    BY <2>2 DEF k
  <2> HIDE DEF m
  <2> QED BY <1>2, <2>3, SMT
<1>6. dec' = [dec EXCEPT !.chunk = chunk(n), !.i = 0, !.j = 0, !.maxj = m]
  BY <1>1
<1> HIDE DEF m
<1>7. dec' \in DecoderRecord
  BY <1>3, <1>5, <1>6, DecoderHas DEF DecoderRecord
<1>8. dec'.chunk = chunk(n) /\ dec'.i = 0 /\ dec'.j = 0 /\ dec'.maxj = m /\ dec'.buf = dec.buf /\ dec'.raw = dec.raw
  BY <1>6, DecoderHas DEF DecoderRecord
<1>9. LimitAhead'
  BY <1>3, <1>4, <1>5, <1>8 DEF LimitAhead, m
<1>10. Decoding = dec.raw + (0 - 0) /\ Decoding' = dec.raw + (n - 0)
  BY <1>3, <1>8, DecoderHas DEF Decoding, Read
<1>11. dec.raw \in Nat /\ line = <<>> /\ line' = <<>> /\ Raw(line) = 0 /\ Raw(line') = 0
  BY DecoderHas, EmptyChannel DEF Read
<1>12. Decoding' \in Int /\ Raw(line') + Decoding' - readOffset' = Raw(line) + Decoding - readOffset /\ readOffset' \in Nat
  BY <1>1, <1>2, <1>10, <1>11, SMT
<1>13. line' \in Seq(Item) /\ Len(line') <= 1
  BY <1>11, EmptyChannel, SMT
<1>14. UNCHANGED <<file, life, start, par, parsed, han, out, decodedOffset, sent>> /\ life \in {"running", "InputChan"}
  BY DEF Read
<1>15. dec'.raw = Len(dec'.buf) /\ dec'.raw <= contentLenLimit
  BY <1>8, DecoderHas
<1> QED BY <1>7, <1>9, <1>12, <1>13, <1>14, <1>15, DecoderSide

\* The bytes of the line leave the decoder.
LEMMA LineBalance ==
  ASSUME NEW raw \in Nat, NEW r \in Nat, NEW k \in Nat, NEW h \in Nat, NEW j \in Nat, NEW i \in Nat, NEW n \in Nat,
         raw - (r + (j - h)) = i - j
  PROVE  0 + (k - i) \in Int /\ raw + (0 + (k - i)) - n = 0 + (r + (k - h)) - n
BY SMT

\* sendLine: the line has the bytes from dec.i to the new one.
LEMMA SendsLine ==
  ASSUME DecoderInv, dec.chunk # <<>>, line = <<>>, NEW j \in Nat, dec.j <= j, j < Len(dec.chunk),
         NEW raw \in Nat, NEW i \in {j, j + 1}, raw - decoded(j) = i - j, SendLine(j, raw, i),
         UNCHANGED <<file, life, start, readOffset, par, parsed, han, out, decodedOffset, sent>>
  PROVE  DecoderInv'
<1> DEFINE w == Written(j)
           content == SubSeq(w, 1, Len(w) - (Len(Separator) - 1))
           item == [content |-> content, raw |-> raw]
<1>0. dec.i <= dec.j
  BY DEF DecoderInv, LimitAhead
<1>1. content \in Text
  <2>1. w \in Seq(Bytes)
    <3> DEFINE part == SubSeq(dec.chunk, dec.i + 1, j)
    <3>1. dec.i + 1 \in Nat /\ dec.i + 1 >= 1 /\ j \in Int /\ j <= Len(dec.chunk)
      <4>1. dec.i \in Nat /\ Len(dec.chunk) \in Nat
        BY DecoderHas
      <4> DEFINE a == dec.i
                 k == Len(dec.chunk)
      <4> SUFFICES a + 1 \in Nat /\ a + 1 >= 1 /\ j \in Int /\ j <= k
        OBVIOUS
      <4>2. a \in Nat /\ k \in Nat /\ j < k
        BY <4>1
      <4> HIDE DEF a, k
      <4> QED BY <4>2, SMT
    <3>2. part \in Seq(Bytes)
      BY <3>1, DecoderHas, PartOfText
    <3> QED BY <3>2, DecoderHas, ConcatProperties DEF Written
  <2>2. Len(Separator) - 1 \in {0, 1}
    BY SMT DEF Separator
  <2> DEFINE n == Len(w) - (Len(Separator) - 1)
  <2>3. n \in Int /\ n <= Len(w) /\ 1 \in Nat /\ 1 >= 1
    <3> HIDE DEF w
    <3>1. Len(w) \in Nat
      BY <2>1, LenProperties
    <3> DEFINE k == Len(w)
               c == Len(Separator) - 1
    <3> SUFFICES k - c \in Int /\ k - c <= k /\ 1 \in Nat /\ 1 >= 1
      OBVIOUS
    <3>2. k \in Nat /\ c \in {0, 1}
      BY <2>2, <3>1
    <3> HIDE DEF k, c
    <3> QED BY <3>2, SMT
  <2> HIDE DEF w, n
  <2>4. SubSeq(w, 1, n) \in Seq(Bytes)
    BY <2>1, <2>3, PartOfText
  <2> QED BY <2>4, BytesAreText DEF n
<1>2. line' = <<item>> /\ dec' = [dec EXCEPT !.buf = <<>>, !.raw = 0, !.i = i, !.j = j + 1, !.maxj = i + contentLenLimit]
  BY DEF SendLine
<1> HIDE DEF content
<1>3. item \in Item /\ item.raw = raw
  BY <1>1 DEF Item
<1> HIDE DEF item
<1>4. line' \in Seq(Item) /\ Len(line') <= 1 /\ Raw(line') = raw
  <2>1. line' \in Seq(Item) /\ Len(line') = 1 /\ Raw(line') = raw
    BY <1>2, <1>3, OneItem
  <2>2. 1 <= 1
    BY SMT
  <2> QED BY <2>1, <2>2
<1>5. dec' \in DecoderRecord /\ dec'.chunk = dec.chunk /\ dec'.i = i /\ dec'.j = j + 1 /\ dec'.maxj = i + contentLenLimit /\ dec'.buf = <<>> /\ dec'.raw = 0
  <2>1. i \in Nat /\ j + 1 \in Nat /\ i + contentLenLimit \in Nat /\ 0 \in Nat
    BY DecoderAssumption, SMT
  <2>2. <<>> \in Seq(Bytes)
    BY EmptySeq
  <2> QED BY <1>2, <2>1, <2>2, DecoderHas DEF DecoderRecord
<1>6. LimitAhead'
  <2> DEFINE k == Len(dec.chunk)
  <2>1. k \in Nat /\ contentLenLimit \in Nat /\ contentLenLimit >= 2 /\ j < k
    BY DecoderHas
  <2> HIDE DEF k
  <2>2. i <= j + 1 /\ j + 1 <= k /\ j + 1 <= i + contentLenLimit /\ i + contentLenLimit = i + contentLenLimit - 0
    BY <2>1, SMT
  <2>3. Len(<<>>) = 0
    BY EmptyChannel
  <2> QED BY <1>5, <2>2, <2>3 DEF LimitAhead, k
<1>7. Decoding' \in Int /\ Raw(line') + Decoding' - readOffset' = Raw(line) + Decoding - readOffset
  <2> DEFINE k == Len(dec.chunk)
  <2>1. Decoding = dec.raw + (k - dec.i) /\ Decoding' = 0 + (k - i) /\ decoded(j) = dec.raw + (j - dec.i)
    BY <1>5 DEF Decoding, decoded
  <2>2. k \in Nat /\ dec.raw \in Nat /\ dec.i \in Nat /\ Raw(line) = 0 /\ readOffset \in Nat /\ readOffset' = readOffset
    BY DecoderHas, Parts
  <2> HIDE DEF k
  <2>3. i \in Nat
    BY SMT
  <2> DEFINE r == dec.raw
             h == dec.i
             n == readOffset
  <2>4. r \in Nat /\ h \in Nat /\ n \in Nat /\ k \in Nat /\ raw - (r + (j - h)) = i - j
    BY <2>1, <2>2
  <2> HIDE DEF r, h, n
  <2>5. 0 + (k - i) \in Int /\ raw + (0 + (k - i)) - n = 0 + (r + (k - h)) - n
    BY <2>3, <2>4, LineBalance
  <2> QED BY <1>4, <2>1, <2>2, <2>5 DEF r, h, n
<1>8. dec'.raw = Len(dec'.buf) /\ dec'.raw <= contentLenLimit
  BY <1>5, EmptyChannel, DecoderAssumption, SMT
<1>9. life \in {"running", "InputChan"} /\ readOffset' \in Nat
  BY DEF DecoderInv, DecoderTypes, Flushed
<1> QED BY <1>4, <1>5, <1>6, <1>7, <1>8, <1>9, DecoderSide

\* The loop of decodeIncomingData up to a line.
LEMMA DecodeLineStep ==
  ASSUME DecoderInv, DecodeLine
  PROVE  DecoderInv'
<1> DEFINE j == Min(Stops)
           k == Len(dec.chunk)
<1>0. dec.chunk # <<>> /\ line = <<>> /\ Stops # {} /\ dec.i <= dec.j
  BY DEF DecodeLine, DecoderInv, LimitAhead
<1>1. dec.j \in Nat /\ k \in Nat /\ dec.i \in Nat /\ dec.raw \in Nat
  BY DecoderHas
<1>2. j \in dec.j .. k - 1
  <2>1. Stops \subseteq dec.j .. k - 1
    BY DEF Stops
  <2>2. dec.j .. k - 1 \subseteq Nat
    <3> HIDE DEF k
    <3> QED BY <1>1, SMT
  <2>3. Stops \in SUBSET Nat
    BY <2>1, <2>2
  <2>4. j \in Stops
    BY <1>0, <2>3, MinIsLeast
  <2> QED BY <2>1, <2>4
<1>3. UNCHANGED <<file, life, start, readOffset, par, parsed, han, out, decodedOffset, sent>>
  BY DEF DecodeLine
<1>4. SendLine(j, decoded(j), j) \/ SendLine(j, decoded(j) + 1, j + 1)
  BY DEF DecodeLine
<1>5. decoded(j) = dec.raw + (j - dec.i)
  BY DEF decoded
<1> HIDE DEF j, k
<1>6. /\ j \in Nat /\ dec.j <= j /\ j < k
      /\ decoded(j) \in Nat /\ decoded(j) + 1 \in Nat
      /\ decoded(j) - decoded(j) = j - j /\ (decoded(j) + 1) - decoded(j) = (j + 1) - j
  <2> DEFINE x == decoded(j)
             h == dec.i
             q == dec.j
             r == dec.raw
  <2>1. h \in Nat /\ q \in Nat /\ k \in Nat /\ r \in Nat /\ h <= q /\ j \in q .. k - 1 /\ x = r + (j - h)
    BY <1>0, <1>1, <1>2, <1>5
  <2> HIDE DEF x, h, q, r
  <2>2. /\ j \in Nat /\ q <= j /\ j < k
        /\ x \in Nat /\ x + 1 \in Nat /\ x - x = j - j /\ (x + 1) - x = (j + 1) - j
    BY <2>1, SMT
  <2> QED BY <2>2 DEF x, q
<1>7. j < Len(dec.chunk)
  BY <1>6 DEF k
<1>8. CASE SendLine(j, decoded(j), j)
  BY <1>0, <1>3, <1>6, <1>7, <1>8, SendsLine
<1>9. CASE SendLine(j, decoded(j) + 1, j + 1)
  BY <1>0, <1>3, <1>6, <1>7, <1>9, SendsLine
<1> QED BY <1>4, <1>8, <1>9

\* The rest of the chunk stays in the line buffer, which it does not overflow:
\* the loop would have stopped at maxj.
LEMMA DecodeRestStep ==
  ASSUME DecoderInv, DecodeRest
  PROVE  DecoderInv'
<1> DEFINE n == Len(dec.chunk)
           part == SubSeq(dec.chunk, dec.i + 1, n)
           w == Written(n)
<1>0. /\ dec.chunk # <<>> /\ line = <<>> /\ line' = line /\ Stops = {} /\ dec.i <= dec.j /\ dec.j <= n /\ dec.j <= dec.maxj
      /\ dec.maxj = dec.i + contentLenLimit - Len(dec.buf)
  BY DEF DecodeRest, DecoderInv, LimitAhead
<1>1. /\ dec.j \in Nat /\ n \in Nat /\ dec.i \in Nat /\ dec.raw \in Nat /\ dec.maxj \in Nat /\ Len(dec.buf) = dec.raw
      /\ contentLenLimit \in Nat /\ dec.raw <= contentLenLimit
  BY DecoderHas
<1>2. /\ dec.i + 1 \in Nat /\ dec.i + 1 >= 1 /\ n \in Int /\ n <= n
      /\ (IF dec.i + 1 <= n THEN n - (dec.i + 1) + 1 ELSE 0) = n - dec.i
      /\ LET x == dec.raw + (n - dec.i) IN x \in Nat /\ x \in Int /\ x <= contentLenLimit /\ x + (0 - 0) = x
  <2>1. dec.maxj \notin dec.j .. n - 1
    BY <1>0 DEF Stops
  <2>2. dec.maxj = dec.i + contentLenLimit - dec.raw
    BY <1>0, <1>1
  <2> DEFINE h == dec.i
             q == dec.j
             r == dec.raw
             m == dec.maxj
  <2>3. /\ h \in Nat /\ q \in Nat /\ n \in Nat /\ r \in Nat /\ m \in Nat /\ contentLenLimit \in Nat
        /\ h <= q /\ q <= n /\ q <= m /\ m = h + contentLenLimit - r /\ m \notin q .. n - 1
    BY <1>0, <1>1, <2>1, <2>2
  <2> HIDE DEF h, q, r, m, n
  <2>4. /\ h + 1 \in Nat /\ h + 1 >= 1 /\ n \in Int /\ n <= n
        /\ (IF h + 1 <= n THEN n - (h + 1) + 1 ELSE 0) = n - h
    BY <2>3, SMT
  <2>5. LET x == r + (n - h) IN x \in Nat /\ x \in Int /\ x <= contentLenLimit /\ x + (0 - 0) = x
    BY <2>3, SMT
  <2> QED BY <2>4, <2>5 DEF h, r
<1>3. part \in Seq(Bytes) /\ Len(part) = n - dec.i
  <2> DEFINE a == dec.i + 1
  <2>1. part \in Seq(Bytes) /\ Len(part) = IF a <= n THEN n - a + 1 ELSE 0
    BY <1>2, DecoderHas, PartOfText
  <2> QED BY <1>2, <2>1
<1>4. w \in Seq(Bytes) /\ Len(w) = dec.raw + (n - dec.i)
  <2>1. w = dec.buf \o part
    BY DEF Written
  <2>2. dec.buf \in Seq(Bytes)
    BY DecoderHas
  <2> DEFINE b == dec.buf
  <2>3. b \in Seq(Bytes) /\ part \in Seq(Bytes)
    BY <1>3, <2>2
  <2> HIDE DEF part, b
  <2>4. b \o part \in Seq(Bytes) /\ Len(b \o part) = Len(b) + Len(part)
    BY <2>3, ConcatProperties
  <2> QED BY <1>1, <1>3, <2>1, <2>4 DEF b
<1>5. dec' = [NewDecoder EXCEPT !.buf = w, !.raw = decoded(n)] /\ decoded(n) = dec.raw + (n - dec.i)
  BY DEF DecodeRest, decoded
<1> HIDE DEF w, part
<1>6. decoded(n) \in Nat /\ decoded(n) \in Int /\ decoded(n) <= contentLenLimit /\ decoded(n) + (0 - 0) = decoded(n)
  BY <1>2, <1>5
<1>7. /\ dec' \in DecoderRecord /\ dec'.chunk = <<>> /\ dec'.i = 0 /\ dec'.buf = w /\ dec'.raw = decoded(n)
  <2>1. 0 \in Nat /\ <<>> \in Seq(Bytes)
    BY EmptySeq, SMT
  <2> HIDE DEF n
  <2>2. NewDecoder \in DecoderRecord
    BY <2>1 DEF NewDecoder, DecoderRecord
  <2>3. NewDecoder.chunk = <<>> /\ NewDecoder.i = 0
    BY DEF NewDecoder
  <2> QED BY <1>4, <1>5, <1>6, <2>2, <2>3 DEF DecoderRecord
<1>8. LimitAhead'
  BY <1>7 DEF LimitAhead
<1>9. dec'.raw = Len(dec'.buf) /\ dec'.raw <= contentLenLimit
  BY <1>4, <1>5, <1>6, <1>7
<1>10. Decoding' \in Int /\ Raw(line') + Decoding' - readOffset' = Raw(line) + Decoding - readOffset
  <2>1. Decoding' = decoded(n) + (0 - 0) /\ Decoding = decoded(n)
    BY <1>5, <1>7, EmptyChannel DEF Decoding
  <2>2. readOffset' = readOffset /\ Raw(line') = Raw(line)
    BY <1>0 DEF DecodeRest
  <2> QED BY <1>6, <2>1, <2>2
<1>11. /\ UNCHANGED <<file, life, start, par, parsed, han, out, decodedOffset, sent>> /\ life \in {"running", "InputChan"}
       /\ readOffset' \in Nat /\ line' \in Seq(Item) /\ Len(line') <= 1
  <2>1. UNCHANGED <<file, life, start, readOffset, par, parsed, han, out, decodedOffset, sent, line>>
    BY DEF DecodeRest
  <2> QED BY <1>0, <2>1 DEF DecoderInv, DecoderTypes, Flushed, LengthsAddUp
<1> QED BY <1>7, <1>8, <1>9, <1>10, <1>11, DecoderSide

----------------------------------------------------------------------------
(* The steps behind the decoder *)

\* A step that the decoder takes no part in.
LEMMA BehindSide ==
  ASSUME DecoderInv, UNCHANGED <<file, start, readOffset, dec>>, DecoderTypes', Flushed',
         Len(out') <= 2, Len(parsed') <= 1, Len(line') <= 1,
         Behind' + Raw(line') = Behind + Raw(line)
  PROVE  DecoderInv'
<1>1. LimitAhead' /\ Decoding' = Decoding /\ dec'.raw = Len(dec'.buf) /\ dec'.raw <= contentLenLimit
  BY DEF DecoderInv, LimitAhead, Decoding, LengthsAddUp
<1>2. Behind' + Raw(line') + Decoding' = readOffset'
  BY <1>1, AddedUp
<1>3. LengthsAddUp'
  BY <1>1, <1>2, AddsUp
<1> QED BY <1>1, <1>3 DEF DecoderInv

\* What the others have.
LEMMA OthersHave ==
  ASSUME DecoderInv
  PROVE  /\ line \in Seq(Item) /\ parsed \in Seq(Item) /\ out \in Seq(Item)
         /\ Len(line) <= 1 /\ Len(parsed) <= 1 /\ Len(out) <= 2
         /\ line # <<>> => line[1] \in Item /\ Raw(line) = line[1].raw
         /\ parsed # <<>> => parsed[1] \in Item /\ Raw(parsed) = parsed[1].raw
         /\ par \in [buf : Text, raw : Nat] /\ han \in Handler
<1>1. line \in Seq(Item) /\ parsed \in Seq(Item) /\ out \in Seq(Item) /\ Len(line) <= 1 /\ Len(parsed) <= 1 /\ Len(out) <= 2
  BY DEF DecoderInv, DecoderTypes, LengthsAddUp
<1>2. ASSUME NEW c \in Seq(Item), Len(c) <= 1, c # <<>> PROVE c[1] \in Item /\ Raw(c) = c[1].raw
  <2>1. Len(c) = 1 /\ Len(c) <= 2
    BY <1>2, Lengths
  <2> QED BY <1>2, <2>1, FirstItem
<1>3. par \in [buf : Text, raw : Nat] /\ han \in Handler
  BY DEF DecoderInv, DecoderTypes
<1>4. /\ line # <<>> => line[1] \in Item /\ Raw(line) = line[1].raw
      /\ parsed # <<>> => parsed[1] \in Item /\ Raw(parsed) = parsed[1].raw
  BY <1>1, <1>2
<1> QED BY <1>1, <1>3, <1>4

\* The bytes before and after the parser.
LEMMA ParserBalance ==
  ASSUME DecoderInv, UNCHANGED <<decodedOffset, out, han>>, NEW d \in Nat, NEW e \in Nat, NEW f \in Nat,
         Raw(parsed') = d, par'.raw = e, Raw(line') = f, d + e + f = Raw(parsed) + par.raw + Raw(line)
  PROVE  Behind' + Raw(line') = Behind + Raw(line)
<1> DEFINE a == decodedOffset
           b == Raw(out)
           c == han.linesLen
           d0 == Raw(parsed)
           e0 == par.raw
           f0 == Raw(line)
<1>1. a \in Nat /\ b \in Nat /\ c \in Nat /\ d0 \in Nat /\ e0 \in Nat /\ f0 \in Nat /\ d + e + f = d0 + e0 + f0
  BY Parts
<1>2. Behind = a + b + c + d0 + e0 /\ Behind' = a + b + c + d + e
  BY DEF Behind
<1>3. a + b + c + d + e + f = a + b + c + d0 + e0 + f0
  <2> HIDE DEF a, b, c, d0, e0, f0
  <2> QED BY <1>1, SMT
<1> QED BY <1>2, <1>3

\* MultiLineParser.sendLine loses nothing: what is not sent has no bytes.
LEMMA BufferedConserves ==
  ASSUME NEW p \in [buf : Text, raw : Nat]
  PROVE  Buffered(p) \in Seq(Item) /\ Len(Buffered(p)) <= 1 /\ Raw(Buffered(p)) = p.raw
<1>0. p.buf \in Text /\ p.raw \in Nat
  OBVIOUS
<1>1. CASE p.buf # <<>> \/ p.raw > 0
  <2> DEFINE m == [content |-> p.buf, raw |-> p.raw]
  <2>1. m \in Item /\ m.raw = p.raw /\ Buffered(p) = <<m>>
    BY <1>0, <1>1 DEF Item, Buffered
  <2> HIDE DEF m
  <2>2. 1 <= 1
    BY SMT
  <2> QED BY <2>1, <2>2, OneItem
<1>2. CASE ~(p.buf # <<>> \/ p.raw > 0)
  <2>1. p.raw = 0 /\ 0 <= 1
    BY <1>0, <1>2, SMT
  <2>2. Buffered(p) = <<>>
    BY <1>2 DEF Buffered
  <2> QED BY <2>1, <2>2, EmptyChannel
<1> QED BY <1>1, <1>2

\* An empty parser.
LEMMA NewParserFields == NewParser \in [buf : Text, raw : Nat] /\ NewParser.raw = 0 /\ NewParser.buf = <<>>
<1>1. 0 \in Nat /\ <<>> \in Text
  BY SMT DEF Text
<1> QED BY <1>1 DEF NewParser

\* A line is joined to the partial ones before it, or all of them are sent.
LEMMA ParseLineStep ==
  ASSUME DecoderInv, ParseLine
  PROVE  DecoderInv'
<1> DEFINE input == line[1]
           p == [buf |-> par.buf \o Parse(input.content), raw |-> par.raw + input.raw]
<1>0. line # <<>> /\ parsed = <<>> /\ line' = <<>> /\ life \in {"running", "InputChan"}
  BY DEF ParseLine, DecoderInv, Flushed
<1>1. /\ input \in Item /\ Raw(line) = input.raw /\ input.raw \in Nat /\ input.content \in Text
      /\ par.buf \in Text /\ par.raw \in Nat /\ Raw(parsed) = 0
  BY <1>0, OthersHave, EmptyChannel DEF Item
<1>2. p \in [buf : Text, raw : Nat] /\ p.raw = par.raw + input.raw
  <2>1. par.buf \o Parse(input.content) \in Text
    BY <1>1, ParsedText, JoinedText
  <2>2. par.raw + input.raw \in Nat
    <3> DEFINE a == par.raw
               b == input.raw
    <3>1. a \in Nat /\ b \in Nat
      BY <1>1
    <3> HIDE DEF a, b
    <3>2. a + b \in Nat
      BY <3>1, SMT
    <3> QED BY <3>2 DEF a, b
  <2> QED BY <2>1, <2>2
<1>3. (par' = p /\ parsed' = parsed) \/ (par' = NewParser /\ parsed' = Buffered(p))
  BY DEF ParseLine
<1>4. UNCHANGED <<file, life, start, readOffset, dec, han, out, decodedOffset, sent>>
  BY DEF ParseLine
<1> HIDE DEF p, input
<1>5. /\ par' \in [buf : Text, raw : Nat] /\ parsed' \in Seq(Item) /\ Len(parsed') <= 1
      /\ (Raw(parsed') = 0 /\ par'.raw = p.raw) \/ (Raw(parsed') = p.raw /\ par'.raw = 0)
  <2>1. CASE par' = p /\ parsed' = parsed
    BY <1>1, <1>2, <2>1, OthersHave
  <2>2. CASE par' = NewParser /\ parsed' = Buffered(p)
    BY <1>2, <2>2, BufferedConserves, NewParserFields
  <2> QED BY <1>3, <2>1, <2>2
<1>6. line' \in Seq(Item) /\ Len(line') <= 1 /\ Raw(line') = 0
  <2>1. 0 <= 1
    BY SMT
  <2> QED BY <1>0, <2>1, EmptyChannel
<1>7. DecoderTypes'
  BY <1>4, <1>5, <1>6 DEF DecoderInv, DecoderTypes
<1>8. Flushed'
  BY <1>0, <1>4 DEF DecoderInv, Flushed
<1>9. Behind' + Raw(line') = Behind + Raw(line)
  <2> DEFINE d == Raw(parsed')
             e == par'.raw
             n == p.raw
             b == par.raw
             f == input.raw
  <2>1. /\ n = b + f /\ b \in Nat /\ f \in Nat /\ n \in Nat
        /\ (d = 0 /\ e = n) \/ (d = n /\ e = 0)
    BY <1>1, <1>2, <1>5
  <2> HIDE DEF d, e, n, b, f
  <2>2. d \in Nat /\ e \in Nat /\ 0 \in Nat /\ d + e + 0 = 0 + b + f
    BY <2>1, SMT
  <2>3. d + e + 0 = Raw(parsed) + par.raw + Raw(line)
    BY <1>1, <2>2 DEF b, f
  <2> QED BY <1>4, <1>6, <2>2, <2>3, ParserBalance DEF d, e
<1>10. Len(out') <= 2
  BY <1>4, OthersHave
<1> QED BY <1>4, <1>5, <1>6, <1>7, <1>8, <1>9, <1>10, BehindSide

\* The parser sends what it holds: its timer, or its end.
LEMMA ParserFlushes ==
  ASSUME DecoderInv, parsed = <<>>, parsed' = Buffered(par), par' = NewParser,
         UNCHANGED <<file, start, readOffset, dec, line, han, out, decodedOffset, sent>>,
         life' = life \/ (life = "parser" /\ life' = "handler"), life \in {"running", "InputChan", "parser"}
  PROVE  DecoderInv'
<1>1. parsed' \in Seq(Item) /\ Len(parsed') <= 1 /\ Raw(parsed') = par.raw /\ par.raw \in Nat
  BY OthersHave, BufferedConserves
<1>2. par' \in [buf : Text, raw : Nat] /\ par'.raw = 0 /\ par'.buf = <<>>
  BY NewParserFields
<1>3. DecoderTypes'
  BY <1>1, <1>2 DEF DecoderInv, DecoderTypes
<1>4. Flushed'
  BY <1>2 DEF DecoderInv, Flushed
<1>5. Behind' + Raw(line') = Behind + Raw(line)
  <2> DEFINE e == par.raw
             f == Raw(line)
  <2>1. e \in Nat /\ f \in Nat /\ Raw(parsed) = 0
    BY <1>1, Parts, EmptyChannel
  <2> HIDE DEF e, f
  <2>2. e + 0 + f = 0 + e + f /\ 0 \in Nat
    BY <2>1, SMT
  <2>3. e + 0 + f = Raw(parsed) + par.raw + Raw(line)
    BY <2>1, <2>2 DEF e, f
  <2>4. Raw(parsed') = e /\ par'.raw = 0 /\ Raw(line') = f
    BY <1>1, <1>2 DEF e, f
  <2> QED BY <2>1, <2>2, <2>3, <2>4, ParserBalance
<1>6. Len(out') <= 2 /\ Len(line') <= 1
  BY OthersHave
<1> QED BY <1>1, <1>3, <1>4, <1>5, <1>6, BehindSide

\* flushTimer of the parser, and the end of its run.
LEMMA ParserStep ==
  ASSUME DecoderInv, ParserTimeout \/ ParserStops
  PROVE  DecoderInv'
<1>1. CASE ParserTimeout
  BY <1>1, ParserFlushes DEF ParserTimeout
<1>2. CASE ParserStops
  BY <1>2, ParserFlushes DEF ParserStops
<1> QED BY <1>1, <1>2

\* The bytes before and after the handler.
LEMMA HandlerBalance ==
  ASSUME DecoderInv, UNCHANGED <<decodedOffset, line, par>>, NEW b \in Nat, NEW c \in Nat, NEW d \in Nat,
         Raw(out') = b, han'.linesLen = c, Raw(parsed') = d, b + c + d = Raw(out) + han.linesLen + Raw(parsed)
  PROVE  Behind' + Raw(line') = Behind + Raw(line)
<1> DEFINE a == decodedOffset
           b0 == Raw(out)
           c0 == han.linesLen
           d0 == Raw(parsed)
           e == par.raw
           f == Raw(line)
<1>1. a \in Nat /\ b0 \in Nat /\ c0 \in Nat /\ d0 \in Nat /\ e \in Nat /\ f \in Nat /\ b + c + d = b0 + c0 + d0
  BY Parts
<1>2. Behind = a + b0 + c0 + d0 + e /\ Behind' = a + b + c + d + e
  BY DEF Behind
<1>3. a + b + c + d + e + f = a + b0 + c0 + d0 + e + f
  <2> HIDE DEF a, b0, c0, d0, e, f
  <2> QED BY <1>1, SMT
<1> QED BY <1>2, <1>3

\* process of the handler.
LEMMA HandleLineStep ==
  ASSUME DecoderInv, HandleLine
  PROVE  DecoderInv'
<1>0. parsed # <<>> /\ out = <<>> /\ parsed' = <<>> /\ UNCHANGED <<file, life, start, readOffset, dec, line, par, decodedOffset, sent>>
  BY DEF HandleLine
<1> DEFINE m == parsed[1]
<1>1. m \in Item /\ Raw(parsed) = m.raw /\ m.raw \in Nat /\ han \in Handler /\ (han.mode # "multi" => han.linesLen = 0) /\ Raw(out) = 0
  BY <1>0, OthersHave, EmptyChannel DEF Item, DecoderInv, Flushed
<1>2. PICK timeout \in BOOLEAN : han' = Process(han, m, timeout).han /\ out' = Process(han, m, timeout).msgs
  BY DEF HandleLine
<1> DEFINE done == Process(han, m, timeout)
<1>3. Conserves(han, m.raw, done)
  BY <1>1, ProcessConserves
<1> HIDE DEF m
<1>4. /\ han' \in Handler /\ out' \in Seq(Item) /\ Len(out') <= 2
      /\ Raw(out') + han'.linesLen = han.linesLen + m.raw /\ (han'.mode # "multi" => han'.linesLen = 0)
  BY <1>2, <1>3 DEF Conserves
<1>5. parsed' \in Seq(Item) /\ Len(parsed') <= 1 /\ Raw(parsed') = 0
  <2>1. 0 <= 1
    BY SMT
  <2> QED BY <1>0, <2>1, EmptyChannel
<1>6. DecoderTypes'
  BY <1>0, <1>4, <1>5 DEF DecoderInv, DecoderTypes
<1>7. Flushed'
  BY <1>0, <1>4 DEF DecoderInv, Flushed
<1>8. Behind' + Raw(line') = Behind + Raw(line)
  <2> DEFINE b == Raw(out')
             c == han'.linesLen
             c0 == han.linesLen
             d0 == m.raw
  <2>1. b \in Nat /\ c \in Nat /\ c0 \in Nat /\ d0 \in Nat /\ b + c = c0 + d0
    BY <1>1, <1>4, RawIsNat DEF Handler
  <2> HIDE DEF b, c, c0, d0
  <2>2. b + c + 0 = 0 + c0 + d0 /\ 0 \in Nat
    BY <2>1, SMT
  <2>3. b + c + 0 = Raw(out) + han.linesLen + Raw(parsed)
    BY <1>1, <2>2 DEF c0, d0
  <2> QED BY <1>0, <1>5, <2>1, <2>2, <2>3, HandlerBalance DEF b, c
<1>9. Len(line') <= 1
  BY <1>0, OthersHave
<1> QED BY <1>0, <1>4, <1>5, <1>6, <1>7, <1>8, <1>9, BehindSide

\* The handler sends what it holds: its timer, or its end.
LEMMA HandlerFlushes ==
  ASSUME DecoderInv, han.mode = "multi", out = <<>>, han' = SendBuffer(han).han, out' = SendBuffer(han).msgs,
         UNCHANGED <<file, start, readOffset, dec, line, par, parsed, decodedOffset, sent>>,
         life' = life \/ (life = "handler" /\ life' = "outputChan" /\ parsed = <<>>), life \notin {"outputChan", "done"}
  PROVE  DecoderInv'
<1>1. /\ han' \in Handler /\ han'.linesLen = 0 /\ out' \in Seq(Item) /\ Len(out') <= 1 /\ Raw(out') = han.linesLen
      /\ han.linesLen \in Nat /\ Raw(out) = 0
  BY OthersHave, SendBufferConserves, EmptyChannel DEF Handler
<1>2. Len(out') <= 2
  BY <1>1, Lengths
<1>3. DecoderTypes'
  BY <1>1 DEF DecoderInv, DecoderTypes
<1>4. Flushed'
  BY <1>1 DEF DecoderInv, Flushed
<1>5. Behind' + Raw(line') = Behind + Raw(line)
  <2> DEFINE c == han.linesLen
             d == Raw(parsed)
  <2>1. c \in Nat /\ d \in Nat
    BY Parts
  <2> HIDE DEF c, d
  <2>2. c + 0 + d = 0 + c + d /\ 0 \in Nat
    BY <2>1, SMT
  <2>3. c + 0 + d = Raw(out) + han.linesLen + Raw(parsed)
    BY <1>1, <2>2 DEF c, d
  <2>4. Raw(out') = c /\ han'.linesLen = 0 /\ Raw(parsed') = d
    BY <1>1 DEF c, d
  <2> QED BY <2>1, <2>2, <2>3, <2>4, HandlerBalance
<1>6. Len(parsed') <= 1 /\ Len(line') <= 1
  BY OthersHave
<1> QED BY <1>2, <1>3, <1>4, <1>5, <1>6, BehindSide

\* A channel is closed, and nothing moves.
LEMMA OnlyLifeChanges ==
  ASSUME DecoderInv, UNCHANGED <<file, start, readOffset, dec, line, par, parsed, han, out, decodedOffset, sent>>, Flushed'
  PROVE  DecoderInv'
<1>1. DecoderTypes' /\ LimitAhead' /\ LengthsAddUp'
  BY DEF DecoderInv, DecoderTypes, LimitAhead, LengthsAddUp, Raw
<1> QED BY <1>1 DEF DecoderInv

\* flushTimer of the handler, and the end of its run.
LEMMA HandlerStep ==
  ASSUME DecoderInv, HandlerTimeout \/ HandlerStops
  PROVE  DecoderInv'
<1>1. CASE HandlerTimeout
  BY <1>1, HandlerFlushes DEF HandlerTimeout
<1>2. CASE HandlerStops /\ han.mode = "multi"
  BY <1>2, HandlerFlushes DEF HandlerStops
<1>3. CASE HandlerStops /\ han.mode # "multi"
  <2>1. Flushed'
    BY <1>3 DEF HandlerStops, DecoderInv, Flushed
  <2> QED BY <1>3, <2>1, OnlyLifeChanges DEF HandlerStops
<1> QED BY <1>1, <1>2, <1>3

\* Tailer.Stop, and the ends of the goroutines that hold nothing.
LEMMA StopStep ==
  ASSUME DecoderInv, Stop \/ DecoderStops \/ ForwardStops
  PROVE  DecoderInv'
<1>1. Flushed'
  BY DEF Stop, DecoderStops, ForwardStops, DecoderInv, Flushed
<1> QED BY <1>1, OnlyLifeChanges DEF Stop, DecoderStops, ForwardStops

\* forwardMessages moves decodedOffset by the bytes of the message.
LEMMA ForwardStep ==
  ASSUME DecoderInv, ForwardMessage
  PROVE  DecoderInv'
<1> DEFINE m == out[1]
           msg == [from |-> decodedOffset, offset |-> decodedOffset + m.raw, content |-> m.content]
<1>0. /\ out # <<>> /\ out' = Tail(out) /\ decodedOffset' = decodedOffset + m.raw
      /\ sent' = IF m.content = <<>> THEN sent ELSE Append(sent, msg)
      /\ UNCHANGED <<file, life, start, readOffset, dec, line, par, parsed, han>>
  BY DEF ForwardMessage
<1>1. m \in Item /\ out' \in Seq(Item) /\ Len(out') <= 1 /\ Raw(out) = m.raw + Raw(out')
  BY <1>0, OthersHave, FirstItem
<1>2. m.raw \in Nat /\ m.content \in Text /\ decodedOffset \in Nat
  BY <1>1 DEF Item, DecoderInv, DecoderTypes
<1>3. Len(out') <= 2 /\ Raw(out') \in Nat
  BY <1>1, Lengths, RawIsNat
<1> HIDE DEF m
<1>4. /\ decodedOffset + m.raw \in Nat
      /\ Behind' + Raw(line') = Behind + Raw(line)
  <2> DEFINE a == decodedOffset
             x == m.raw
             b == Raw(out')
             c == han.linesLen
             d == Raw(parsed)
             e == par.raw
  <2>1. a \in Nat /\ x \in Nat /\ b \in Nat /\ c \in Nat /\ d \in Nat /\ e \in Nat
    BY <1>2, <1>3, Parts
  <2>2. Behind = a + (x + b) + c + d + e /\ Behind' = (a + x) + b + c + d + e /\ Raw(line') = Raw(line)
    BY <1>0, <1>1 DEF Behind
  <2> HIDE DEF a, x, b, c, d, e
  <2>3. a + (x + b) + c + d + e = (a + x) + b + c + d + e /\ a + x \in Nat
    BY <2>1, SMT
  <2> QED BY <2>2, <2>3 DEF a, x
<1>5. sent' \in Seq([from : Nat, offset : Nat, content : Text])
  <2>1. msg \in [from : Nat, offset : Nat, content : Text]
    BY <1>2, <1>4
  <2>2. sent \in Seq([from : Nat, offset : Nat, content : Text])
    BY DEF DecoderInv, DecoderTypes
  <2> HIDE DEF msg
  <2> QED BY <1>0, <2>1, <2>2, AppendProperties
<1>6. DecoderTypes'
  BY <1>0, <1>1, <1>4, <1>5 DEF DecoderInv, DecoderTypes
<1>7. Flushed'
  BY <1>0 DEF DecoderInv, Flushed
<1>8. Len(parsed') <= 1 /\ Len(line') <= 1
  BY <1>0, OthersHave
<1> QED BY <1>0, <1>3, <1>4, <1>6, <1>7, <1>8, BehindSide

----------------------------------------------------------------------------
(* The theorems *)

\* A tailer that begins to read at offset n.
Begins(n) ==
  /\ file \in Files /\ life = "running"
  /\ start = n /\ readOffset = n /\ decodedOffset = n
  /\ dec = NewDecoder /\ par = NewParser /\ han = NewHandler(file.handler)
  /\ line = <<>> /\ parsed = <<>> /\ out = <<>> /\ sent = <<>>

NewTailer == \E n \in Nat : Begins(n)

\* It has the invariant.
LEMMA BeginsWell == NewTailer => DecoderInv
<1> SUFFICES ASSUME NEW n \in Nat, Begins(n) PROVE DecoderInv
  BY DEF NewTailer
<1>1. file.handler \in {"single", "multi", "try"}
  BY DecoderAssumption DEF Begins
<1>2. han \in Handler /\ han.linesLen = 0 /\ par \in [buf : Text, raw : Nat] /\ par.raw = 0 /\ par.buf = <<>>
  BY <1>1, NewHandlerFields, NewParserFields DEF Begins
<1>3. 0 \in Nat /\ <<>> \in Seq(Bytes) /\ Len(<<>>) = 0 /\ 0 <= 1 /\ 0 <= 2 /\ 0 <= contentLenLimit
  BY EmptySeq, DecoderAssumption, SMT
<1>4. dec \in DecoderRecord /\ dec.chunk = <<>> /\ dec.buf = <<>> /\ dec.i = 0 /\ dec.raw = 0
  BY <1>3 DEF Begins, NewDecoder, DecoderRecord
<1>5. DecoderTypes
  <2>1. <<>> \in Seq([from : Nat, offset : Nat, content : Text])
    BY EmptySeq
  <2> QED BY <1>2, <1>4, <2>1, EmptyChannel DEF Begins, DecoderTypes, DecoderRecord
<1>6. LimitAhead /\ Flushed
  BY <1>2, <1>4 DEF Begins, LimitAhead, Flushed
<1>7. LengthsAddUp
  <2>1. n + 0 + 0 + 0 + 0 + 0 + 0 + (0 - 0) = n
    BY SMT
  <2> QED BY <1>2, <1>3, <1>4, <2>1, EmptyChannel DEF Begins, LengthsAddUp
<1> QED BY <1>5, <1>6, <1>7 DEF DecoderInv

\* The next tailer begins at an offset that was sent, or where this one began.
LEMMA RestartStep ==
  ASSUME DecoderInv, Restart
  PROVE  DecoderInv'
<1>1. PICK n \in {start} \cup {m.offset : m \in Range(sent)} : start' = n /\ readOffset' = n /\ decodedOffset' = n
  BY DEF Restart
<1>2. n \in Nat
  <2>1. start \in Nat /\ sent \in Seq([from : Nat, offset : Nat, content : Text])
    BY DEF DecoderInv, DecoderTypes
  <2>2. \A k \in DOMAIN sent : sent[k].offset \in Nat
    <3> DEFINE S == [from : Nat, offset : Nat, content : Text]
    <3>1. sent \in Seq(S) /\ \A m \in S : m.offset \in Nat
      BY <2>1
    <3> HIDE DEF S
    <3>2. \A k \in DOMAIN sent : sent[k] \in S
      BY <3>1, LenProperties, ElementOfSeq
    <3> QED BY <3>1, <3>2
  <2> QED BY <2>1, <2>2 DEF Range
<1>3. Begins(n)'
  BY <1>1 DEF Restart, Begins, DecoderInv, DecoderTypes
<1>4. (NewTailer => DecoderInv)'
  BY BeginsWell, PTL
<1> QED BY <1>2, <1>3, <1>4 DEF NewTailer

\* The first tailer begins at the beginning of the file.
LEMMA InitDecoder == Init => DecoderInv
<1> SUFFICES ASSUME Init PROVE DecoderInv
  OBVIOUS
<1>1. 0 \in Nat
  BY SMT
<1>2. Begins(0)
  BY DEF Init, Begins
<1> QED BY <1>1, <1>2, BeginsWell DEF NewTailer

\* Every step preserves the invariant.
LEMMA NextDecoder == DecoderInv /\ [Next]_vars => DecoderInv'
<1> SUFFICES ASSUME DecoderInv, [Next]_vars PROVE DecoderInv'
  OBVIOUS
<1>1. CASE Read
  BY <1>1, ReadStep
<1>2. CASE DecodeLine
  BY <1>2, DecodeLineStep
<1>3. CASE DecodeRest
  BY <1>3, DecodeRestStep
<1>4. CASE ParseLine
  BY <1>4, ParseLineStep
<1>5. CASE ParserTimeout \/ ParserStops
  BY <1>5, ParserStep
<1>6. CASE HandleLine
  BY <1>6, HandleLineStep
<1>7. CASE HandlerTimeout \/ HandlerStops
  BY <1>7, HandlerStep
<1>8. CASE ForwardMessage
  BY <1>8, ForwardStep
<1>9. CASE Stop \/ DecoderStops \/ ForwardStops
  BY <1>9, StopStep
<1>10. CASE Restart
  BY <1>10, RestartStep
<1>11. CASE UNCHANGED vars
  <2>1. Flushed'
    BY <1>11 DEF vars, DecoderInv, Flushed
  <2> QED BY <1>11, <2>1, OnlyLifeChanges DEF vars
<1> QED BY <1>1, <1>2, <1>3, <1>4, <1>5, <1>6, <1>7, <1>8, <1>9, <1>10, <1>11 DEF Next, Steps

\* The invariant of the goroutines between a log file and its pipeline.
THEOREM DecoderInvariant == Spec => []DecoderInv
BY InitDecoder, NextDecoder, PTL DEF Spec

\* Every byte that Tailer.read returned is accounted for exactly once on its way
\* through decoder, parser, handler and forwardMessages, for every content of the
\* file and every way to cut it into reads; the line buffer stays within
\* contentLenLimit.
THEOREM LengthsAddUpAlways == Spec => []LengthsAddUp
<1>1. DecoderInv => LengthsAddUp
  BY DEF DecoderInv
<1> QED BY <1>1, DecoderInvariant, PTL

\* When Tailer.Stop has returned, everything before the line that is still
\* incomplete was forwarded.
THEOREM StopFlushesAlways == Spec => []StopFlushes
<1>1. DecoderInv => StopFlushes
  <2> SUFFICES ASSUME DecoderInv, life = "done" PROVE decodedOffset = readOffset - dec.raw
    BY DEF StopFlushes
  <2>1. dec.chunk = <<>> /\ line = <<>> /\ parsed = <<>> /\ out = <<>> /\ par.raw = 0 /\ han.linesLen = 0 /\ dec.i = 0
    BY DEF DecoderInv, Flushed, LimitAhead
  <2> DEFINE a == decodedOffset
             r == dec.raw
             n == readOffset
  <2>2. a + 0 + 0 + 0 + 0 + 0 + r + (0 - 0) = n
    BY <2>1, EmptyChannel DEF DecoderInv, LengthsAddUp
  <2>3. a \in Nat /\ r \in Nat /\ n \in Nat
    BY DEF DecoderInv, DecoderTypes
  <2>4. a = n - r
    <3> HIDE DEF a, r, n
    <3> QED BY <2>2, <2>3, SMT
  <2> QED BY <2>4
<1> QED BY <1>1, DecoderInvariant, PTL

----------------------------------------------------------------------------
(* The visible bytes of a text *)

\* Induction, for a set of numbers.
LEMMA AllNumbers ==
  ASSUME NEW A, 0 \in A, \A n \in Nat : n \in A => n + 1 \in A
  PROVE  \A n \in Nat : n \in A
<1> DEFINE S == {n \in Nat : n \notin A}
<1> SUFFICES ASSUME S # {} PROVE FALSE
  OBVIOUS
<1>1. Min(S) \in S /\ \A y \in S : Min(S) <= y
  <2>1. S \in SUBSET Nat
    OBVIOUS
  <2> HIDE DEF S
  <2> QED BY <2>1, MinIsLeast
<1>2. Min(S) # 0
  BY <1>1
<1>3. Min(S) - 1 \in Nat /\ ~(Min(S) <= Min(S) - 1) /\ (Min(S) - 1) + 1 = Min(S)
  BY <1>1, <1>2, SMT
<1>4. Min(S) - 1 \in A
  BY <1>1, <1>3
<1> QED BY <1>1, <1>3, <1>4

\* v gives the visible bytes among the first k of s.
Letters == {"x", "b"}
Grows(v, s, k) == IF s[k] \in Letters THEN Append(v[k - 1], s[k]) ELSE v[k - 1]
Selects(v, s) == v = [k \in 0..Len(s) |-> IF k = 0 THEN <<>> ELSE Grows(v, s, k)]

\* Visible is the value of such a v.
LEMMA VisibleIs == ASSUME NEW s PROVE Visible(s) = (CHOOSE v : Selects(v, s))[Len(s)]
BY DEF Visible, Selects, Grows, Letters

\* The same for the first n bytes.
SelectsUpTo(v, s, n) == v[0] = <<>> /\ \A k \in 1..n : v[k] = Grows(v, s, k)

\* There is such a v.
LEMMA SelectionExists ==
  ASSUME NEW s, Len(s) \in Nat
  PROVE  \E v : Selects(v, s)
<1> DEFINE A == {n \in Nat : \E v : SelectsUpTo(v, s, n)}
<1>1. 0 \in A
  <2> DEFINE v == [k \in {0} |-> <<>>]
  <2>1. v[0] = <<>> /\ 1..0 = {}
    BY SMT
  <2>2. SelectsUpTo(v, s, 0)
    BY <2>1 DEF SelectsUpTo
  <2> QED BY <2>2
<1>2. ASSUME NEW n \in Nat, n \in A PROVE n + 1 \in A
  <2>1. PICK v : SelectsUpTo(v, s, n)
    BY <1>2
  <2> DEFINE w == [k \in 0 .. n + 1 |-> IF k = n + 1 THEN Grows(v, s, k) ELSE v[k]]
  <2>2. /\ n + 1 \in Nat /\ 0 \in 0 .. n + 1 /\ 0 # n + 1 /\ n + 1 \in 0 .. n + 1 /\ (n + 1) - 1 \in 0 .. n + 1 /\ (n + 1) - 1 # n + 1
        /\ \A k \in 1 .. n + 1 : k # n + 1 => k \in 1..n /\ k \in 0 .. n + 1 /\ k - 1 \in 0 .. n + 1 /\ k - 1 # n + 1
    BY SMT
  <2>3. w[0] = <<>>
    BY <2>1, <2>2 DEF SelectsUpTo
  <2>4. ASSUME NEW k \in 1 .. n + 1 PROVE w[k] = Grows(w, s, k)
    <3>1. CASE k = n + 1
      <4>1. w[n + 1] = Grows(v, s, n + 1) /\ w[(n + 1) - 1] = v[(n + 1) - 1]
        BY <2>2
      <4> HIDE DEF w
      <4> QED BY <3>1, <4>1 DEF Grows
    <3>2. CASE k # n + 1
      <4>1. w[k] = v[k] /\ w[k - 1] = v[k - 1]
        BY <2>2, <3>2
      <4>2. v[k] = Grows(v, s, k)
        BY <2>1, <2>2, <3>2 DEF SelectsUpTo
      <4> HIDE DEF w
      <4> QED BY <4>1, <4>2 DEF Grows
    <3> QED BY <3>1, <3>2
  <2> HIDE DEF w
  <2>5. SelectsUpTo(w, s, n + 1)
    BY <2>3, <2>4 DEF SelectsUpTo
  <2> QED BY <2>2, <2>5
<1>3. Len(s) \in A
  <2> HIDE DEF A
  <2> QED BY <1>1, <1>2, AllNumbers
<1>4. PICK v : SelectsUpTo(v, s, Len(s))
  BY <1>3
<1> DEFINE w == [k \in 0 .. Len(s) |-> v[k]]
<1>5. \A k \in 0 .. Len(s) : k # 0 => k \in 1 .. Len(s) /\ k - 1 \in 0 .. Len(s)
  BY SMT
<1>6. \A k \in 0 .. Len(s) : w[k] = IF k = 0 THEN <<>> ELSE Grows(w, s, k)
  BY <1>4, <1>5 DEF SelectsUpTo, Grows
<1>7. Selects(w, s)
  BY <1>6 DEF Selects
<1> QED BY <1>7

\* What it gives up to k depends only on the first k bytes.
LEMMA SelectionsAgree ==
  ASSUME NEW s, NEW t, Len(s) \in Nat, Len(t) \in Nat, NEW v, Selects(v, s), NEW w, Selects(w, t),
         NEW m \in Nat, m <= Len(s), m <= Len(t), \A k \in 1..m : s[k] = t[k]
  PROVE  v[m] = w[m]
<1> DEFINE A == {n \in Nat : n <= m => v[n] = w[n]}
<1>1. 0 \in A
  <2>1. 0 \in 0 .. Len(s) /\ 0 \in 0 .. Len(t) /\ 0 \in Nat
    BY SMT
  <2> QED BY <2>1 DEF Selects
<1>2. ASSUME NEW n \in Nat, n \in A PROVE n + 1 \in A
  <2>0. n + 1 \in Nat
    BY SMT
  <2> SUFFICES ASSUME n + 1 <= m PROVE v[n + 1] = w[n + 1]
    BY <2>0
  <2>1. n <= m /\ n + 1 \in 0 .. Len(s) /\ n + 1 \in 0 .. Len(t) /\ n + 1 \in 1..m /\ (n + 1) - 1 = n /\ n + 1 # 0
    BY SMT
  <2>2. v[n] = w[n] /\ s[n + 1] = t[n + 1]
    BY <1>2, <2>1
  <2>3. v[n + 1] = Grows(v, s, n + 1) /\ w[n + 1] = Grows(w, t, n + 1)
    BY <2>1 DEF Selects
  <2> QED BY <2>1, <2>2, <2>3 DEF Grows
<1>3. m \in A
  <2> HIDE DEF A
  <2> QED BY <1>1, <1>2, AllNumbers
<1>4. m <= m
  BY SMT
<1> QED BY <1>3, <1>4

\* No byte, no visible byte.
LEMMA VisibleOfNone == Visible(<<>>) = <<>>
<1>1. Len(<<>>) = 0 /\ 0 \in Nat /\ 0 \in 0..0
  BY SMT
<1>2. PICK v : v = (CHOOSE u : Selects(u, <<>>))
  OBVIOUS
<1>3. Selects(v, <<>>)
  BY <1>1, <1>2, SelectionExists
<1>4. v[0] = <<>>
  BY <1>1, <1>3 DEF Selects
<1> QED BY <1>1, <1>2, <1>4, VisibleIs

\* One more byte.
LEMMA VisibleAppend ==
  ASSUME NEW S, NEW s \in Seq(S), NEW c \in S
  PROVE  Visible(Append(s, c)) = IF c \in Letters THEN Append(Visible(s), c) ELSE Visible(s)
<1> DEFINE t == Append(s, c)
           n == Len(s)
<1>1. n \in Nat /\ Len(t) = n + 1 /\ t[n + 1] = c /\ \A k \in 1..n : t[k] = s[k]
  BY AppendProperties, LenProperties, SMT
<1>2. /\ n + 1 \in Nat /\ n <= n /\ n <= n + 1 /\ n + 1 \in 0 .. n + 1 /\ n + 1 # 0 /\ (n + 1) - 1 = n
  BY <1>1, SMT
<1> HIDE DEF t, n
<1>3. PICK v : v = (CHOOSE u : Selects(u, s))
  OBVIOUS
<1>4. PICK w : w = (CHOOSE u : Selects(u, t))
  OBVIOUS
<1>5. Selects(v, s) /\ Visible(s) = v[n]
  BY <1>1, <1>3, SelectionExists, VisibleIs DEF n
<1>6. Selects(w, t) /\ Visible(t) = w[n + 1]
  BY <1>1, <1>2, <1>4, SelectionExists, VisibleIs
<1>7. v[n] = w[n]
  BY <1>1, <1>2, <1>5, <1>6, SelectionsAgree DEF n
<1>8. w[n + 1] = Grows(w, t, n + 1)
  BY <1>1, <1>2, <1>6 DEF Selects
<1>9. Grows(w, t, n + 1) = IF c \in Letters THEN Append(w[n], c) ELSE w[n]
  BY <1>1, <1>2 DEF Grows
<1> QED BY <1>5, <1>6, <1>7, <1>8, <1>9 DEF t

\* Induction, for a set of texts.
LEMMA AllTexts ==
  ASSUME NEW S, NEW A, <<>> \in A, \A s \in Seq(S) : \A c \in S : s \in A => Append(s, c) \in A
  PROVE  \A s \in Seq(S) : s \in A
<1> DEFINE B == {n \in Nat : \A s \in Seq(S) : Len(s) = n => s \in A}
<1>1. 0 \in B
  BY EmptySeq
<1>2. ASSUME NEW n \in Nat, n \in B PROVE n + 1 \in B
  <2>0. n + 1 \in Nat /\ n + 1 # 0
    BY SMT
  <2> SUFFICES ASSUME NEW s \in Seq(S), Len(s) = n + 1 PROVE s \in A
    BY <2>0
  <2>1. s # <<>>
    BY <2>0, EmptySeq
  <2>2. PICK t \in Seq(S), c \in S : s = Append(t, c)
    BY <2>1, SequenceEmptyOrAppend
  <2>3. Len(s) = Len(t) + 1 /\ Len(t) \in Nat
    BY <2>2, AppendProperties, LenProperties
  <2>4. Len(t) = n
    BY <2>3, SMT
  <2> QED BY <1>2, <2>2, <2>4
<1>3. \A n \in Nat : n \in B
  <2> HIDE DEF B
  <2> QED BY <1>1, <1>2, AllNumbers
<1> QED BY <1>3, LenProperties

\* The visible bytes are some of the bytes.
LEMMA VisibleType ==
  ASSUME NEW S, NEW s \in Seq(S)
  PROVE  Visible(s) \in Seq(S)
<1> DEFINE A == {t \in Seq(S) : Visible(t) \in Seq(S)}
<1>1. <<>> \in A
  BY VisibleOfNone, EmptySeq
<1>2. ASSUME NEW t \in Seq(S), NEW c \in S, t \in A PROVE Append(t, c) \in A
  <2>1. Visible(Append(t, c)) = IF c \in Letters THEN Append(Visible(t), c) ELSE Visible(t)
    BY VisibleAppend
  <2>2. Visible(t) \in Seq(S)
    BY <1>2
  <2>3. Append(t, c) \in Seq(S) /\ Append(Visible(t), c) \in Seq(S)
    BY <2>2, AppendProperties
  <2> QED BY <2>1, <2>2, <2>3
<1>3. \A t \in Seq(S) : t \in A
  <2> HIDE DEF A
  <2> QED BY <1>1, <1>2, AllTexts
<1> QED BY <1>3

\* Two texts, one after the other.
LEMMA VisibleJoined ==
  ASSUME NEW S, NEW s \in Seq(S), NEW t \in Seq(S)
  PROVE  Visible(s \o t) = Visible(s) \o Visible(t)
<1> DEFINE A == {u \in Seq(S) : Visible(s \o u) = Visible(s) \o Visible(u)}
<1>1. <<>> \in A
  BY VisibleOfNone, VisibleType, EmptySeq, ConcatEmptySeq
<1>2. ASSUME NEW u \in Seq(S), NEW c \in S, u \in A PROVE Append(u, c) \in A
  <2>0. <<c>> \in Seq(S)
    BY SMT
  <2>1. /\ Append(u, c) \in Seq(S) /\ s \o u \in Seq(S) /\ <<c>> \in Seq(S)
        /\ Visible(s) \in Seq(S) /\ Visible(u) \in Seq(S)
    BY <2>0, AppendProperties, ConcatProperties, VisibleType
  <2>2. s \o Append(u, c) = Append(s \o u, c)
    <3>1. Append(u, c) = u \o <<c>> /\ Append(s \o u, c) = (s \o u) \o <<c>>
      BY <2>1, AppendIsConcat
    <3>2. (s \o u) \o <<c>> = s \o (u \o <<c>>)
      BY <2>1, ConcatAssociative
    <3> QED BY <3>1, <3>2
  <2>3. Visible(s \o u) = Visible(s) \o Visible(u)
    BY <1>2
  <2>4. Visible(Append(s \o u, c)) = IF c \in Letters THEN Append(Visible(s \o u), c) ELSE Visible(s \o u)
    BY <2>1, VisibleAppend
  <2>5. Visible(Append(u, c)) = IF c \in Letters THEN Append(Visible(u), c) ELSE Visible(u)
    BY VisibleAppend
  <2>6. Visible(s) \o Append(Visible(u), c) = Append(Visible(s) \o Visible(u), c)
    <3>1. Append(Visible(u), c) = Visible(u) \o <<c>>
      BY <2>1, AppendIsConcat
    <3>2. Visible(s) \o Visible(u) \in Seq(S)
      BY <2>1, ConcatProperties
    <3>3. Append(Visible(s) \o Visible(u), c) = (Visible(s) \o Visible(u)) \o <<c>>
      BY <3>2, AppendIsConcat
    <3>4. (Visible(s) \o Visible(u)) \o <<c>> = Visible(s) \o (Visible(u) \o <<c>>)
      BY <2>1, ConcatAssociative
    <3> QED BY <3>1, <3>3, <3>4
  <2> QED BY <2>1, <2>2, <2>3, <2>4, <2>5, <2>6
<1>3. \A u \in Seq(S) : u \in A
  <2> HIDE DEF A
  <2> QED BY <1>1, <1>2, AllTexts
<1> QED BY <1>3

\* A text with no visible byte.
LEMMA Invisible ==
  ASSUME NEW S, NEW s \in Seq(S), \A k \in 1..Len(s) : s[k] \notin Letters
  PROVE  Visible(s) = <<>>
<1> DEFINE A == {t \in Seq(S) : (\A k \in 1..Len(t) : t[k] \notin Letters) => Visible(t) = <<>>}
<1>1. <<>> \in A
  BY VisibleOfNone, EmptySeq
<1>2. ASSUME NEW t \in Seq(S), NEW c \in S, t \in A PROVE Append(t, c) \in A
  <2> DEFINE u == Append(t, c)
  <2>1. u \in Seq(S) /\ Len(u) = Len(t) + 1 /\ u[Len(t) + 1] = c /\ Len(t) \in Nat /\ \A k \in 1..Len(t) : u[k] = t[k]
    BY AppendProperties, LenProperties
  <2>2. Len(t) + 1 \in 1 .. Len(t) + 1 /\ \A k \in 1..Len(t) : k \in 1 .. Len(t) + 1
    BY <2>1, SMT
  <2>3. Visible(u) = IF c \in Letters THEN Append(Visible(t), c) ELSE Visible(t)
    BY VisibleAppend
  <2> HIDE DEF u
  <2> SUFFICES ASSUME \A k \in 1..Len(u) : u[k] \notin Letters PROVE Visible(u) = <<>>
    BY <2>1 DEF u
  <2>4. c \notin Letters /\ \A k \in 1..Len(t) : t[k] \notin Letters
    BY <2>1, <2>2
  <2> QED BY <1>2, <2>3, <2>4
<1>3. \A t \in Seq(S) : t \in A
  <2> HIDE DEF A
  <2> QED BY <1>1, <1>2, AllTexts
<1> QED BY <1>3

\* Nothing visible before or after.
LEMMA VisibleAround ==
  ASSUME NEW S, NEW s \in Seq(S), NEW t \in Seq(S)
  PROVE  /\ Visible(s) = <<>> => Visible(s \o t) = Visible(t)
         /\ Visible(t) = <<>> => Visible(s \o t) = Visible(s)
<1>1. Visible(s \o t) = Visible(s) \o Visible(t) /\ Visible(s) \in Seq(S) /\ Visible(t) \in Seq(S)
  BY VisibleJoined, VisibleType
<1>2. <<>> \o Visible(t) = Visible(t) /\ Visible(s) \o <<>> = Visible(s)
  BY <1>1, ConcatEmptySeq
<1> QED BY <1>1, <1>2

\* TrimSpace leaves out nothing that is visible.
LEMMA VisibleTrimmed ==
  ASSUME NEW s \in Text
  PROVE  Visible(TrimSpace(s)) = Visible(s)
<1> DEFINE B == Bytes \cup {"T"}
           kept == {k \in DOMAIN s : s[k] # "n"}
           n == Len(s)
<1>1. s \in Seq(B) /\ n \in Nat /\ DOMAIN s = 1..n /\ kept \in SUBSET (1..n) /\ 1..n \subseteq Nat
  BY LenProperties, SMT DEF Text
<1>2. "n" \notin Letters
  BY DEF Letters
<1>3. CASE kept = {}
  <2>1. \A k \in 1..n : s[k] \notin Letters
    BY <1>1, <1>2, <1>3
  <2>2. TrimSpace(s) = <<>>
    BY <1>3 DEF TrimSpace
  <2> HIDE DEF kept, B
  <2>3. Visible(s) = <<>>
    BY <1>1, <2>1, Invisible
  <2> QED BY <2>2, <2>3, VisibleOfNone
<1>4. CASE kept # {}
  <2> DEFINE a == Min(kept)
             b == Max(kept)
             u == SubSeq(s, 1, a - 1)
             v == SubSeq(s, a, b)
             w == SubSeq(s, b + 1, n)
  <2>1. a \in kept /\ \A y \in kept : a <= y
    <3>1. kept \in SUBSET Nat
      BY <1>1
    <3> HIDE DEF kept
    <3> QED BY <1>4, <3>1, MinIsLeast
  <2>2. b \in kept /\ \A y \in kept : b >= y
    <3> HIDE DEF kept
    <3> QED BY <1>1, <1>4, MaxIsGreatest
  <2>3. a \in 1..n /\ b \in 1..n /\ a <= b
    BY <1>1, <2>1, <2>2
  <2>4. \A k \in 1..n : k < a \/ k > b => s[k] = "n"
    <3> SUFFICES ASSUME NEW k \in 1..n, k < a \/ k > b PROVE k \notin kept
      BY <1>1
    <3>1. ~(a <= k) \/ ~(b >= k)
      BY <1>1, <2>3, SMT
    <3> QED BY <2>1, <2>2, <3>1
  <2>5. TrimSpace(s) = v
    BY <1>4 DEF TrimSpace
  <2> HIDE DEF kept, a, b, B
  <2>6. u \in Seq(B) /\ v \in Seq(B) /\ w \in Seq(B) /\ s = u \o (v \o w)
    <3>1. /\ 1 \in 1 .. n + 1 /\ a - 1 \in 1 - 1 .. n /\ n \in a - 1 .. n /\ (a - 1) + 1 = a
          /\ a \in 1 .. n + 1 /\ b \in a - 1 .. n /\ n \in b .. n
      BY <1>1, <2>3, SMT
    <3>2. SubSeq(s, 1, n) = s
      BY <1>1, SubSeqFull
    <3>3. u \o SubSeq(s, a, n) = SubSeq(s, 1, n)
      BY <1>1, <3>1, ConcatAdjacentSubSeq
    <3>4. v \o w = SubSeq(s, a, n)
      BY <1>1, <3>1, ConcatAdjacentSubSeq
    <3>5. /\ 1 \in Nat /\ a \in Nat /\ b + 1 \in Nat /\ a - 1 \in Int /\ b \in Int /\ n \in Int
          /\ 1 >= 1 /\ a >= 1 /\ b + 1 >= 1 /\ a - 1 <= n /\ b <= n /\ n <= n
      BY <1>1, <2>3, SMT
    <3>6. u \in Seq(B) /\ v \in Seq(B) /\ w \in Seq(B)
      BY <1>1, <3>5, PartOfText
    <3> QED BY <3>2, <3>3, <3>4, <3>6
  <2>7. Visible(u) = <<>>
    <3>1. \A k \in 1 .. a - 1 : s[k] \in B
      BY <1>1, <2>3, ElementOfSeq, SMT
    <3>2. Len(u) = a - 1 /\ \A k \in 1 .. a - 1 : u[k] = s[k]
      BY <1>1, <2>3, <3>1, SMT
    <3>3. \A k \in 1 .. a - 1 : k \in 1..n /\ k < a
      BY <1>1, <2>3, SMT
    <3>4. \A k \in 1 .. Len(u) : u[k] \notin Letters
      BY <1>2, <2>4, <3>2, <3>3
    <3> HIDE DEF u
    <3> QED BY <2>6, <3>4, Invisible
  <2>8. Visible(w) = <<>>
    <3>1. Len(w) = n - b /\ \A k \in 1 .. n - b : w[k] = s[b + k]
      BY <1>1, <2>3, SMT
    <3>2. \A k \in 1 .. n - b : b + k \in 1..n /\ b + k > b
      BY <1>1, <2>3, SMT
    <3>3. \A k \in 1 .. Len(w) : w[k] \notin Letters
      BY <1>2, <2>4, <3>1, <3>2
    <3> HIDE DEF w
    <3> QED BY <2>6, <3>3, Invisible
  <2> HIDE DEF u, v, w
  <2>9. v \o w \in Seq(B)
    BY <2>6, ConcatProperties
  <2>10. Visible(u \o (v \o w)) = Visible(v \o w)
    BY <2>6, <2>7, <2>9, VisibleAround
  <2>11. Visible(v \o w) = Visible(v)
    BY <2>6, <2>8, VisibleAround
  <2> QED BY <2>5, <2>6, <2>10, <2>11
<1> QED BY <1>3, <1>4

\* truncatedFlag and a line feed are not visible.
LEMMA VisibleMarks == /\ \A b \in BOOLEAN : Visible(Flag(b)) = <<>>
                      /\ <<"n">> \in Text /\ Visible(<<"n">>) = <<>> /\ <<"T">> \in Text /\ Visible(<<"T">>) = <<>>
<1> DEFINE B == Bytes \cup {"T"}
<1>1. ASSUME NEW c \in {"n", "T"} PROVE <<c>> \in Seq(B) /\ Visible(<<c>>) = <<>>
  <2>1. c \in B /\ c \notin Letters
    BY DEF Letters, Bytes
  <2>2. Append(<<>>, c) = <<c>> /\ <<>> \in Seq(B) /\ <<c>> \in Seq(B)
    BY <2>1, SMT
  <2> HIDE DEF B
  <2>3. Visible(Append(<<>>, c)) = Visible(<<>>)
    BY <2>1, <2>2, VisibleAppend
  <2> QED BY <2>2, <2>3, VisibleOfNone
<1> QED BY <1>1, VisibleOfNone DEF Flag, Text

\* Neither is the header of a container line.
LEMMA VisibleParsed ==
  ASSUME NEW s \in Text, file.parser # "utf16"
  PROVE  Visible(Parse(s)) = Visible(s)
<1>1. CASE HasHeader(s)
  <2>1. s # <<>> /\ s[1] \in {"p", "f"} /\ Parse(s) = Tail(s)
    BY <1>1 DEF HasHeader, Parse
  <2> DEFINE c == s[1]
             B == Bytes \cup {"T"}
             t == Tail(s)
  <2>2. c \in B /\ c \notin Letters /\ s \in Seq(B)
    BY <2>1 DEF Letters, Bytes, Text
  <2>3. <<c>> \in Seq(B) /\ t \in Seq(B) /\ s = <<c>> \o t /\ Append(<<>>, c) = <<c>> /\ <<>> \in Seq(B)
    <3> HIDE DEF B
    <3>1. <<c>> \in Seq(B) /\ t \in Seq(B)
      BY <2>1, <2>2, HeadTailProperties, SMT
    <3> QED BY <2>1, <2>2, <3>1, SMT
  <2> HIDE DEF c, B, t
  <2>4. Visible(<<c>>) = <<>>
    <3>1. <<>> \in Seq(B) /\ c \in B
      BY <2>2, <2>3
    <3>2. Visible(Append(<<>>, c)) = IF c \in Letters THEN Append(Visible(<<>>), c) ELSE Visible(<<>>)
      BY <3>1, VisibleAppend
    <3> QED BY <2>2, <2>3, <3>2, VisibleOfNone
  <2>5. Visible(<<c>> \o t) = Visible(t)
    BY <2>3, <2>4, VisibleAround
  <2> QED BY <2>1, <2>3, <2>5 DEF t
<1>2. CASE ~HasHeader(s)
  BY <1>2 DEF Parse
<1> QED BY <1>1, <1>2

----------------------------------------------------------------------------
(* What the decoder holds of the file *)

\* Bytes m to n of s are those of f, d bytes further on.
Agree(s, f, d, m, n) == \A k \in m..n : s[k] = f[d + k]

\* s is the n elements of f after p.
IsPart(s, f, p, n, S) == s \in Seq(S) /\ Len(s) = n /\ s = SubSeq(f, p + 1, p + n)

\* Two parts of a text, one after the other, are a part of it.
LEMMA PartsJoin ==
  ASSUME NEW S, NEW f \in Seq(S), NEW b \in Seq(S), NEW c \in Seq(S), NEW p \in Nat, NEW i \in Nat, NEW j \in Nat,
         i <= j, j <= Len(c), p + Len(b) + (j - i) <= Len(f),
         Agree(b, f, p, 1, Len(b)), Agree(c, f, p + Len(b) - i, i + 1, j)
  PROVE  IsPart(b \o SubSeq(c, i + 1, j), f, p, Len(b) + (j - i), S)
<1> DEFINE n == Len(b)
           m == n + (j - i)
           u == SubSeq(c, i + 1, j)
           v == SubSeq(f, p + 1, p + m)
           w == b \o u
<1>1. n \in Nat /\ Len(c) \in Nat /\ Len(f) \in Nat
  BY LenProperties
<1>2. /\ i + 1 \in Nat /\ i + 1 >= 1 /\ j \in Int
      /\ p + 1 \in Nat /\ p + 1 >= 1 /\ p + m \in Int /\ p + m <= Len(f) /\ m \in Nat
      /\ (IF i + 1 <= j THEN j - (i + 1) + 1 ELSE 0) = j - i
      /\ (IF p + 1 <= p + m THEN p + m - (p + 1) + 1 ELSE 0) = m
      /\ j - i \in Nat
  BY <1>1, SMT
<1>3. u \in Seq(S) /\ Len(u) = j - i
  <2>1. u \in Seq(S) /\ Len(u) = IF i + 1 <= j THEN j - (i + 1) + 1 ELSE 0
    BY <1>2, PartOfText
  <2> QED BY <1>2, <2>1
<1>4. v \in Seq(S) /\ Len(v) = m
  <2> HIDE DEF m
  <2>1. v \in Seq(S) /\ Len(v) = IF p + 1 <= p + m THEN p + m - (p + 1) + 1 ELSE 0
    BY <1>2, PartOfText
  <2> QED BY <1>2, <2>1
<1>5. \A k \in 1 .. j - i : u[k] = c[i + k]
  BY <1>1, SMT
<1>6. \A k \in 1 .. m : v[k] = f[p + k]
  BY <1>1, SMT
<1> HIDE DEF u, v
<1>7. w \in Seq(S) /\ Len(w) = m /\ \A k \in 1..m : w[k] = IF k <= n THEN b[k] ELSE u[k - n]
  <2>1. /\ w \in Seq(S) /\ Len(w) = n + Len(u)
        /\ \A k \in 1 .. n + Len(u) : w[k] = IF k <= n THEN b[k] ELSE u[k - n]
    BY <1>3, ConcatProperties
  <2> QED BY <1>3, <2>1
<1>8. ASSUME NEW k \in 1..m PROVE w[k] = v[k]
  <2>1. CASE k <= n
    <3>1. k \in 1..n
      BY <1>1, <1>2, <2>1, SMT
    <3> QED BY <1>6, <1>7, <2>1, <3>1 DEF Agree
  <2>2. CASE ~(k <= n)
    <3>1. k - n \in 1 .. j - i /\ i + (k - n) \in i + 1 .. j /\ p + n - i + (i + (k - n)) = p + k
      BY <1>1, <1>2, <2>2, SMT
    <3>2. u[k - n] = c[i + (k - n)]
      BY <1>5, <3>1
    <3>3. c[i + (k - n)] = f[p + n - i + (i + (k - n))]
      BY <3>1 DEF Agree
    <3> QED BY <1>6, <1>7, <2>2, <3>1, <3>2, <3>3
  <2> QED BY <2>1, <2>2
<1>9. w = v
  <2> HIDE DEF w, m
  <2> QED BY <1>4, <1>7, <1>8, SeqEqual
<1> QED BY <1>7, <1>9 DEF u, v, IsPart

\* The file is a text, and its limit is not 0.
LEMMA FileText == ASSUME DecoderInv PROVE file.input \in Seq(Bytes) /\ Len(file.input) \in Nat
BY DecoderAssumption, LenProperties DEF DecoderInv, DecoderTypes

\* What holds of the decoder and of its place in the file.
FileInv == DecoderInv /\ HoldsFile

\* Where the decoder is, in numbers.
LEMMA Positions ==
  ASSUME FileInv
  PROVE  /\ LineStart \in Nat /\ LineStart + dec.raw + (Len(dec.chunk) - dec.i) = readOffset
         /\ readOffset \in Nat /\ readOffset <= Len(file.input) /\ Len(file.input) \in Nat /\ start \in Nat /\ start <= Len(file.input)
         /\ dec.i <= Len(dec.chunk) /\ dec.raw \in Nat /\ dec.i \in Nat /\ Len(dec.chunk) \in Nat /\ dec.j \in Nat
         /\ dec.chunk # <<>> => dec.i <= dec.j /\ dec.j <= Len(dec.chunk)
<1> DEFINE a == dec.i
           r == dec.raw
           k == Len(dec.chunk)
           n == readOffset
           p == LineStart
<1>1. a \in Nat /\ r \in Nat /\ k \in Nat /\ n \in Nat /\ dec.j \in Nat /\ start \in Nat
  BY DecoderHas DEF FileInv, DecoderInv, DecoderTypes
<1>2. p = n - (k - a) - r /\ p >= 0
  BY DEF LineStart, FileInv, HoldsFile
<1>3. dec.chunk = <<>> => a = 0
  BY DecoderHas DEF FileInv
<1>4. dec.chunk # <<>> => dec.i <= dec.j /\ dec.j <= Len(dec.chunk)
  BY DEF FileInv, DecoderInv, LimitAhead
<1>5. a <= k
  <2>1. CASE dec.chunk = <<>>
    <3> HIDE DEF k, a
    <3> QED BY <1>1, <1>3, <2>1, SMT
  <2>2. CASE dec.chunk # <<>>
    <3> DEFINE q == dec.j
    <3>1. a <= q /\ q <= k /\ q \in Nat
      BY <1>1, <1>4, <2>2
    <3> HIDE DEF a, q, k
    <3> QED BY <1>1, <3>1, SMT
  <2> QED BY <2>1, <2>2
<1>6. p \in Nat /\ p + r + (k - a) = n
  <2> HIDE DEF a, r, k, n, p
  <2> QED BY <1>1, <1>2, SMT
<1>7. readOffset <= Len(file.input) /\ Len(file.input) \in Nat /\ start <= Len(file.input)
  BY FileText DEF FileInv, HoldsFile
<1> QED BY <1>1, <1>4, <1>5, <1>6, <1>7

\* What the line buffer holds when the loop has come to j.
LEMMA WrittenIs ==
  ASSUME FileInv, NEW j \in Nat, dec.i <= j, j <= Len(dec.chunk)
  PROVE  /\ Written(j) = SubSeq(file.input, LineStart + 1, LineStart + decoded(j))
         /\ Written(j) \in Seq(Bytes) /\ Len(Written(j)) = decoded(j)
         /\ decoded(j) \in Nat /\ LineStart + decoded(j) <= readOffset
         /\ decoded(j) = dec.raw + (j - dec.i)
<1> DEFINE f == file.input
           b == dec.buf
           c == dec.chunk
           i == dec.i
           p == LineStart
           n == readOffset
<1>1. f \in Seq(Bytes) /\ b \in Seq(Bytes) /\ c \in Seq(Bytes) /\ Len(b) = dec.raw /\ Len(b) \in Nat
  BY FileText, DecoderHas DEF FileInv
<1>2. /\ p \in Nat /\ i \in Nat /\ n \in Nat /\ n <= Len(f) /\ Len(f) \in Nat /\ Len(c) \in Nat
      /\ p + Len(b) + (Len(c) - i) = n
  BY <1>1, Positions
<1>3. Agree(b, f, p, 1, Len(b)) /\ Agree(c, f, n - Len(c), i + 1, Len(c))
  BY DEF FileInv, HoldsFile, Agree
<1>4. decoded(j) = Len(b) + (j - i) /\ Written(j) = b \o SubSeq(c, i + 1, j)
  BY <1>1 DEF decoded, Written
<1> HIDE DEF f, b, c, i, p, n
<1>5. i <= j /\ j <= Len(c)
  BY DEF i, c
<1>6. /\ Len(b) + (j - i) \in Nat /\ p + (Len(b) + (j - i)) <= n /\ p + Len(b) + (j - i) <= Len(f)
      /\ p + (Len(b) + (j - i)) = p + Len(b) + (j - i)
  <2> DEFINE l == Len(c)
             m == Len(b)
             h == Len(f)
  <2>1. m \in Nat /\ l \in Nat /\ h \in Nat /\ p + m + (l - i) = n /\ n <= h /\ p \in Nat /\ i \in Nat /\ n \in Nat /\ i <= j /\ j <= l
    BY <1>1, <1>2, <1>5
  <2> HIDE DEF l, m, h
  <2>2. m + (j - i) \in Nat /\ p + (m + (j - i)) <= n /\ p + m + (j - i) <= h /\ p + (m + (j - i)) = p + m + (j - i)
    BY <2>1, SMT
  <2> QED BY <2>2 DEF m, h
<1>7. Agree(c, f, p + Len(b) - i, i + 1, j)
  <2> SUFFICES ASSUME NEW k \in i + 1 .. j PROVE c[k] = f[p + Len(b) - i + k]
    BY DEF Agree
  <2>1. k \in i + 1 .. Len(c) /\ n - Len(c) + k = p + Len(b) - i + k
    <3> DEFINE l == Len(c)
               m == Len(b)
    <3>1. m \in Nat /\ l \in Nat /\ p + m + (l - i) = n /\ p \in Nat /\ i \in Nat /\ n \in Nat /\ j <= l
      BY <1>1, <1>2, <1>5
    <3> HIDE DEF l, m
    <3>2. k \in i + 1 .. l /\ n - l + k = p + m - i + k
      BY <3>1, SMT
    <3> QED BY <3>2 DEF l, m
  <2> QED BY <1>3, <2>1 DEF Agree
<1>8. IsPart(b \o SubSeq(c, i + 1, j), f, p, Len(b) + (j - i), Bytes)
  <2>1. f \in Seq(Bytes) /\ b \in Seq(Bytes) /\ c \in Seq(Bytes) /\ p \in Nat /\ i \in Nat
    BY <1>1, <1>2
  <2>2. p + Len(b) + (j - i) <= Len(f) /\ i <= j /\ j <= Len(c)
    BY <1>5, <1>6
  <2>3. Agree(b, f, p, 1, Len(b))
    BY <1>3
  <2> QED BY <1>7, <2>1, <2>2, <2>3, PartsJoin
<1>9. decoded(j) = dec.raw + (j - dec.i)
  BY DEF decoded
<1> QED BY <1>4, <1>6, <1>8, <1>9 DEF f, p, n, IsPart

\* A step that neither reads nor decodes nor sends.
LEMMA HoldsStays ==
  ASSUME FileInv, UNCHANGED <<file, start, readOffset, dec, sent>>
  PROVE  HoldsFile'
BY DEF FileInv, HoldsFile, LineStart

\* Tailer.read adds the chunk at the end of what the decoder holds.
LEMMA ReadHolds ==
  ASSUME FileInv, Read
  PROVE  HoldsFile' /\ LineStart' = LineStart
<1>1. dec.chunk = <<>> /\ file' = file /\ start' = start /\ sent' = sent
  BY DEF Read
<1>2. PICK n \in 1..ReadSize : /\ readOffset + n <= Len(file.input) /\ readOffset' = readOffset + n
                               /\ dec' = [dec EXCEPT !.chunk = SubSeq(file.input, readOffset + 1, readOffset + n),
                                                     !.i = 0, !.j = 0, !.maxj = contentLenLimit - Len(dec.buf)]
  BY DEF Read
<1> DEFINE f == file.input
           c == SubSeq(f, readOffset + 1, readOffset + n)
           a == readOffset
           r == dec.raw
<1>3. a \in Nat /\ r \in Nat /\ f \in Seq(Bytes) /\ Len(f) \in Nat /\ n \in Nat
  <2>1. n \in Nat
    BY DecoderAssumption, SMT
  <2> QED BY <2>1, Positions, FileText DEF FileInv
<1>4. dec'.chunk = c /\ dec'.i = 0 /\ dec'.buf = dec.buf /\ dec'.raw = dec.raw
  <2>1. dec \in DecoderRecord
    BY DecoderHas DEF FileInv
  <2> QED BY <1>2, <2>1 DEF DecoderRecord
<1>5. Len(c) = n /\ \A k \in 1..n : c[k] = f[a + k]
  <2> HIDE DEF f, a
  <2>1. a + n <= Len(f)
    BY <1>2 DEF a, f
  <2> QED BY <1>3, <2>1, SMT DEF c, a
<1>6. dec.i = 0 /\ Len(dec.chunk) = 0 /\ LineStart = a - (0 - 0) - r
  BY <1>1, DecoderHas DEF LineStart, FileInv
<1>7. LineStart' = (a + n) - (n - 0) - r
  BY <1>2, <1>4, <1>5 DEF LineStart
<1> HIDE DEF a, r, f
<1>8. (a + n) - (n - 0) - r = a - (0 - 0) - r /\ 0 + 1 = 1 /\ (a + n) - n = a
  BY <1>3, SMT
<1>9. LineStart' = LineStart
  BY <1>6, <1>7, <1>8
<1>10. Agree(dec'.chunk, file'.input, readOffset' - Len(dec'.chunk), dec'.i + 1, Len(dec'.chunk))
  <2>1. readOffset' - Len(dec'.chunk) = a /\ dec'.i + 1 = 1 /\ Len(dec'.chunk) = n
    BY <1>2, <1>4, <1>5, <1>8 DEF a
  <2> QED BY <1>1, <1>4, <1>5, <2>1 DEF Agree, f
<1>11. \A k \in 1 .. Len(dec'.buf) : dec'.buf[k] = file'.input[LineStart' + k]
  BY <1>1, <1>4, <1>9 DEF FileInv, HoldsFile
<1>12. start' <= Len(file'.input) /\ readOffset' <= Len(file'.input) /\ LineStart' >= 0
       /\ \A k \in DOMAIN sent' : sent'[k].offset <= Len(file'.input)
  BY <1>1, <1>2, <1>9 DEF FileInv, HoldsFile
<1>13. \A k \in dec'.i + 1 .. Len(dec'.chunk) : dec'.chunk[k] = file'.input[readOffset' - Len(dec'.chunk) + k]
  BY <1>10 DEF Agree
<1> QED BY <1>9, <1>11, <1>12, <1>13 DEF HoldsFile

\* The next stop of the loop of decodeIncomingData, and what it sends there.
NextStop == Min(Stops)
LineRaw == IF NextStop = dec.maxj THEN decoded(NextStop) ELSE decoded(NextStop) + 1
LineItem ==
  [content |-> SubSeq(Written(NextStop), 1, Len(Written(NextStop)) - (Len(Separator) - 1)), raw |-> LineRaw]

\* It is in the chunk, and the first one.
LEMMA StopFacts ==
  ASSUME FileInv, DecodeLine
  PROVE  /\ NextStop \in Nat /\ dec.j <= NextStop /\ dec.i <= NextStop /\ NextStop < Len(dec.chunk)
         /\ NextStop \in Stops /\ \A y \in Stops : NextStop <= y
<1> DEFINE k == Len(dec.chunk)
           q == dec.j
           i == dec.i
           j == NextStop
<1>0. dec.chunk # <<>> /\ Stops # {} /\ i <= q
  BY DEF DecodeLine, FileInv, DecoderInv, LimitAhead
<1>1. q \in Nat /\ k \in Nat /\ i \in Nat
  BY DecoderHas DEF FileInv
<1>2. Stops \subseteq q .. k - 1
  BY DEF Stops
<1> HIDE DEF k, q, i
<1>3. q .. k - 1 \subseteq Nat
  BY <1>1, SMT
<1>4. j \in Stops /\ \A y \in Stops : j <= y
  BY <1>0, <1>2, <1>3, MinIsLeast DEF NextStop
<1>5. j \in q .. k - 1
  BY <1>2, <1>4
<1> HIDE DEF j
<1>6. j \in Nat /\ q <= j /\ i <= j /\ j < k
  BY <1>0, <1>1, <1>5, SMT
<1> QED BY <1>4, <1>6 DEF k, q, i, j

\* What the step does.
LEMMA DecodeLineDoes ==
  ASSUME FileInv, DecodeLine
  PROVE  /\ dec'.chunk = dec.chunk /\ dec'.buf = <<>> /\ dec'.raw = 0 /\ dec'.j = NextStop + 1
         /\ dec'.i = IF NextStop = dec.maxj THEN NextStop ELSE NextStop + 1
         /\ line = <<>> /\ line' = <<LineItem>> /\ lines' = Append(lines, LineItem)
         /\ UNCHANGED <<file, life, start, readOffset, par, parsed, han, out, decodedOffset, sent, restarts>>
<1>0. dec \in DecoderRecord
  BY DecoderHas DEF FileInv
<1>1. line = <<>> /\ UNCHANGED <<file, life, start, readOffset, par, parsed, han, out, decodedOffset, sent, restarts>>
  BY DEF DecodeLine
<1>2. IF NextStop = dec.maxj THEN SendLine(NextStop, decoded(NextStop), NextStop)
      ELSE SendLine(NextStop, decoded(NextStop) + 1, NextStop + 1)
  BY DEF DecodeLine, NextStop
<1>3. CASE NextStop = dec.maxj
  <2>1. SendLine(NextStop, LineRaw, NextStop)
    BY <1>2, <1>3 DEF LineRaw
  <2>2. /\ line' = <<LineItem>> /\ lines' = Append(lines, LineItem)
        /\ dec' = [dec EXCEPT !.buf = <<>>, !.raw = 0, !.i = NextStop, !.j = NextStop + 1, !.maxj = NextStop + contentLenLimit]
    BY <2>1 DEF SendLine, LineItem
  <2> QED BY <1>0, <1>1, <1>3, <2>2 DEF DecoderRecord
<1>4. CASE NextStop # dec.maxj
  <2>1. SendLine(NextStop, LineRaw, NextStop + 1)
    BY <1>2, <1>4 DEF LineRaw
  <2>2. /\ line' = <<LineItem>> /\ lines' = Append(lines, LineItem)
        /\ dec' = [dec EXCEPT !.buf = <<>>, !.raw = 0, !.i = NextStop + 1, !.j = NextStop + 1, !.maxj = (NextStop + 1) + contentLenLimit]
    BY <2>1 DEF SendLine, LineItem
  <2> QED BY <1>0, <1>1, <1>4, <2>2 DEF DecoderRecord
<1> QED BY <1>3, <1>4

\* The next line begins where this one ends.
LEMMA DecodeLineHolds ==
  ASSUME FileInv, DecodeLine
  PROVE  HoldsFile' /\ LineStart' = LineStart + LineRaw /\ LineRaw \in Nat
<1> DEFINE i == dec.i
           j == NextStop
           h == dec'.i
           k == Len(dec.chunk)
           r == dec.raw
           n == readOffset
           p == LineStart
           x == LineRaw
<1>1. /\ j \in Nat /\ i <= j /\ j < k /\ p \in Nat /\ p + r + (k - i) = n
      /\ n \in Nat /\ r \in Nat /\ i \in Nat /\ k \in Nat
  BY StopFacts, Positions
<1>2. decoded(j) = r + (j - i)
  BY DEF decoded
<1>3. (h = j /\ x = r + (j - i)) \/ (h = j + 1 /\ x = (r + (j - i)) + 1)
  BY <1>2, DecodeLineDoes DEF LineRaw
<1>4. LineStart' = n - (k - h) - 0
  BY DecodeLineDoes DEF LineStart
<1> HIDE DEF i, j, h, k, r, n, p, x
<1>5. n - (k - h) - 0 = p + x /\ x \in Nat /\ p + x >= 0 /\ i + 1 <= h + 1 /\ h \in Nat
  BY <1>1, <1>3, SMT
<1>6. LineStart' = LineStart + LineRaw /\ LineRaw \in Nat /\ LineStart' >= 0
  BY <1>4, <1>5 DEF p, x
<1>7. Agree(dec'.chunk, file'.input, readOffset' - Len(dec'.chunk), dec'.i + 1, Len(dec'.chunk))
  <2>1. Agree(dec.chunk, file.input, readOffset - Len(dec.chunk), dec.i + 1, Len(dec.chunk))
    BY DEF FileInv, HoldsFile, Agree
  <2>2. \A l \in h + 1 .. k : l \in i + 1 .. k
    BY <1>1, <1>5, SMT
  <2> QED BY <2>1, <2>2, DecodeLineDoes DEF Agree, h, i, k
<1>8. \A l \in 1 .. Len(dec'.buf) : dec'.buf[l] = file'.input[LineStart' + l]
  <2>1. Len(dec'.buf) = 0 /\ 1..0 = {}
    BY DecodeLineDoes, EmptyChannel, SMT
  <2> QED BY <2>1
<1> QED BY <1>6, <1>7, <1>8, DecodeLineDoes DEF FileInv, HoldsFile, Agree

\* What is left of the chunk goes to the line buffer.
LEMMA DecodeRestHolds ==
  ASSUME FileInv, DecodeRest
  PROVE  HoldsFile' /\ LineStart' = LineStart /\ dec'.chunk = <<>> /\ dec'.raw = decoded(Len(dec.chunk)) /\ dec'.i = 0
<1> DEFINE n == Len(dec.chunk)
           d == decoded(n)
           a == readOffset
           f == file.input
           p == LineStart
<1>1. /\ dec' = [NewDecoder EXCEPT !.buf = Written(n), !.raw = d]
      /\ file' = file /\ start' = start /\ readOffset' = readOffset /\ sent' = sent
  BY DEF DecodeRest
<1>2. dec'.chunk = <<>> /\ dec'.i = 0 /\ dec'.buf = Written(n) /\ dec'.raw = d
  BY <1>1 DEF NewDecoder
<1>3. n \in Nat /\ dec.i <= n /\ n <= n /\ p \in Nat /\ a \in Nat /\ p + dec.raw + (n - dec.i) = a
  <2>1. n \in Nat
    BY Positions
  <2>2. n <= n
    <3> HIDE DEF n
    <3> QED BY <2>1, SMT
  <2> QED BY <2>2, Positions
<1>4. Written(n) = SubSeq(f, p + 1, p + d) /\ Len(Written(n)) = d /\ d \in Nat /\ p + d <= a /\ d = dec.raw + (n - dec.i)
  BY <1>3, WrittenIs
<1>5. LineStart' = a - (0 - 0) - d
  BY <1>1, <1>2, EmptyChannel DEF LineStart
<1>6. p + d = a
  <2> DEFINE r == dec.raw
             i == dec.i
  <2>1. /\ d = r + (n - i) /\ p + r + (n - i) = a
        /\ r \in Nat /\ i \in Nat /\ n \in Nat /\ p \in Nat /\ a \in Nat
    BY <1>3, <1>4, Positions
  <2> HIDE DEF r, i, d, n, p, a
  <2> QED BY <2>1, SMT
<1>7. a <= Len(f) /\ f \in Seq(Bytes) /\ Len(f) \in Nat
  BY Positions, FileText DEF FileInv
<1> HIDE DEF p, a, d, f, n
<1>8. a - (0 - 0) - d = p /\ p >= 0
  BY <1>3, <1>4, <1>6, SMT
<1>9. LineStart' = LineStart /\ LineStart' >= 0
  BY <1>5, <1>8 DEF p
<1>10. \A k \in 1..d : SubSeq(f, p + 1, p + d)[k] = f[p + k]
  BY <1>3, <1>4, <1>6, <1>7, SMT
<1>11. \A k \in 1 .. Len(dec'.buf) : dec'.buf[k] = file'.input[LineStart' + k]
  BY <1>1, <1>2, <1>4, <1>9, <1>10 DEF f, p
<1>12. \A k \in dec'.i + 1 .. Len(dec'.chunk) : dec'.chunk[k] = file'.input[readOffset' - Len(dec'.chunk) + k]
  <2>1. Len(dec'.chunk) = 0 /\ 0 + 1 .. 0 = {}
    BY <1>2, EmptyChannel, SMT
  <2> QED BY <1>2, <2>1
<1> QED BY <1>1, <1>2, <1>9, <1>11, <1>12 DEF FileInv, HoldsFile, d, n

\* forwardMessages sends an offset within what was read.
LEMMA ForwardHolds ==
  ASSUME FileInv, ForwardMessage
  PROVE  HoldsFile' /\ decodedOffset + out[1].raw <= Len(file.input)
<1> DEFINE m == out[1]
           msg == [from |-> decodedOffset, offset |-> decodedOffset + m.raw, content |-> m.content]
<1>0. /\ out # <<>> /\ sent' = IF m.content = <<>> THEN sent ELSE Append(sent, msg)
      /\ UNCHANGED <<file, start, readOffset, dec>>
  BY DEF ForwardMessage
<1>1. m \in Item /\ Tail(out) \in Seq(Item) /\ Len(Tail(out)) <= 1 /\ Raw(out) = m.raw + Raw(Tail(out))
  BY <1>0, OthersHave, FirstItem DEF FileInv
<1>2. m.raw \in Nat /\ Raw(Tail(out)) \in Nat
  BY <1>1, Lengths, RawIsNat DEF Item
<1>3. msg.offset <= Len(file.input)
  <2> DEFINE a == decodedOffset
             x == m.raw
             b == Raw(Tail(out))
             c == han.linesLen
             d == Raw(parsed)
             e == par.raw
             g == Raw(line)
             r == dec.raw
             l == Len(dec.chunk)
             i == dec.i
             n == readOffset
             f == Len(file.input)
  <2>1. a \in Nat /\ x \in Nat /\ b \in Nat /\ c \in Nat /\ d \in Nat /\ e \in Nat /\ g \in Nat /\ n \in Nat
    BY <1>2, Parts DEF FileInv
  <2>2. r \in Nat /\ l \in Nat /\ i \in Nat /\ i <= l /\ n <= f /\ f \in Nat
    BY Positions
  <2>3. a + (x + b) + c + d + e + g + (r + (l - i)) = n
    BY <1>1, Parts DEF FileInv, Decoding
  <2> HIDE DEF a, x, b, c, d, e, g, r, l, i, n, f
  <2>4. a + x <= f
    BY <2>1, <2>2, <2>3, SMT
  <2> QED BY <2>4 DEF a, x, f
<1>4. \A k \in DOMAIN sent' : sent'[k].offset <= Len(file'.input)
  <2>0. \A k \in DOMAIN sent : sent[k].offset <= Len(file.input)
    BY DEF FileInv, HoldsFile
  <2>1. CASE m.content = <<>>
    BY <1>0, <2>0, <2>1
  <2>2. CASE m.content # <<>>
    <3> DEFINE S == [from : Nat, offset : Nat, content : Text]
    <3>1. sent \in Seq(S) /\ decodedOffset \in Nat /\ m.content \in Text
      BY <1>1 DEF FileInv, DecoderInv, DecoderTypes, Item
    <3>2. msg \in S
      <4>1. \A y, z \in Nat : y + z \in Nat
        BY SMT
      <4> QED BY <1>2, <3>1, <4>1
    <3> HIDE DEF S, msg
    <3>3. /\ sent' \in Seq(S) /\ Len(sent') = Len(sent) + 1 /\ sent'[Len(sent) + 1] = msg
          /\ \A k \in 1 .. Len(sent) : sent'[k] = sent[k]
      BY <1>0, <2>2, <3>1, <3>2, AppendProperties
    <3>4. DOMAIN sent = 1 .. Len(sent) /\ DOMAIN sent' = 1 .. Len(sent) + 1 /\ Len(sent) \in Nat
      BY <3>1, <3>3, LenProperties
    <3>5. \A k \in 1 .. Len(sent) + 1 : k \in 1 .. Len(sent) \/ k = Len(sent) + 1
      BY <3>4, SMT
    <3> QED BY <1>0, <1>3, <2>0, <3>3, <3>4, <3>5
  <2> QED BY <2>1, <2>2
<1>5. LineStart' = LineStart
  BY <1>0 DEF LineStart
<1> QED BY <1>0, <1>3, <1>4, <1>5 DEF FileInv, HoldsFile

\* A tailer begins within the file.
BeginsInFile == \E n \in Nat : Begins(n) /\ n <= Len(file.input)

\* It holds nothing yet.
LEMMA BeginsHolding == BeginsInFile => FileInv
<1> SUFFICES ASSUME NEW n \in Nat, Begins(n), n <= Len(file.input) PROVE FileInv
  BY DEF BeginsInFile
<1>0. DecoderInv
  BY BeginsWell DEF NewTailer
<1>1. dec.chunk = <<>> /\ dec.i = 0 /\ dec.raw = 0 /\ dec.buf = <<>> /\ start = n /\ readOffset = n /\ sent = <<>>
  BY DEF Begins, NewDecoder
<1>2. LineStart = n - (0 - 0) - 0
  BY <1>1, EmptyChannel DEF LineStart
<1>3. n - (0 - 0) - 0 = n /\ n >= 0 /\ 1..0 = {} /\ 0 + 1 .. 0 = {}
  BY SMT
<1>4. DOMAIN sent = {}
  BY <1>1, SMT
<1>5. HoldsFile
  BY <1>1, <1>2, <1>3, <1>4, EmptyChannel DEF HoldsFile
<1> QED BY <1>0, <1>5 DEF FileInv

\* So does the first one, and the next one.
LEMMA InitInFile == Init => BeginsInFile
<1> SUFFICES ASSUME Init PROVE BeginsInFile
  OBVIOUS
<1>1. Begins(0)
  BY DEF Init, Begins
<1>2. Len(file.input) \in Nat
  BY DecoderAssumption, LenProperties DEF Init
<1>3. 0 \in Nat /\ 0 <= Len(file.input)
  BY <1>2, SMT
<1> QED BY <1>1, <1>3 DEF BeginsInFile

\* The offset of a message that was sent is within the file.
LEMMA RestartsInFile ==
  ASSUME FileInv, Restart
  PROVE  BeginsInFile'
<1>1. PICK n \in {start} \cup {m.offset : m \in Range(sent)} : start' = n /\ readOffset' = n /\ decodedOffset' = n
  BY DEF Restart
<1>2. n \in Nat /\ n <= Len(file.input)
  <2>1. start \in Nat /\ sent \in Seq([from : Nat, offset : Nat, content : Text]) /\ start <= Len(file.input)
    BY DEF FileInv, HoldsFile, DecoderInv, DecoderTypes
  <2>2. \A k \in DOMAIN sent : sent[k].offset \in Nat
    <3> DEFINE S == [from : Nat, offset : Nat, content : Text]
    <3>1. sent \in Seq(S) /\ \A m \in S : m.offset \in Nat
      BY <2>1
    <3> HIDE DEF S
    <3>2. \A k \in DOMAIN sent : sent[k] \in S
      BY <3>1, LenProperties, ElementOfSeq
    <3> QED BY <3>1, <3>2
  <2>3. \A k \in DOMAIN sent : sent[k].offset <= Len(file.input)
    BY DEF FileInv, HoldsFile
  <2> QED BY <2>1, <2>2, <2>3 DEF Range
<1>3. Begins(n)' /\ file' = file
  BY <1>1 DEF Restart, Begins, FileInv, DecoderInv, DecoderTypes
<1> QED BY <1>2, <1>3 DEF BeginsInFile

\* In every step, the decoder holds what it should.
LEMMA NextHolds == FileInv /\ [Next]_vars => FileInv'
<1> SUFFICES ASSUME FileInv, [Next]_vars PROVE FileInv'
  OBVIOUS
<1>0. DecoderInv'
  BY NextDecoder DEF FileInv
<1>1. CASE Read
  BY <1>0, <1>1, ReadHolds DEF FileInv
<1>2. CASE DecodeLine
  BY <1>0, <1>2, DecodeLineHolds DEF FileInv
<1>3. CASE DecodeRest
  BY <1>0, <1>3, DecodeRestHolds DEF FileInv
<1>4. CASE ForwardMessage
  BY <1>0, <1>4, ForwardHolds DEF FileInv
<1>5. CASE Restart
  <2>1. (BeginsInFile => FileInv)'
    BY BeginsHolding, PTL
  <2> QED BY <1>5, <2>1, RestartsInFile
<1>6. CASE \/ ParseLine \/ ParserTimeout \/ ParserStops \/ HandleLine \/ HandlerTimeout \/ HandlerStops
           \/ Stop \/ DecoderStops \/ ForwardStops \/ UNCHANGED vars
  <2>1. UNCHANGED <<file, start, readOffset, dec, sent>>
    BY <1>6 DEF ParseLine, ParserTimeout, ParserStops, HandleLine, HandlerTimeout, HandlerStops, Stop, DecoderStops, ForwardStops, vars
  <2> QED BY <1>0, <2>1, HoldsStays DEF FileInv
<1> QED BY <1>1, <1>2, <1>3, <1>4, <1>5, <1>6 DEF Next, Steps

----------------------------------------------------------------------------
(* The lines of the file *)

\* They do not change while the file does not.
LEMMA SameLines ==
  ASSUME file' = file
  PROVE  /\ LinesFrom' = LinesFrom /\ \A p, c : Ends(p, c)' = Ends(p, c)
BY DEF LinesFrom, Incomplete, LineEnd, LineAt, Ends, Match, Separator

\* The numbers of a separator.
LEMMA SeparatorLength == Separator \in Seq(Bytes) /\ Len(Separator) \in {1, 2}
<1>1. CASE file.parser = "utf16"
  <2>1. Separator = <<"0", "n">>
    BY <1>1 DEF Separator
  <2>2. <<"0", "n">> \in Seq(Bytes) /\ Len(<<"0", "n">>) = 2
    BY SMT DEF Bytes
  <2> QED BY <2>1, <2>2
<1>2. CASE file.parser # "utf16"
  <2>1. Separator = <<"n">>
    BY <1>2 DEF Separator
  <2>2. <<"n">> \in Seq(Bytes) /\ Len(<<"n">>) = 1
    BY SMT DEF Bytes
  <2> QED BY <2>1, <2>2
<1> QED BY <1>1, <1>2

\* The places where a line may begin, after a cut or not.
Spots == (0 .. Len(file.input)) \X BOOLEAN
LineStep(F, x) ==
  IF Incomplete(x[1], x[2]) THEN <<>>
  ELSE <<LineAt(x[1], x[2])>> \o F[<<LineEnd(x[1], x[2]), Ends(x[1], x[2]) = {}>>]

\* A line ends after its beginning, within the file.
LEMMA LineGoesOn ==
  ASSUME FileInv, NEW p \in 0 .. Len(file.input), NEW c \in BOOLEAN
  PROVE  /\ Ends(p, c) # {} => Min(Ends(p, c)) \in Ends(p, c) /\ \A k \in Ends(p, c) : Min(Ends(p, c)) <= k
         /\ \A k \in Ends(p, c) : k \in Nat /\ k > p /\ k <= Len(file.input)
         /\ ~Incomplete(p, c) => LineEnd(p, c) \in Nat /\ p < LineEnd(p, c) /\ LineEnd(p, c) <= Len(file.input)
<1> DEFINE N == Len(file.input)
           E == Ends(p, c)
<1>1. N \in Nat /\ contentLenLimit \in Nat /\ contentLenLimit >= 2
  BY FileText, DecoderHas DEF FileInv
<1>2. \A k \in E : k \in p + (IF c THEN 2 ELSE 1) .. N
  BY DEF Ends
<1> HIDE DEF N, E
<1>3. \A k \in p + (IF c THEN 2 ELSE 1) .. N : k \in Nat /\ k > p /\ k <= N
  <2>1. p \in 0 .. N
    BY DEF N
  <2>2. CASE c
    BY <1>1, <2>1, <2>2, SMT
  <2>3. CASE ~c
    BY <1>1, <2>1, <2>3, SMT
  <2> QED BY <2>2, <2>3
<1>4. \A k \in E : k \in Nat /\ k > p /\ k <= N
  BY <1>2, <1>3
<1>5. E # {} => Min(E) \in E /\ \A k \in E : Min(E) <= k
  BY <1>4, MinIsLeast
<1>6. ASSUME ~Incomplete(p, c) PROVE LineEnd(p, c) \in Nat /\ p < LineEnd(p, c) /\ LineEnd(p, c) <= N
  <2>1. CASE E # {}
    <3>1. LineEnd(p, c) = Min(E)
      BY <2>1 DEF LineEnd, E
    <3>2. Min(E) \in Nat /\ Min(E) > p /\ Min(E) <= N
      BY <1>4, <1>5, <2>1
    <3>3. Min(E) > p => p < Min(E)
      BY <3>2, SMT
    <3> QED BY <3>1, <3>2, <3>3
  <2>2. CASE E = {}
    <3>1. LineEnd(p, c) = p + contentLenLimit /\ ~(N <= p + contentLenLimit)
      BY <1>6, <2>2 DEF LineEnd, Incomplete, E, N
    <3>2. p + contentLenLimit \in Nat /\ p < p + contentLenLimit /\ p + contentLenLimit <= N
      <4>1. p \in 0 .. N
        BY DEF N
      <4> QED BY <1>1, <3>1, <4>1, SMT
    <3> QED BY <3>1, <3>2
  <2> QED BY <2>1, <2>2
<1> QED BY <1>4, <1>5, <1>6 DEF N, E

\* The next spot is in the file, and nearer to its end.
LEMMA NextSpot ==
  ASSUME FileInv, NEW x \in Spots, ~Incomplete(x[1], x[2])
  PROVE  LET y == <<LineEnd(x[1], x[2]), Ends(x[1], x[2]) = {}>>
         IN  /\ y \in Spots /\ \A n \in Nat : Len(file.input) - x[1] <= n => Len(file.input) - y[1] < n
             /\ \A n \in Nat : Len(file.input) - x[1] < n => Len(file.input) - y[1] < n
<1> DEFINE N == Len(file.input)
           p == x[1]
           e == LineEnd(x[1], x[2])
           y == <<e, Ends(x[1], x[2]) = {}>>
<1>1. p \in 0..N /\ x[2] \in BOOLEAN /\ N \in Nat
  BY FileText DEF Spots, FileInv
<1>2. e \in Nat /\ p < e /\ e <= N
  BY <1>1, LineGoesOn
<1> HIDE DEF e, N, p
<1>3. e \in 0..N /\ \A n \in Nat : (N - p <= n => N - e < n) /\ (N - p < n => N - e < n)
  BY <1>1, <1>2, SMT
<1>4. y \in Spots /\ y[1] = e
  BY <1>3 DEF Spots, N
<1> QED BY <1>3, <1>4 DEF e, N, p

\* LinesFrom is defined for the spots of which at most n bytes follow, hence for all.
LinesUpTo(F, n) == \A x \in Spots : Len(file.input) - x[1] < n => F[x] = LineStep(F, x)

\* There are such lines: going back from the end of the file.
LEMMA LinesExist == FileInv => \E F : F = [x \in Spots |-> LineStep(F, x)]
<1> SUFFICES ASSUME FileInv PROVE \E F : F = [x \in Spots |-> LineStep(F, x)]
  OBVIOUS
<1> DEFINE N == Len(file.input)
           A == {n \in Nat : \E F : LinesUpTo(F, n)}
<1>0. N \in Nat /\ \A x \in Spots : x[1] \in 0..N
  BY FileText DEF FileInv, Spots
<1>1. 0 \in A
  <2>1. \A x \in Spots : ~(N - x[1] < 0)
    BY <1>0, SMT
  <2>2. LinesUpTo(<<>>, 0)
    BY <2>1 DEF LinesUpTo
  <2> QED BY <2>2
<1>2. ASSUME NEW n \in Nat, n \in A PROVE n + 1 \in A
  <2>1. PICK F : LinesUpTo(F, n)
    BY <1>2
  <2> DEFINE G == [x \in Spots |-> IF N - x[1] = n THEN LineStep(F, x) ELSE F[x]]
  <2>2. ASSUME NEW x \in Spots, N - x[1] < n + 1 PROVE G[x] = LineStep(G, x)
    <3> DEFINE y == <<LineEnd(x[1], x[2]), Ends(x[1], x[2]) = {}>>
    <3>1. ASSUME ~Incomplete(x[1], x[2]) PROVE y \in Spots /\ N - y[1] < n
      <4>1. N - x[1] <= n
        BY <1>0, <2>2, SMT
      <4> QED BY <3>1, <4>1, NextSpot
    <3>2. ASSUME ~Incomplete(x[1], x[2]) PROVE G[y] = F[y]
      <4>1. y \in Spots /\ N - y[1] < n /\ y[1] \in 0..N
        BY <1>0, <3>1, <3>2
      <4> HIDE DEF y, N
      <4>2. N - y[1] # n
        BY <1>0, <4>1, SMT
      <4> QED BY <4>1, <4>2
    <3>3. LineStep(G, x) = LineStep(F, x)
      <4> HIDE DEF G
      <4> QED BY <3>2 DEF LineStep
    <3>4. CASE N - x[1] = n
      BY <3>3, <3>4
    <3>5. CASE N - x[1] # n
      <4>1. N - x[1] < n
        BY <1>0, <2>2, <3>5, SMT
      <4>2. F[x] = LineStep(F, x)
        BY <2>1, <4>1 DEF LinesUpTo
      <4>3. G[x] = F[x]
        BY <3>5
      <4> QED BY <3>3, <4>2, <4>3
    <3> QED BY <3>4, <3>5
  <2> HIDE DEF G
  <2>3. LinesUpTo(G, n + 1)
    BY <2>2 DEF LinesUpTo
  <2>4. n + 1 \in Nat
    BY SMT
  <2> QED BY <2>3, <2>4
<1>3. N + 1 \in A
  <2>1. \A n \in Nat : n \in A
    <3> HIDE DEF A
    <3> QED BY <1>1, <1>2, AllNumbers
  <2>2. N + 1 \in Nat
    BY <1>0, SMT
  <2> QED BY <2>1, <2>2
<1>4. PICK F : LinesUpTo(F, N + 1)
  BY <1>3
<1> DEFINE G == [x \in Spots |-> F[x]]
<1>5. ASSUME NEW x \in Spots PROVE G[x] = LineStep(G, x)
  <2>1. N - x[1] < N + 1
    BY <1>0, SMT
  <2>2. F[x] = LineStep(F, x)
    BY <1>4, <2>1 DEF LinesUpTo
  <2>3. ASSUME ~Incomplete(x[1], x[2])
        PROVE  <<LineEnd(x[1], x[2]), Ends(x[1], x[2]) = {}>> \in Spots
    BY <2>3, NextSpot
  <2>4. LineStep(G, x) = LineStep(F, x)
    BY <2>3 DEF LineStep
  <2> QED BY <2>2, <2>4
<1>6. G = [x \in Spots |-> LineStep(G, x)]
  <2>1. G = [x \in Spots |-> G[x]]
    OBVIOUS
  <2> HIDE DEF G
  <2> QED BY <1>5, <2>1
<1> QED BY <1>6

\* What its value is.
LEMMA LinesFromIs ==
  ASSUME FileInv, NEW x \in Spots
  PROVE  LinesFrom[x] = LineStep(LinesFrom, x)
<1>1. LinesFrom = CHOOSE F : F = [y \in Spots |-> LineStep(F, y)]
  BY DEF LinesFrom, Spots, LineStep
<1>2. LinesFrom = [y \in Spots |-> LineStep(LinesFrom, y)]
  BY <1>1, LinesExist
<1> QED BY <1>2

\* A line is one.
LEMMA LineAtType ==
  ASSUME FileInv, NEW p \in 0 .. Len(file.input), NEW c \in BOOLEAN, ~Incomplete(p, c)
  PROVE  LineAt(p, c) \in Item
<1> DEFINE k == LineEnd(p, c)
           n == IF Ends(p, c) # {} THEN Len(Separator) ELSE Len(Separator) - 1
           f == file.input
<1>1. k \in Nat /\ p < k /\ k <= Len(f) /\ f \in Seq(Bytes) /\ Len(f) \in Nat /\ p \in 0 .. Len(f)
  BY LineGoesOn, FileText DEF FileInv
<1>2. n \in {0, 1, 2}
  <2> DEFINE m == Len(Separator)
  <2>1. m \in {1, 2} /\ n \in {m, m - 1}
    BY SeparatorLength
  <2> HIDE DEF m, n
  <2> QED BY <2>1, SMT
<1>3. LineAt(p, c) = [content |-> SubSeq(f, p + 1, k - n), raw |-> k - p]
  BY DEF LineAt
<1> HIDE DEF k, n, f
<1>4. p + 1 \in Nat /\ k - n \in Int /\ p + 1 >= 1 /\ k - n <= Len(f) /\ k - p \in Nat
  BY <1>1, <1>2, SMT
<1>5. SubSeq(f, p + 1, k - n) \in Seq(Bytes)
  BY <1>1, <1>4, PartOfText
<1>6. SubSeq(f, p + 1, k - n) \in Text
  BY <1>5, BytesAreText
<1> QED BY <1>3, <1>4, <1>6 DEF Item

\* And the lines are a sequence of them.
LEMMA LinesFromType ==
  ASSUME FileInv, NEW x \in Spots
  PROVE  LinesFrom[x] \in Seq(Item)
<1> DEFINE N == Len(file.input)
           A == {n \in Nat : \A y \in Spots : N - y[1] < n => LinesFrom[y] \in Seq(Item)}
<1>0. N \in Nat /\ \A y \in Spots : y[1] \in 0..N /\ y[2] \in BOOLEAN
  BY FileText DEF FileInv, Spots
<1>1. 0 \in A
  <2>1. \A y \in Spots : ~(N - y[1] < 0)
    BY <1>0, SMT
  <2> QED BY <2>1
<1>2. ASSUME NEW n \in Nat, n \in A PROVE n + 1 \in A
  <2>0. n + 1 \in Nat
    BY SMT
  <2> SUFFICES ASSUME NEW y \in Spots, N - y[1] < n + 1 PROVE LinesFrom[y] \in Seq(Item)
    BY <2>0
  <2>1. LinesFrom[y] = LineStep(LinesFrom, y)
    BY LinesFromIs
  <2>2. CASE Incomplete(y[1], y[2])
    BY <2>1, <2>2, EmptyChannel DEF LineStep
  <2>3. CASE ~Incomplete(y[1], y[2])
    <3> DEFINE z == <<LineEnd(y[1], y[2]), Ends(y[1], y[2]) = {}>>
               a == LineAt(y[1], y[2])
    <3>1. N - y[1] <= n
      BY <1>0, SMT
    <3>2. z \in Spots /\ N - z[1] < n
      BY <2>3, <3>1, NextSpot
    <3>3. LinesFrom[z] \in Seq(Item)
      BY <1>2, <3>2
    <3>4. a \in Item
      BY <1>0, <2>3, LineAtType
    <3>5. LinesFrom[y] = <<a>> \o LinesFrom[z]
      BY <2>1, <2>3 DEF LineStep
    <3> HIDE DEF a, z
    <3> QED BY <3>3, <3>4, <3>5, OneItem, ConcatProperties
  <2> QED BY <2>2, <2>3
<1>3. N + 1 \in A
  <2>1. \A n \in Nat : n \in A
    <3> HIDE DEF A
    <3> QED BY <1>1, <1>2, AllNumbers
  <2>2. N + 1 \in Nat
    BY <1>0, SMT
  <2> QED BY <2>1, <2>2
<1>4. N - x[1] < N + 1
  BY <1>0, SMT
<1> QED BY <1>3, <1>4

----------------------------------------------------------------------------
(* The search for the next line *)

\* The beginning of a part of a text.
LEMMA PrefixOfPart ==
  ASSUME NEW S, NEW f \in Seq(S), NEW p \in Nat, NEW m \in Nat, NEW n \in Int, n <= m, p + m <= Len(f)
  PROVE  SubSeq(SubSeq(f, p + 1, p + m), 1, n) = SubSeq(f, p + 1, p + n)
<1> DEFINE s == SubSeq(f, p + 1, p + m)
           u == SubSeq(s, 1, n)
           v == SubSeq(f, p + 1, p + n)
           l == IF n > 0 THEN n ELSE 0
<1>0. Len(f) \in Nat
  BY LenProperties
<1>1. /\ p + 1 \in Nat /\ p + 1 >= 1 /\ p + m \in Int /\ p + n \in Int /\ p + n <= Len(f) /\ 1 \in Nat /\ 1 >= 1
      /\ (IF p + 1 <= p + m THEN (p + m) - (p + 1) + 1 ELSE 0) = m
      /\ (IF p + 1 <= p + n THEN (p + n) - (p + 1) + 1 ELSE 0) = l
      /\ (IF 1 <= n THEN n - 1 + 1 ELSE 0) = l
      /\ l \in Nat
  BY <1>0, SMT
<1>2. s \in Seq(S) /\ Len(s) = IF p + 1 <= p + m THEN (p + m) - (p + 1) + 1 ELSE 0
  BY <1>1, PartOfText
<1>3. v \in Seq(S) /\ Len(v) = IF p + 1 <= p + n THEN (p + n) - (p + 1) + 1 ELSE 0
  BY <1>1, PartOfText
<1>4. Len(s) = m /\ Len(v) = l
  BY <1>1, <1>2, <1>3
<1>5. \A k \in 1..m : s[k] = f[p + k]
  BY <1>0, SMT
<1>6. \A k \in 1..l : v[k] = f[p + k] /\ k \in 1..m
  BY <1>0, SMT
<1> HIDE DEF s, v, l
<1>7. u \in Seq(S) /\ Len(u) = IF 1 <= n THEN n - 1 + 1 ELSE 0
  BY <1>1, <1>2, <1>4, PartOfText
<1>8. \A k \in 1..l : u[k] = s[k]
  BY <1>1, <1>2, <1>4, SMT DEF l
<1>9. u = v
  <2>1. Len(u) = Len(v) /\ Len(u) = l
    BY <1>1, <1>4, <1>7
  <2>2. \A k \in 1 .. Len(u) : u[k] = v[k]
    BY <1>5, <1>6, <1>8, <2>1
  <2> HIDE DEF u
  <2> QED BY <1>3, <1>7, <2>1, <2>2, SeqEqual
<1> QED BY <1>9 DEF s, v

\* Where the search is, in numbers.
LEMMA SearchedIs ==
  ASSUME FileInv
  PROVE  /\ dec.chunk # <<>> => Searched = LineStart + dec.raw + (dec.j - dec.i)
         /\ dec.chunk = <<>> => Searched = LineStart + dec.raw
         /\ LineStart <= Searched /\ Searched \in Nat
<1> DEFINE p == LineStart
           r == dec.raw
           j == dec.j
           i == dec.i
<1>1. p \in Nat /\ r \in Nat /\ j \in Nat /\ i \in Nat /\ (dec.chunk # <<>> => i <= j)
  BY Positions
<1>2. Searched = p + r + (IF dec.chunk = <<>> THEN 0 ELSE j - i)
  BY DEF Searched
<1> HIDE DEF p, r, i, j
<1>3. CASE dec.chunk = <<>>
  <2>1. p + r + 0 = p + r /\ p <= p + r /\ p + r \in Nat
    BY <1>1, SMT
  <2> QED BY <1>2, <1>3, <2>1 DEF p, r
<1>4. CASE dec.chunk # <<>>
  <2>1. p <= p + r + (j - i) /\ p + r + (j - i) \in Nat
    BY <1>1, <1>4, SMT
  <2> QED BY <1>2, <1>4, <2>1 DEF p, r, i, j
<1> QED BY <1>3, <1>4

\* An end of the line in what the decoder holds and has not searched is a stop.
LEMMA EndIsStop ==
  ASSUME FileInv, dec.chunk # <<>>, NEW c \in BOOLEAN, NEW k \in Ends(LineStart, c), k > Searched, k <= readOffset
  PROVE  \E y \in Stops : y \in Nat /\ LineStart + decoded(y) + 1 = k
<1> DEFINE p == LineStart
           r == dec.raw
           j == dec.j
           i == dec.i
           n == Len(dec.chunk)
           a == readOffset
           y == k - 1 - p - r + i
<1>1. /\ p \in Nat /\ r \in Nat /\ j \in Nat /\ i \in Nat /\ i <= j /\ j <= n /\ n \in Nat /\ a \in Nat
      /\ p + r + (n - i) = a /\ a <= Len(file.input) /\ Len(file.input) \in Nat
  BY Positions
<1>2. k > p + r + (j - i)
  BY SearchedIs
<1>3. k \in Nat /\ k <= a
  <2>1. p \in 0 .. Len(file.input)
    <3> DEFINE h == Len(file.input)
    <3>1. p \in Nat /\ r \in Nat /\ i <= j /\ j <= n /\ n \in Nat /\ i \in Nat /\ j \in Nat /\ p + r + (n - i) = a /\ a <= h /\ h \in Nat
      BY <1>1
    <3> HIDE DEF h, p, r, j, i, n, a
    <3>2. p \in 0..h
      BY <3>1, SMT
    <3> QED BY <3>2 DEF h
  <2> QED BY <2>1, LineGoesOn
<1>4. Match(SubSeq(file.input, p + 1, k))
  BY DEF Ends
<1>5. decoded(y + 1) = r + ((y + 1) - i) /\ decoded(y) = r + (y - i)
  BY DEF decoded
<1> HIDE DEF p, r, j, i, n, a, y
<1>6. y = k - 1 - p - r + i
  BY DEF y
<1>7. /\ y \in Nat /\ y \in j .. n - 1 /\ y + 1 \in Nat /\ i <= y + 1 /\ y + 1 <= n
      /\ p + (r + ((y + 1) - i)) = k /\ p + (r + (y - i)) + 1 = k
  BY <1>1, <1>2, <1>3, <1>6, SMT
<1>8. Written(y + 1) = SubSeq(file.input, LineStart + 1, LineStart + decoded(y + 1))
  <2>1. y + 1 \in Nat /\ dec.i <= y + 1 /\ y + 1 <= Len(dec.chunk)
    BY <1>7 DEF i, n
  <2> QED BY <2>1, WrittenIs
<1>9. Written(y + 1) = SubSeq(file.input, p + 1, k)
  BY <1>5, <1>7, <1>8 DEF p
<1>10. y \in Stops
  BY <1>4, <1>7, <1>9 DEF Stops, j, n
<1>11. LineStart + decoded(y) + 1 = k
  BY <1>5, <1>7 DEF p
<1> QED BY <1>7, <1>10, <1>11

\* The search so far, for a line that does or does not follow a cut.
SearchedFor(c) ==
  /\ \A k \in Ends(LineStart, c) : k > Searched
  /\ c => Searched > LineStart

\* The loop stops where the line ends.
LEMMA NoEarlierEnd ==
  ASSUME FileInv, DecodeLine, NEW c \in BOOLEAN, SearchedFor(c), NEW k \in Ends(LineStart, c)
  PROVE  k \in Nat /\ k > LineStart + decoded(NextStop)
<1> DEFINE p == LineStart
           r == dec.raw
           i == dec.i
           j == NextStop
           a == readOffset
           n == Len(dec.chunk)
           h == Len(file.input)
<1>0. dec.chunk # <<>>
  BY DEF DecodeLine
<1>1. /\ p \in Nat /\ r \in Nat /\ j \in Nat /\ i \in Nat /\ i <= j /\ j < n /\ n \in Nat /\ a \in Nat
      /\ p + r + (n - i) = a /\ a <= h /\ h \in Nat
  BY Positions, StopFacts
<1>2. decoded(j) = r + (j - i) /\ \A y : decoded(y) = r + (y - i)
  BY DEF decoded
<1>3. k \in Nat /\ k > Searched
  <2>1. p \in 0..h
    <3> HIDE DEF p, r, i, j, a, n, h
    <3> QED BY <1>1, SMT
  <2> QED BY <2>1, LineGoesOn DEF SearchedFor
<1>4. CASE k <= a
  <2>1. PICK y \in Stops : y \in Nat /\ p + decoded(y) + 1 = k
    BY <1>0, <1>3, <1>4, EndIsStop
  <2>2. j <= y /\ p + (r + (y - i)) + 1 = k
    BY <1>2, <2>1, StopFacts
  <2> HIDE DEF p, r, i, j, a, n, h
  <2>3. k > p + (r + (j - i))
    BY <1>1, <1>3, <2>1, <2>2, SMT
  <2> QED BY <1>2, <1>3, <2>3 DEF p, j
<1>5. CASE ~(k <= a)
  <2> HIDE DEF p, r, i, j, a, n, h
  <2>1. k > p + (r + (j - i))
    BY <1>1, <1>3, <1>5, SMT
  <2> QED BY <1>2, <1>3, <2>1 DEF p, j
<1> QED BY <1>4, <1>5

\* sendLine sends the line of the file.
LEMMA LineFound ==
  ASSUME FileInv, DecodeLine, NEW c \in BOOLEAN, SearchedFor(c)
  PROVE  /\ ~Incomplete(LineStart, c) /\ LineAt(LineStart, c) = LineItem
         /\ LineEnd(LineStart, c) = LineStart + LineRaw
         /\ (Ends(LineStart, c) = {}) = (NextStop = dec.maxj)
         /\ LineStart \in 0 .. Len(file.input)
<1> DEFINE p == LineStart
           r == dec.raw
           i == dec.i
           j == NextStop
           q == dec.j
           a == readOffset
           n == Len(dec.chunk)
           f == file.input
           h == Len(file.input)
           m == dec.maxj
           L == contentLenLimit
           s == Len(Separator)
           d == decoded(NextStop)
           E == Ends(LineStart, c)
           w == Written(NextStop)
<1>0. dec.chunk # <<>>
  BY DEF DecodeLine
<1>1. /\ p \in Nat /\ r \in Nat /\ j \in Nat /\ i \in Nat /\ i <= j /\ j < n /\ n \in Nat /\ a \in Nat /\ q \in Nat /\ q <= j
      /\ p + r + (n - i) = a /\ a <= h /\ h \in Nat
  BY Positions, StopFacts
<1>2. L \in Nat /\ L >= 2 /\ m \in Nat /\ m = i + L - r /\ q <= m /\ f \in Seq(Bytes)
  BY <1>0, DecoderHas, FileText DEF FileInv, DecoderInv, LimitAhead
<1>3. s \in {1, 2}
  BY SeparatorLength
<1>4. d = r + (j - i) /\ decoded(j + 1) = r + ((j + 1) - i)
  BY DEF decoded
<1>5. w = SubSeq(f, p + 1, p + d) /\ Len(w) = d
  <2>1. j <= n
    <3> HIDE DEF j, n
    <3> QED BY <1>1, SMT
  <2> QED BY <1>1, <2>1, WrittenIs
<1>6. \A k \in E : k \in Nat /\ k > p + d
  BY NoEarlierEnd
<1>7. \A k \in E : k <= p + L
  BY DEF Ends
<1>8. LineItem = [content |-> SubSeq(w, 1, Len(w) - (s - 1)), raw |-> LineRaw]
  BY DEF LineItem
<1> HIDE DEF p, r, i, j, q, a, n, h, m, L, s, d, E, f, w
<1>9. p \in 0..h /\ d \in Nat /\ p + d < a /\ p + d < h /\ p + d <= h /\ d - (s - 1) \in Int /\ d - (s - 1) <= d
  BY <1>1, <1>3, <1>4, SMT
<1>10. SubSeq(w, 1, Len(w) - (s - 1)) = SubSeq(f, p + 1, p + (d - (s - 1)))
  <2>1. p + d <= Len(f)
    BY <1>9 DEF h, f
  <2>2. SubSeq(SubSeq(f, p + 1, p + d), 1, d - (s - 1)) = SubSeq(f, p + 1, p + (d - (s - 1)))
    BY <1>1, <1>2, <1>9, <2>1, PrefixOfPart
  <2> QED BY <1>5, <2>2
<1>11. CASE j = m
  <2>1. d = L
    BY <1>1, <1>2, <1>4, <1>11, SMT
  <2>2. E = {}
    <3> SUFFICES ASSUME NEW k \in E PROVE FALSE
      OBVIOUS
    <3>1. k \in Nat /\ k > p + d /\ k <= p + d
      BY <1>6, <1>7, <2>1
    <3> QED BY <1>1, <1>9, <3>1, SMT
  <2>3. ~(h <= p + L)
    BY <1>1, <1>9, <2>1, SMT
  <2>4. ~Incomplete(LineStart, c) /\ LineEnd(LineStart, c) = p + L
    BY <2>2, <2>3 DEF Incomplete, LineEnd, E, h, p, L
  <2>5. LineRaw = d
    BY <1>11 DEF LineRaw, j, m, d
  <2>6. LineAt(LineStart, c) = [content |-> SubSeq(f, p + 1, (p + L) - (s - 1)), raw |-> (p + L) - p]
    BY <2>2, <2>4 DEF LineAt, E, f, p, s
  <2>7. (p + L) - (s - 1) = p + (d - (s - 1)) /\ (p + L) - p = d
    BY <1>1, <1>3, <1>9, <2>1, SMT
  <2>8. LineAt(LineStart, c) = LineItem
    BY <1>8, <1>10, <2>5, <2>6, <2>7
  <2> QED BY <1>9, <1>11, <2>1, <2>2, <2>4, <2>5, <2>8 DEF E, p, j, m, h
<1>12. CASE j # m
  <2> DEFINE e == p + d + 1
  <2>1. j < m
    <3> SUFFICES ASSUME ~(j < m) PROVE FALSE
      OBVIOUS
    <3>1. m \in q .. n - 1 /\ ~(j <= m)
      BY <1>1, <1>2, <1>12, SMT
    <3>2. m \in Stops
      BY <3>1 DEF Stops, m, q, n
    <3> QED BY <3>1, <3>2, StopFacts DEF j
  <2>2. Match(SubSeq(f, p + 1, e))
    <3>1. Match(Written(j + 1))
      BY <1>12, StopFacts DEF Stops, j, m
    <3>2. j + 1 \in Nat /\ i <= j + 1 /\ j + 1 <= n
      BY <1>1, SMT
    <3>3. Written(j + 1) = SubSeq(f, p + 1, p + decoded(j + 1))
      BY <3>2, WrittenIs DEF i, n, f, p
    <3>4. p + decoded(j + 1) = e
      <4>1. p + (r + ((j + 1) - i)) = p + (r + (j - i)) + 1
        BY <1>1, SMT
      <4> QED BY <1>4, <4>1
    <3> QED BY <3>1, <3>3, <3>4
  <2>3. e \in Nat /\ e <= h /\ e <= p + L /\ p + 1 <= e
    BY <1>1, <1>2, <1>4, <1>9, <2>1, SMT
  <2>4. c => p + 2 <= e
    <3> SUFFICES ASSUME c PROVE p + 2 <= e
      OBVIOUS
    <3>1. Searched > p /\ Searched = p + r + (q - i)
      BY <1>0, SearchedIs DEF SearchedFor, p, r, q, i
    <3> QED BY <1>1, <1>4, <3>1, SMT
  <2>5. e \in E
    <3>1. e \in p + (IF c THEN 2 ELSE 1) .. h
      <4>1. CASE c
        <5>1. e \in p + 2 .. h
          <6> HIDE DEF e
          <6> QED BY <1>1, <2>3, <2>4, <4>1, SMT
        <5> QED BY <4>1, <5>1
      <4>2. CASE ~c
        <5>1. e \in p + 1 .. h
          <6> HIDE DEF e
          <6> QED BY <1>1, <2>3, <4>2, SMT
        <5> QED BY <4>2, <5>1
      <4> QED BY <4>1, <4>2
    <3> HIDE DEF e
    <3> QED BY <2>2, <2>3, <3>1 DEF E, Ends, p, h, f, L
  <2>6. \A k \in E : e <= k
    BY <1>1, <1>6, <1>9, SMT
  <2> HIDE DEF e
  <2>7. Min(E) = e
    <3>1. Min(E) \in E /\ \A k \in E : Min(E) <= k
      BY <1>6, <2>5, MinIsLeast
    <3>2. Min(E) <= e /\ e <= Min(E) /\ Min(E) \in Nat
      BY <1>6, <2>5, <2>6, <3>1
    <3> QED BY <2>3, <3>2, SMT
  <2>8. ~Incomplete(LineStart, c) /\ LineEnd(LineStart, c) = e /\ E # {}
    BY <2>5, <2>7 DEF Incomplete, LineEnd, E
  <2>9. LineRaw = d + 1
    BY <1>12 DEF LineRaw, j, m, d
  <2>10. LineAt(LineStart, c) = [content |-> SubSeq(f, p + 1, e - s), raw |-> e - p]
    BY <2>8 DEF LineAt, E, f, p, s
  <2>11. e - s = p + (d - (s - 1)) /\ e - p = d + 1 /\ e = p + (d + 1)
    BY <1>1, <1>3, <1>9, SMT DEF e
  <2>12. LineAt(LineStart, c) = LineItem
    BY <1>8, <1>10, <2>9, <2>10, <2>11
  <2> QED BY <1>9, <1>12, <2>8, <2>9, <2>11, <2>12 DEF E, p, j, m, h
<1> QED BY <1>11, <1>12

\* The lines found so far, and those that a search at p would find.
Remaining(p, c) == FileLines = lines \o LinesFrom[<<p, c>>]

\* LinesSoFar, in two parts.
LEMMA LinesSoFarIs == LinesSoFar <=> \E c \in BOOLEAN : Remaining(LineStart, c) /\ SearchedFor(c)
BY DEF LinesSoFar, Remaining, SearchedFor

\* The same after a step.
LEMMA LinesSoFarIsAfter == LinesSoFar' <=> \E c \in BOOLEAN : Remaining(LineStart, c)' /\ SearchedFor(c)'
BY DEF LinesSoFar, Remaining, SearchedFor

\* The parts of ChunkInv.
LEMMA ChunkParts == ASSUME ChunkInv PROVE FileInv /\ lines \in Seq(Item) /\ LinesSoFar
BY DEF ChunkInv, FileInv

\* A step that finds no line and leaves none of the file unsearched.
LEMMA SearchGoesOn ==
  ASSUME ChunkInv, FileInv', file' = file, start' = start, lines' = lines, LineStart' = LineStart,
         Searched <= Searched', Searched \in Nat, Searched' \in Nat,
         \A c \in BOOLEAN : \A k \in Ends(LineStart, c) : k > Searched => k > Searched'
  PROVE  ChunkInv'
<1>1. PICK c \in BOOLEAN : Remaining(LineStart, c) /\ SearchedFor(c)
  BY ChunkParts, LinesSoFarIs
<1>2. LinesFrom' = LinesFrom /\ \A p, d : Ends(p, d)' = Ends(p, d)
  BY SameLines
<1>3. Remaining(LineStart, c)'
  BY <1>1, <1>2 DEF Remaining, FileLines
<1>4. Ends(LineStart, c)' = Ends(LineStart, c)
  BY <1>2 DEF Ends, Match, Separator
<1>5. c => Searched' > LineStart'
  <2> SUFFICES ASSUME c PROVE Searched' > LineStart
    OBVIOUS
  <2> DEFINE a == Searched
             b == Searched'
             p == LineStart
  <2>1. a > p /\ a <= b /\ a \in Nat /\ b \in Nat /\ p \in Nat
    BY <1>1, ChunkParts, Positions DEF SearchedFor
  <2> HIDE DEF a, b, p
  <2>2. b > p
    BY <2>1, SMT
  <2> QED BY <2>2 DEF b, p
<1>6. SearchedFor(c)'
  BY <1>1, <1>4, <1>5 DEF SearchedFor
<1>7. LinesSoFar'
  BY <1>3, <1>6, LinesSoFarIsAfter
<1> QED BY <1>7, ChunkParts DEF ChunkInv, FileInv

\* A step that the decoder takes no part in.
LEMMA SearchStays ==
  ASSUME ChunkInv, FileInv', UNCHANGED <<file, start, readOffset, dec, lines>>
  PROVE  ChunkInv'
<1>1. LineStart' = LineStart /\ Searched' = Searched
  BY DEF LineStart, Searched
<1>2. Searched \in Nat
  BY ChunkParts, SearchedIs
<1>3. Searched <= Searched
  BY <1>2, SMT
<1> QED BY <1>1, <1>2, <1>3, SearchGoesOn

\* Tailer.read.
LEMMA ReadSearches ==
  ASSUME ChunkInv, FileInv', Read
  PROVE  ChunkInv'
<1>0. FileInv
  BY ChunkParts
<1>1. LineStart' = LineStart /\ file' = file /\ start' = start /\ lines' = lines /\ dec.chunk = <<>>
  BY <1>0, ReadHolds DEF Read
<1>2. dec'.raw = dec.raw /\ dec'.i = 0 /\ dec'.j = 0
  <2>1. dec \in DecoderRecord
    BY <1>0, DecoderHas DEF FileInv
  <2> QED BY <2>1 DEF Read, DecoderRecord
<1>3. Searched = LineStart + dec.raw /\ Searched \in Nat
  BY <1>0, <1>1, SearchedIs
<1>4. Searched' = LineStart + dec.raw
  <2>1. Searched' = LineStart + dec.raw + (IF dec'.chunk = <<>> THEN 0 ELSE 0 - 0)
    BY <1>1, <1>2 DEF Searched
  <2>2. 0 - 0 = 0
    BY SMT
  <2>3. Searched' = LineStart + dec.raw + 0
    BY <2>1, <2>2
  <2>4. LineStart + dec.raw + 0 = LineStart + dec.raw
    <3> DEFINE x == LineStart + dec.raw
    <3>1. x \in Nat
      BY <1>3
    <3> HIDE DEF x
    <3>2. x + 0 = x
      BY <3>1, SMT
    <3> QED BY <3>2 DEF x
  <2> QED BY <2>3, <2>4
<1>5. Searched' = Searched /\ Searched <= Searched
  <2>1. Searched <= Searched
    <3> DEFINE x == Searched
    <3>1. x \in Nat
      BY <1>3
    <3> HIDE DEF x
    <3>2. x <= x
      BY <3>1, SMT
    <3> QED BY <3>2 DEF x
  <2> QED BY <1>3, <1>4, <2>1
<1> QED BY <1>1, <1>3, <1>5, SearchGoesOn

\* The loop of decodeIncomingData comes to the end of the chunk.
LEMMA RestSearches ==
  ASSUME ChunkInv, FileInv', DecodeRest
  PROVE  ChunkInv'
<1> DEFINE n == Len(dec.chunk)
           p == LineStart
           r == dec.raw
           i == dec.i
           q == dec.j
           a == readOffset
<1>0. FileInv /\ dec.chunk # <<>> /\ Stops = {}
  BY ChunkParts DEF DecodeRest
<1>1. /\ LineStart' = LineStart /\ file' = file /\ start' = start /\ lines' = lines
      /\ dec'.chunk = <<>> /\ dec'.raw = r + (n - i)
  BY <1>0, DecodeRestHolds DEF DecodeRest, decoded
<1>2. /\ p \in Nat /\ r \in Nat /\ i \in Nat /\ i <= q /\ q <= n /\ n \in Nat /\ a \in Nat /\ q \in Nat
      /\ p + r + (n - i) = a
  BY <1>0, Positions
<1>3. Searched = p + r + (q - i) /\ Searched \in Nat
  BY <1>0, SearchedIs
<1>4. Searched' = p + (r + (n - i)) + 0
  BY <1>1 DEF Searched
<1>5. Searched' = a /\ p + r + (q - i) <= a
  <2> HIDE DEF n, p, r, i, q, a
  <2> QED BY <1>2, <1>4, SMT
<1>6. ASSUME NEW c \in BOOLEAN, NEW k \in Ends(LineStart, c), k > Searched PROVE k > Searched'
  <2>1. ~(k <= a)
    BY <1>0, <1>6, EndIsStop
  <2>2. k \in Nat
    <3> DEFINE h == Len(file.input)
    <3>1. a <= h /\ h \in Nat
      BY <1>0, Positions
    <3>2. p \in 0..h
      <4> HIDE DEF n, p, r, i, q, a, h
      <4> QED BY <1>2, <3>1, SMT
    <3> QED BY <1>0, <3>2, LineGoesOn
  <2> HIDE DEF a
  <2>3. k > a
    BY <1>2, <2>1, <2>2, SMT
  <2> QED BY <1>5, <2>3
<1>7. Searched' \in Nat /\ Searched <= Searched'
  BY <1>2, <1>3, <1>5
<1> QED BY <1>1, <1>3, <1>6, <1>7, SearchGoesOn

\* A line is found.
LEMMA LineSearches ==
  ASSUME ChunkInv, FileInv', DecodeLine
  PROVE  ChunkInv'
<1> DEFINE p == LineStart
           j == NextStop
           h == Len(file.input)
           e == LineStart + LineRaw
           R(d) == LinesFrom[<<e, d>>]
<1>0. FileInv /\ lines \in Seq(Item) /\ dec.chunk # <<>>
  BY ChunkParts DEF DecodeLine
<1>1. PICK c \in BOOLEAN : Remaining(p, c) /\ SearchedFor(c)
  BY ChunkParts, LinesSoFarIs
<1> DEFINE cut == Ends(p, c) = {}
<1>2. /\ ~Incomplete(p, c) /\ LineAt(p, c) = LineItem /\ LineEnd(p, c) = e
      /\ cut = (j = dec.maxj) /\ p \in 0..h
  BY <1>0, <1>1, LineFound
<1>3. LineItem \in Item
  <2>1. LineAt(p, c) \in Item
    BY <1>0, <1>2, LineAtType
  <2> QED BY <1>2, <2>1
<1>4. <<p, c>> \in Spots /\ cut \in BOOLEAN
  BY <1>2 DEF Spots
<1>5. <<e, cut>> \in Spots /\ e \in Nat
  <2>1. e \in Nat /\ e <= h
    BY <1>0, <1>2, LineGoesOn
  <2>2. h \in Nat
    BY <1>0, Positions
  <2>3. e \in 0..h
    <3> HIDE DEF e, h
    <3> QED BY <2>1, <2>2, SMT
  <2> QED BY <1>4, <2>1, <2>3 DEF Spots
<1>6. LinesFrom[<<p, c>>] = <<LineItem>> \o LinesFrom[<<e, cut>>]
  <2> DEFINE x == <<p, c>>
  <2>1. x \in Spots /\ x[1] = p /\ x[2] = c
    BY <1>4
  <2> HIDE DEF x, p
  <2>2. LinesFrom[x] = LineStep(LinesFrom, x)
    BY <1>0, <2>1, LinesFromIs
  <2> QED BY <1>2, <2>1, <2>2 DEF LineStep, x
<1>7. FileLines = Append(lines, LineItem) \o LinesFrom[<<e, cut>>]
  <2> DEFINE it == LineItem
             rest == LinesFrom[<<e, cut>>]
  <2>1. rest \in Seq(Item) /\ <<it>> \in Seq(Item) /\ it \in Item /\ lines \in Seq(Item)
    BY <1>0, <1>3, <1>5, LinesFromType, OneItem
  <2>2. FileLines = lines \o (<<it>> \o rest)
    BY <1>1, <1>6 DEF Remaining
  <2> HIDE DEF it, rest
  <2>3. Append(lines, it) = lines \o <<it>>
    BY <2>1, AppendIsConcat
  <2>4. (lines \o <<it>>) \o rest = lines \o (<<it>> \o rest)
    BY <2>1, ConcatAssociative
  <2> QED BY <2>2, <2>3, <2>4 DEF it, rest
<1>8. /\ file' = file /\ start' = start /\ lines' = Append(lines, LineItem) /\ LineStart' = e
      /\ dec'.chunk = dec.chunk /\ dec'.raw = 0 /\ dec'.j = j + 1 /\ dec'.i = IF cut THEN j ELSE j + 1
  BY <1>0, <1>2, DecodeLineDoes, DecodeLineHolds
<1>9. LinesFrom' = LinesFrom /\ \A b, d : Ends(b, d)' = Ends(b, d)
  BY <1>8, SameLines
<1>10. lines' \in Seq(Item)
  BY <1>0, <1>3, <1>8, AppendProperties
<1>11. FileLines' = FileLines
  BY <1>8, <1>9 DEF FileLines
<1>12. Searched' = e + 0 + (dec'.j - dec'.i)
  BY <1>0, <1>8 DEF Searched
<1>13. j \in Nat
  BY <1>0, StopFacts
<1>14. \A d : Ends(LineStart, d)' = Ends(e, d)
  BY <1>8 DEF Ends, Match, Separator
<1> HIDE DEF e
<1>15. CASE cut
  <2>1. Remaining(LineStart, TRUE)'
    BY <1>7, <1>8, <1>9, <1>11, <1>15 DEF Remaining
  <2>2. Searched' = e + 1
    <3>1. e + 0 + ((j + 1) - j) = e + 1
      <4> HIDE DEF j
      <4> QED BY <1>5, <1>13, SMT
    <3> QED BY <1>8, <1>12, <1>15, <3>1
  <2>3. \A k \in Ends(e, TRUE) : k > e + 1
    <3> SUFFICES ASSUME NEW k \in Ends(e, TRUE) PROVE k > e + 1
      OBVIOUS
    <3>1. k \in e + 2 .. h
      BY DEF Ends
    <3>2. h \in Nat
      BY <1>0, Positions
    <3> HIDE DEF h
    <3> QED BY <1>5, <3>1, <3>2, SMT
  <2>4. e + 1 > e
    BY <1>5, SMT
  <2>5. SearchedFor(TRUE)'
    BY <1>8, <1>14, <2>2, <2>3, <2>4 DEF SearchedFor
  <2>6. LinesSoFar'
    BY <2>1, <2>5, LinesSoFarIsAfter
  <2> QED BY <1>10, <2>6 DEF ChunkInv, FileInv
<1>16. CASE ~cut
  <2>0. cut = FALSE
    BY <1>16
  <2>1. Remaining(LineStart, FALSE)'
    BY <1>7, <1>8, <1>9, <1>11, <2>0 DEF Remaining
  <2>2. Searched' = e
    <3>1. e + 0 + ((j + 1) - (j + 1)) = e
      <4> HIDE DEF j
      <4> QED BY <1>5, <1>13, SMT
    <3> QED BY <1>8, <1>12, <1>16, <3>1
  <2>3. \A k \in Ends(e, FALSE) : k > e
    <3> SUFFICES ASSUME NEW k \in Ends(e, FALSE) PROVE k > e
      OBVIOUS
    <3>1. k \in e + 1 .. h
      BY DEF Ends
    <3>2. h \in Nat
      BY <1>0, Positions
    <3> HIDE DEF h
    <3> QED BY <1>5, <3>1, <3>2, SMT
  <2>4. SearchedFor(FALSE)'
    BY <1>8, <1>14, <2>2, <2>3 DEF SearchedFor
  <2>5. LinesSoFar'
    BY <2>1, <2>4, LinesSoFarIsAfter
  <2> QED BY <1>10, <2>5 DEF ChunkInv, FileInv
<1> QED BY <1>15, <1>16

\* A tailer that begins has found no line.
BeginsSearch == BeginsInFile /\ lines = <<>>

\* It has found no line and searched nothing.
LEMMA BeginsSearching == BeginsSearch => ChunkInv
<1> SUFFICES ASSUME BeginsSearch PROVE ChunkInv
  OBVIOUS
<1>1. FileInv /\ lines = <<>>
  BY BeginsHolding DEF BeginsSearch
<1>2. dec.chunk = <<>> /\ dec.i = 0 /\ dec.raw = 0 /\ start = readOffset
  BY DEF BeginsSearch, BeginsInFile, Begins, NewDecoder
<1>3. LineStart = readOffset - (0 - 0) - 0 /\ Searched = LineStart + 0 + 0
  BY <1>2, EmptyChannel DEF LineStart, Searched
<1> DEFINE n == readOffset
           h == Len(file.input)
<1>4. n \in Nat /\ n <= h /\ h \in Nat
  BY <1>1, Positions
<1> HIDE DEF n
<1>5. LineStart = n /\ Searched = n
  <2>1. n - (0 - 0) - 0 = n /\ n + 0 + 0 = n
    BY <1>4, SMT
  <2> QED BY <1>3, <2>1 DEF n
<1>6. n \in 0..h
  <2> HIDE DEF h
  <2> QED BY <1>4, SMT
<1>7. <<n, FALSE>> \in Spots
  BY <1>6 DEF Spots
<1>8. LinesFrom[<<n, FALSE>>] \in Seq(Item) /\ start = n
  BY <1>1, <1>2, <1>7, LinesFromType DEF n
<1>9. Remaining(LineStart, FALSE)
  BY <1>1, <1>5, <1>8, ConcatEmptySeq DEF Remaining, FileLines
<1>10. SearchedFor(FALSE)
  BY <1>1, <1>5, <1>6, LineGoesOn DEF SearchedFor
<1>11. LinesSoFar
  BY <1>9, <1>10, LinesSoFarIs
<1> QED BY <1>1, <1>11, EmptyChannel DEF ChunkInv, FileInv

\* Every step preserves the invariant.
LEMMA NextSearches == ChunkInv /\ [Next]_vars => ChunkInv'
<1> SUFFICES ASSUME ChunkInv, [Next]_vars PROVE ChunkInv'
  OBVIOUS
<1>0. FileInv /\ FileInv'
  BY ChunkParts, NextHolds
<1>1. CASE Read
  BY <1>0, <1>1, ReadSearches
<1>2. CASE DecodeLine
  BY <1>0, <1>2, LineSearches
<1>3. CASE DecodeRest
  BY <1>0, <1>3, RestSearches
<1>4. CASE Restart
  <2>1. (BeginsSearch => ChunkInv)'
    BY BeginsSearching, PTL
  <2>2. BeginsInFile' /\ lines' = <<>>
    BY <1>0, <1>4, RestartsInFile DEF Restart
  <2> QED BY <2>1, <2>2 DEF BeginsSearch
<1>5. CASE \/ ParseLine \/ ParserTimeout \/ ParserStops \/ HandleLine \/ HandlerTimeout \/ HandlerStops \/ ForwardMessage
           \/ Stop \/ DecoderStops \/ ForwardStops \/ UNCHANGED vars
  <2>1. UNCHANGED <<file, start, readOffset, dec, lines>>
    BY <1>5 DEF ParseLine, ParserTimeout, ParserStops, HandleLine, HandlerTimeout, HandlerStops, ForwardMessage,
                Stop, DecoderStops, ForwardStops, vars
  <2> QED BY <1>0, <2>1, SearchStays
<1> QED BY <1>1, <1>2, <1>3, <1>4, <1>5 DEF Next, Steps

\* The lines that decodeIncomingData finds are the first ones of the file,
\* however the reads cut it into chunks, for every content of the file and every
\* limit of a line, after any number of restarts.
THEOREM ChunkingIsIrrelevantAlways == Spec => []ChunkingIsIrrelevant
<1>1. Init => ChunkInv
  <2>1. Init => BeginsSearch
    BY InitInFile DEF Init, BeginsSearch
  <2> QED BY <2>1, BeginsSearching
<1>2. ChunkInv => ChunkingIsIrrelevant
  <2> SUFFICES ASSUME ChunkInv PROVE ChunkingIsIrrelevant
    OBVIOUS
  <2>1. PICK c \in BOOLEAN : Remaining(LineStart, c)
    BY ChunkParts, LinesSoFarIs
  <2> DEFINE rest == LinesFrom[<<LineStart, c>>]
             n == Len(lines)
  <2>2. <<LineStart, c>> \in Spots
    <3> DEFINE p == LineStart
               h == Len(file.input)
               r == dec.raw
               l == Len(dec.chunk)
               i == dec.i
               a == readOffset
    <3>1. p \in Nat /\ h \in Nat /\ r \in Nat /\ l \in Nat /\ i \in Nat /\ i <= l /\ p + r + (l - i) = a /\ a <= h /\ a \in Nat
      BY ChunkParts, Positions
    <3> HIDE DEF p, h, r, l, i, a
    <3>2. p \in 0..h
      BY <3>1, SMT
    <3> QED BY <3>2 DEF Spots, p, h
  <2>3. rest \in Seq(Item) /\ lines \in Seq(Item) /\ FileLines = lines \o rest
    BY <2>1, <2>2, ChunkParts, LinesFromType DEF Remaining
  <2> HIDE DEF rest
  <2>4. n \in Nat /\ Len(rest) \in Nat /\ Len(FileLines) = n + Len(rest) /\ FileLines \in Seq(Item)
    BY <2>3, ConcatProperties, LenProperties
  <2>5. n <= n + Len(rest) /\ n \in Int /\ 1 \in Nat /\ 1 >= 1 /\ (IF 1 <= n THEN n - 1 + 1 ELSE 0) = n
    <3> DEFINE m == Len(rest)
    <3>1. n \in Nat /\ m \in Nat
      BY <2>4
    <3> HIDE DEF n, m
    <3>2. n <= n + m /\ n \in Int /\ 1 \in Nat /\ 1 >= 1 /\ (IF 1 <= n THEN n - 1 + 1 ELSE 0) = n
      BY <3>1, SMT
    <3> QED BY <3>2 DEF m
  <2> DEFINE u == SubSeq(FileLines, 1, n)
  <2>6. u \in Seq(Item) /\ Len(u) = IF 1 <= n THEN n - 1 + 1 ELSE 0
    BY <2>4, <2>5, PartOfText
  <2>7. \A k \in 1..n : u[k] = FileLines[k]
    <3> DEFINE g == FileLines
    <3>1. g \in Seq(Item) /\ n <= Len(g)
      BY <2>4, <2>5
    <3> HIDE DEF g, n
    <3>2. \A k \in 1..n : SubSeq(g, 1, n)[k] = g[k]
      BY <2>4, <3>1, SMT DEF n
    <3> QED BY <3>2 DEF g, n
  <2>8. \A k \in 1..n : FileLines[k] = lines[k]
    <3>1. \A k \in 1 .. n + Len(rest) : FileLines[k] = IF k <= n THEN lines[k] ELSE rest[k - n]
      BY <2>3, ConcatProperties
    <3>2. \A k \in 1..n : k \in 1 .. n + Len(rest) /\ k <= n
      <4> DEFINE m == Len(rest)
      <4>1. n \in Nat /\ m \in Nat
        BY <2>4
      <4> HIDE DEF n, m
      <4>2. \A k \in 1..n : k \in 1 .. n + m /\ k <= n
        BY <4>1, SMT
      <4> QED BY <4>2 DEF m
    <3> QED BY <3>1, <3>2
  <2>9. lines = u
    <3>1. Len(lines) = Len(u) /\ \A k \in 1 .. Len(lines) : lines[k] = u[k]
      BY <2>5, <2>6, <2>7, <2>8
    <3> HIDE DEF u
    <3> QED BY <2>3, <2>6, <3>1, SeqEqual
  <2> QED BY <2>4, <2>5, <2>9 DEF ChunkingIsIrrelevant
<1>3. Spec => []ChunkInv
  BY <1>1, NextSearches, PTL DEF Spec
<1> QED BY <1>2, <1>3, PTL

----------------------------------------------------------------------------
(* What the goroutines hold *)

\* Nothing covers nothing.
LEMMA CoversNothing ==
  ASSUME NEW f, NEW n \in Nat, NEW s, Visible(s) = <<>>, n <= Len(f)
  PROVE  Covers(s, f, n, n)
<1>1. n + 1 \in Int /\ n \in Int /\ n < n + 1 /\ n <= n
  BY SMT
<1>2. SubSeq(f, n + 1, n) = <<>>
  BY <1>1, SubSeqEmpty
<1> QED BY <1>1, <1>2, VisibleOfNone DEF Covers

\* Only what is not visible covers nothing.
LEMMA NothingCovered ==
  ASSUME NEW f, NEW n \in Nat, NEW s, Covers(s, f, n, n)
  PROVE  Visible(s) = <<>>
<1>1. n + 1 \in Int /\ n \in Int /\ n < n + 1
  BY SMT
<1>2. SubSeq(f, n + 1, n) = <<>>
  BY <1>1, SubSeqEmpty
<1> QED BY <1>2, VisibleOfNone DEF Covers

\* What is visible counts.
LEMMA CoversSame ==
  ASSUME NEW f, NEW a, NEW b, NEW s, Covers(s, f, a, b), NEW t, Visible(t) = Visible(s)
  PROVE  Covers(t, f, a, b)
BY DEF Covers

\* One text after the other.
LEMMA CoversJoin ==
  ASSUME NEW f \in Seq(Bytes), NEW a \in Nat, NEW b \in Nat, NEW c \in Nat, NEW s \in Text, NEW t \in Text,
         Covers(s, f, a, b), Covers(t, f, b, c)
  PROVE  Covers(s \o t, f, a, c)
<1> DEFINE u == SubSeq(f, a + 1, b)
           v == SubSeq(f, b + 1, c)
           n == Len(f)
<1>1. n \in Nat /\ a <= b /\ b <= n /\ b <= c /\ c <= n
  BY LenProperties DEF Covers
<1> HIDE DEF n
<1>2. /\ a + 1 \in Nat /\ b + 1 \in Nat /\ b \in Int /\ c \in Int /\ a + 1 >= 1 /\ b + 1 >= 1 /\ a <= c
      /\ a + 1 \in 1 .. n + 1 /\ b \in (a + 1) - 1 .. n /\ c \in b .. n
  BY <1>1, SMT
<1>3. u \in Seq(Bytes) /\ v \in Seq(Bytes)
  BY <1>1, <1>2, PartOfText DEF n
<1>4. u \o v = SubSeq(f, a + 1, c)
  BY <1>2, ConcatAdjacentSubSeq DEF n
<1> DEFINE B == Bytes \cup {"T"}
<1>5. s \in Seq(B) /\ t \in Seq(B)
  BY DEF Text
<1>6. Visible(s) = Visible(u) /\ Visible(t) = Visible(v)
  BY DEF Covers
<1> HIDE DEF u, v, B
<1>7. Visible(s \o t) = Visible(s) \o Visible(t)
  BY <1>5, VisibleJoined
<1>8. Visible(u \o v) = Visible(u) \o Visible(v)
  BY <1>3, VisibleJoined
<1> QED BY <1>1, <1>2, <1>4, <1>6, <1>7, <1>8 DEF Covers, n

\* No item.
LEMMA CoversNone == ASSUME NEW f, NEW a PROVE CoversAll(<<>>, f, a)
<1>1. Len(<<>>) = 0 /\ ~(0 > 1)
  BY EmptyChannel, SMT
<1> QED BY <1>1 DEF CoversAll

\* One item.
LEMMA CoversOne ==
  ASSUME NEW f, NEW a, NEW m \in Item, Covers(m.content, f, a, a + m.raw)
  PROVE  CoversAll(<<m>>, f, a)
<1>1. Len(<<m>>) = 1 /\ ~(1 > 1) /\ <<m>>[1] = m
  BY OneItem, SMT
<1> QED BY <1>1 DEF CoversAll

\* The first of the items.
LEMMA CoversFirst ==
  ASSUME NEW f, NEW a, NEW s \in Seq(Item), s # <<>>, CoversAll(s, f, a)
  PROVE  Covers(s[1].content, f, a, a + s[1].raw)
BY DEF CoversAll

\* forwardMessages takes the first of the items.
LEMMA CoversTail ==
  ASSUME NEW f, NEW a, NEW s \in Seq(Item), s # <<>>, Len(s) <= 2, CoversAll(s, f, a)
  PROVE  CoversAll(Tail(s), f, a + s[1].raw)
<1>1. Len(s) \in {1, 2}
  BY Lengths
<1>2. CASE Len(s) = 1
  BY <1>2, FirstItem, CoversNone
<1>3. CASE Len(s) = 2
  <2>1. Len(Tail(s)) = 1 /\ Tail(s)[1] = s[2]
    <3>1. Len(Tail(s)) = Len(s) - 1 /\ \A k \in 1 .. Len(Tail(s)) : Tail(s)[k] = s[k + 1]
      BY HeadTailProperties
    <3>2. 2 - 1 = 1 /\ 1 \in 1..1 /\ 1 + 1 = 2
      BY SMT
    <3> QED BY <1>3, <3>1, <3>2
  <2>2. 2 > 1 /\ ~(1 > 1)
    BY SMT
  <2> QED BY <1>3, <2>1, <2>2 DEF CoversAll
<1> QED BY <1>1, <1>2, <1>3

\* Two handfuls of items.
LEMMA CoversBoth ==
  ASSUME NEW f, NEW a \in Nat, NEW s \in Seq(Item), NEW t \in Seq(Item), Len(s) <= 1, Len(t) <= 1,
         CoversAll(s, f, a), CoversAll(t, f, a + Raw(s))
  PROVE  CoversAll(s \o t, f, a)
<1>1. Len(s) \in {0, 1} /\ Len(t) \in {0, 1} /\ (s = <<>> <=> Len(s) = 0) /\ (t = <<>> <=> Len(t) = 0)
  BY Lengths
<1>2. CASE Len(s) = 0
  <2>1. s = <<>> /\ <<>> \o t = t /\ Raw(<<>>) = 0
    BY <1>1, <1>2, EmptyChannel, ConcatEmptySeq
  <2>2. a + 0 = a
    BY SMT
  <2> QED BY <2>1, <2>2
<1>3. CASE Len(t) = 0
  <2>1. t = <<>> /\ s \o <<>> = s
    BY <1>1, <1>3, ConcatEmptySeq
  <2> QED BY <2>1
<1>4. CASE Len(s) = 1 /\ Len(t) = 1
  <2>1. s # <<>> /\ t # <<>>
    BY <1>1, <1>4, SMT
  <2>2. Raw(s) = s[1].raw
    BY <1>4, <2>1, FirstItem, Lengths
  <2>3. Len(s \o t) = 2 /\ (s \o t)[1] = s[1] /\ (s \o t)[2] = t[1]
    <3>1. /\ Len(s \o t) = Len(s) + Len(t)
          /\ \A k \in 1 .. Len(s) + Len(t) : (s \o t)[k] = IF k <= Len(s) THEN s[k] ELSE t[k - Len(s)]
      BY ConcatProperties
    <3>2. 1 + 1 = 2 /\ 1 \in 1..2 /\ 2 \in 1..2 /\ 1 <= 1 /\ ~(2 <= 1) /\ 2 - 1 = 1
      BY SMT
    <3> QED BY <1>4, <3>1, <3>2
  <2>4. Covers(s[1].content, f, a, a + s[1].raw) /\ Covers(t[1].content, f, a + s[1].raw, a + s[1].raw + t[1].raw)
    BY <2>1, <2>2, CoversFirst
  <2> QED BY <2>3, <2>4 DEF CoversAll
<1> QED BY <1>1, <1>2, <1>3, <1>4

\* Marks before or after a text.
LEMMA Marked ==
  ASSUME NEW s \in Text, NEW t \in Text
  PROVE  /\ s \o t \in Text
         /\ Visible(s) = <<>> => Visible(s \o t) = Visible(t)
         /\ Visible(t) = <<>> => Visible(s \o t) = Visible(s)
<1>1. s \o t \in Text
  BY JoinedText
<1> DEFINE B == Bytes \cup {"T"}
<1>2. s \in Seq(B) /\ t \in Seq(B)
  BY DEF Text
<1> HIDE DEF B
<1> QED BY <1>1, <1>2, VisibleAround

\* The buffer of the line parser, as a Message.
LEMMA BufferedCovers ==
  ASSUME NEW p \in [buf : Text, raw : Nat], NEW f, NEW a, Covers(p.buf, f, a, a + p.raw)
  PROVE  CoversAll(Buffered(p), f, a)
<1> DEFINE m == [content |-> p.buf, raw |-> p.raw]
<1>1. m \in Item /\ m.content = p.buf /\ m.raw = p.raw
  BY DEF Item
<1>2. Buffered(p) = <<m>> \/ Buffered(p) = <<>>
  BY DEF Buffered
<1> HIDE DEF m
<1>3. CoversAll(<<m>>, f, a)
  BY <1>1, CoversOne
<1> QED BY <1>2, <1>3, CoversNone

\* MultiLineHandler.sendBuffer.
LEMMA SendBufferCovers ==
  ASSUME NEW h \in Handler, NEW f, NEW a, Covers(h.buf, f, a, a + h.linesLen)
  PROVE  CoversAll(SendBuffer(h).msgs, f, a) /\ SendBuffer(h).han.buf = <<>>
<1> DEFINE content == TrimSpace(h.buf)
           m == [content |-> content, raw |-> h.linesLen]
<1>0. h.buf \in Text /\ h.linesLen \in Nat
  BY DEF Handler
<1>1. SendBuffer(h).han.buf = <<>>
  <2> DEFINE g == [h EXCEPT !.buf = <<>>, !.linesLen = 0, !.shouldTruncate = FALSE]
  <2>1. SendBuffer(h).han = g
    BY DEF SendBuffer
  <2>2. g.buf = <<>>
    BY DEF Handler
  <2> QED BY <2>1, <2>2
<1>2. SendBuffer(h).msgs = <<m>> \/ SendBuffer(h).msgs = <<>>
  BY DEF SendBuffer
<1>3. content \in Text /\ Visible(content) = Visible(h.buf)
  BY <1>0, TrimText, VisibleTrimmed
<1> HIDE DEF content
<1>4. m \in Item /\ m.content = content /\ m.raw = h.linesLen
  BY <1>0, <1>3 DEF Item
<1> HIDE DEF m
<1>5. Covers(content, f, a, a + h.linesLen)
  BY <1>3, CoversSame
<1>6. CoversAll(<<m>>, f, a)
  BY <1>4, <1>5, CoversOne
<1> QED BY <1>1, <1>2, <1>6, CoversNone

\* SingleLineHandler.process.
LEMMA SingleLineCovers ==
  ASSUME NEW h \in Handler, NEW m \in Item, NEW f, NEW a, Covers(m.content, f, a, a + m.raw)
  PROVE  CoversAll(SingleLine(h, m).msgs, f, a) /\ SingleLine(h, m).han.buf = h.buf
<1> DEFINE flag == Flag(h.shouldTruncate)
           trimmed == TrimSpace(m.content)
           content == flag \o trimmed
           long == Len(content) >= contentLenLimit
           all == content \o Flag(long)
           g == [h EXCEPT !.shouldTruncate = long]
           msg == [m EXCEPT !.content = all]
<1>1. SingleLine(h, m).han = g /\ SingleLine(h, m).msgs = <<msg>>
  BY DEF SingleLine
<1>2. g.buf = h.buf
  BY DEF Handler
<1>3. m.content \in Text /\ h.shouldTruncate \in BOOLEAN
  BY DEF Item, Handler
<1>4. trimmed \in Text /\ Visible(trimmed) = Visible(m.content)
  BY <1>3, TrimText, VisibleTrimmed
<1>5. flag \in Text /\ Visible(flag) = <<>>
  BY <1>3, FlagText, VisibleMarks
<1> HIDE DEF flag, trimmed
<1>6. content \in Text /\ Visible(content) = Visible(m.content)
  BY <1>4, <1>5, Marked
<1>7. long \in BOOLEAN
  OBVIOUS
<1> HIDE DEF content, long
<1>8. Flag(long) \in Text /\ Visible(Flag(long)) = <<>>
  BY <1>7, FlagText, VisibleMarks
<1>9. all \in Text /\ Visible(all) = Visible(m.content)
  BY <1>6, <1>8, Marked
<1> HIDE DEF all
<1>10. msg \in Item /\ msg.raw = m.raw /\ msg.content = all
  BY <1>9 DEF Item
<1> HIDE DEF msg
<1>11. Covers(all, f, a, a + m.raw)
  BY <1>9, CoversSame
<1>12. CoversAll(<<msg>>, f, a)
  BY <1>10, <1>11, CoversOne
<1> QED BY <1>1, <1>2, <1>12

\* What a handler sends and keeps has the bytes that it kept and was given.
Handled(done, f, a) ==
  /\ CoversAll(done.msgs, f, a)
  /\ Covers(done.han.buf, f, a + Raw(done.msgs), a + Raw(done.msgs) + done.han.linesLen)

\* MultiLineHandler.process.
LEMMA MultiLineCovers ==
  ASSUME NEW h \in Handler, NEW m \in Item, h.mode = "multi", NEW f \in Seq(Bytes), NEW a \in Nat,
         Covers(h.buf, f, a, a + h.linesLen), Covers(m.content, f, a + h.linesLen, a + h.linesLen + m.raw)
  PROVE  Handled(MultiLine(h, m), f, a)
<1> DEFINE before == IF NewContent(m.content) THEN SendBuffer(h) ELSE [han |-> h, msgs |-> <<>>]
           g == before.han
           feed == IF g.buf # <<>> THEN <<"n">> ELSE <<>>
           flag == Flag(g.shouldTruncate)
           buf == g.buf \o feed \o flag \o m.content
           added == [g EXCEPT !.shouldTruncate = FALSE, !.linesLen = @ + m.raw,
                              !.buf = @ \o feed \o flag \o m.content]
           full == [added EXCEPT !.buf = @ \o <<"T">>]
           cut == SendBuffer(full)
           x == Raw(before.msgs)
           l == g.linesLen
           n == h.linesLen
<1>0. m.raw \in Nat /\ m.content \in Text /\ n \in Nat /\ h.buf \in Text
  BY DEF Item, Handler
<1>1. /\ g \in Handler /\ before.msgs \in Seq(Item) /\ Len(before.msgs) <= 1 /\ x + l = n
      /\ CoversAll(before.msgs, f, a) /\ Covers(g.buf, f, a + x, a + n)
  <2>1. CASE NewContent(m.content)
    <3>1. before = SendBuffer(h)
      BY <2>1
    <3> HIDE DEF before
    <3>2. /\ before.han \in Handler /\ before.msgs \in Seq(Item) /\ Len(before.msgs) <= 1
          /\ Raw(before.msgs) = n /\ before.han.linesLen = 0
      BY <3>1, SendBufferConserves
    <3>3. CoversAll(before.msgs, f, a) /\ before.han.buf = <<>>
      BY <3>1, SendBufferCovers
    <3>4. a + n \in Nat /\ a + n <= Len(f) /\ n + 0 = n
      <4>1. a + n <= Len(f)
        BY DEF Covers
      <4>2. a + n \in Nat /\ n + 0 = n
        <5> HIDE DEF n
        <5> QED BY <1>0, SMT
      <4> QED BY <4>1, <4>2
    <3> HIDE DEF n
    <3>5. Covers(<<>>, f, a + n, a + n)
      BY <3>4, CoversNothing, VisibleOfNone
    <3> QED BY <3>2, <3>3, <3>4, <3>5
  <2>2. CASE ~NewContent(m.content)
    <3>1. before.han = h /\ before.msgs = <<>>
      BY <2>2
    <3>2. 0 <= 1 /\ 0 + n = n /\ a + 0 = a
      <4> HIDE DEF n
      <4> QED BY <1>0, SMT
    <3> HIDE DEF before
    <3> QED BY <3>1, <3>2, EmptyChannel, CoversNone
  <2> QED BY <2>1, <2>2
<1>m. MultiLine(h, m) = IF Len(added.buf) >= contentLenLimit
                        THEN [han |-> [cut.han EXCEPT !.shouldTruncate = TRUE], msgs |-> before.msgs \o cut.msgs]
                        ELSE [han |-> added, msgs |-> before.msgs]
  BY DEF MultiLine
<1> HIDE DEF before
<1>2. x \in Nat /\ l \in Nat /\ g.buf \in Text /\ g.shouldTruncate \in BOOLEAN
  BY <1>1, RawIsNat, Lengths DEF Handler
<1>3. /\ a + x \in Nat /\ a + n \in Nat /\ a + n + m.raw \in Nat /\ a + x + (l + m.raw) = a + n + m.raw
      /\ l + m.raw \in Nat
  <2> DEFINE k == m.raw
  <2>1. k \in Nat /\ n \in Nat /\ x \in Nat /\ l \in Nat /\ x + l = n
    BY <1>0, <1>1, <1>2
  <2> HIDE DEF x, l, n, k
  <2>2. a + x \in Nat /\ a + n \in Nat /\ a + n + k \in Nat /\ a + x + (l + k) = a + n + k /\ l + k \in Nat
    BY <2>1, SMT
  <2> QED BY <2>2 DEF k
<1>4. buf \in Text /\ Covers(buf, f, a + x, a + n + m.raw)
  <2>1. feed \in Text /\ Visible(feed) = <<>>
    <3>1. <<>> \in Text
      BY EmptySeq DEF Text
    <3> QED BY <3>1, VisibleMarks, VisibleOfNone
  <2>2. flag \in Text /\ Visible(flag) = <<>>
    BY <1>2, FlagText, VisibleMarks
  <2> DEFINE u == g.buf \o feed
             v == u \o flag
  <2>3. buf = v \o m.content
    OBVIOUS
  <2> HIDE DEF feed, flag, buf
  <2>4. u \in Text /\ Visible(u) = Visible(g.buf)
    BY <1>2, <2>1, Marked
  <2> HIDE DEF u
  <2>5. v \in Text /\ Visible(v) = Visible(g.buf)
    BY <2>2, <2>4, Marked
  <2> HIDE DEF v
  <2>6. Covers(v, f, a + x, a + n)
    BY <1>1, <2>5, CoversSame
  <2> HIDE DEF x
  <2>7. v \o m.content \in Text
    BY <1>0, <2>5, JoinedText
  <2>8. Covers(v \o m.content, f, a + x, a + n + m.raw)
    <3> DEFINE b == a + x
               c == a + n
               d == a + n + m.raw
               t == m.content
    <3>1. b \in Nat /\ c \in Nat /\ d \in Nat /\ t \in Text /\ Covers(v, f, b, c) /\ Covers(t, f, c, d)
      BY <1>0, <1>3, <2>6
    <3> HIDE DEF b, c, d, t
    <3>2. Covers(v \o t, f, b, d)
      BY <2>5, <3>1, CoversJoin
    <3> QED BY <3>2 DEF b, c, d, t
  <2> QED BY <2>3, <2>7, <2>8
<1>5. added \in Handler /\ added.linesLen = l + m.raw /\ added.buf = buf
  <2>1. added = [g EXCEPT !.shouldTruncate = FALSE, !.linesLen = g.linesLen + m.raw, !.buf = buf]
    OBVIOUS
  <2> HIDE DEF buf, g, added
  <2> QED BY <1>1, <1>3, <1>4, <2>1 DEF Handler
<1>6. CASE Len(added.buf) >= contentLenLimit
  <2> HIDE DEF added, g, buf
  <2> DEFINE t == buf \o <<"T">>
  <2>1. t \in Text /\ Visible(t) = Visible(buf)
    BY <1>4, VisibleMarks, Marked
  <2>2. full = [added EXCEPT !.buf = t]
    BY <1>5
  <2> HIDE DEF t
  <2>3. full \in Handler /\ full.linesLen = l + m.raw /\ full.buf = t
    BY <1>5, <2>1, <2>2 DEF Handler
  <2> HIDE DEF full, l, x, n
  <2>4. Covers(t, f, a + x, a + x + (l + m.raw))
    BY <1>3, <1>4, <2>1, CoversSame
  <2>5. /\ CoversAll(cut.msgs, f, a + x) /\ cut.han.buf = <<>> /\ cut.han \in Handler /\ cut.han.linesLen = 0
        /\ cut.msgs \in Seq(Item) /\ Len(cut.msgs) <= 1 /\ Raw(cut.msgs) = l + m.raw
    BY <2>3, <2>4, SendBufferCovers, SendBufferConserves
  <2> HIDE DEF cut
  <2> DEFINE last == [cut.han EXCEPT !.shouldTruncate = TRUE]
             msgs == before.msgs \o cut.msgs
             d == a + n + m.raw
  <2>6. last.buf = <<>> /\ last.linesLen = 0
    BY <2>5 DEF Handler
  <2>7. MultiLine(h, m) = [han |-> last, msgs |-> msgs]
    BY <1>m, <1>6
  <2>8. CoversAll(msgs, f, a)
    BY <1>1, <2>5, CoversBoth DEF x
  <2>9. Raw(msgs) = x + (l + m.raw)
    BY <1>1, <2>5, JoinedItems DEF x
  <2>10. a + Raw(msgs) = d
    <3> DEFINE k == l + m.raw
    <3>1. k \in Nat
      BY <1>3
    <3> HIDE DEF k, d
    <3>2. a + (x + k) = a + x + k
      BY <1>2, <3>1, SMT
    <3> QED BY <1>3, <2>9, <3>2 DEF k, d
  <2>11. d \in Nat /\ d <= Len(f)
    BY <1>3 DEF Covers, n
  <2> HIDE DEF last, msgs, d
  <2>12. Covers(<<>>, f, d, d)
    BY <2>11, CoversNothing, VisibleOfNone
  <2>13. d + 0 = d
    BY <2>11, SMT
  <2> QED BY <2>6, <2>7, <2>8, <2>10, <2>12, <2>13 DEF Handled
<1>7. CASE ~(Len(added.buf) >= contentLenLimit)
  <2> HIDE DEF added, g, buf
  <2>1. MultiLine(h, m) = [han |-> added, msgs |-> before.msgs]
    BY <1>m, <1>7
  <2>2. Covers(added.buf, f, a + x, a + x + added.linesLen)
    BY <1>3, <1>4, <1>5
  <2> QED BY <1>1, <2>1, <2>2 DEF Handled
<1> QED BY <1>6, <1>7

\* process of whichever handler it is.
LEMMA ProcessCovers ==
  ASSUME NEW h \in Handler, NEW m \in Item, NEW timeout \in BOOLEAN, h.mode # "multi" => h.linesLen = 0,
         NEW f \in Seq(Bytes), NEW a \in Nat,
         Covers(h.buf, f, a, a + h.linesLen), Covers(m.content, f, a + h.linesLen, a + h.linesLen + m.raw)
  PROVE  Handled(Process(h, m, timeout), f, a)
<1>1. CASE h.mode = "multi"
  BY <1>1, MultiLineCovers DEF Process
<1>2. CASE h.mode # "multi"
  <2> DEFINE one == SingleLine(h, m)
             d == a + m.raw
  <2>1. h.linesLen = 0 /\ a + 0 = a /\ m.raw \in Nat
    BY <1>2, SMT DEF Item
  <2>2. Covers(h.buf, f, a, a) /\ Covers(m.content, f, a, a + m.raw)
    BY <2>1
  <2>3. CoversAll(one.msgs, f, a) /\ one.han.buf = h.buf
    BY <2>2, SingleLineCovers
  <2>4. Visible(h.buf) = <<>>
    BY <2>2, NothingCovered
  <2>5. Conserves(h, m.raw, one) /\ one.han.mode = h.mode /\ one.han.linesLen = 0 /\ Raw(one.msgs) = m.raw
    <3>1. Conserves(h, m.raw, one) /\ one.han.mode = h.mode /\ one.han.linesLen = 0
      BY <2>1, SingleLineConserves
    <3>2. one.msgs \in Seq(Item) /\ Len(one.msgs) <= 2 /\ Raw(one.msgs) + 0 = 0 + m.raw
      BY <2>1, <3>1 DEF Conserves
    <3>3. Raw(one.msgs) \in Nat
      BY <3>2, RawIsNat
    <3>4. Raw(one.msgs) = m.raw
      <4> DEFINE y == Raw(one.msgs)
                 k == m.raw
      <4>1. y \in Nat /\ k \in Nat /\ y + 0 = 0 + k
        BY <2>1, <3>2, <3>3
      <4> HIDE DEF y, k
      <4>2. y = k
        BY <4>1, SMT
      <4> QED BY <4>2 DEF y, k
    <3> QED BY <3>1, <3>4
  <2>6. d \in Nat /\ d <= Len(f) /\ d + 0 = d
    <3>1. d <= Len(f)
      BY <2>2 DEF Covers
    <3>2. d \in Nat /\ d + 0 = d
      BY <2>1, SMT
    <3> QED BY <3>1, <3>2
  <2> HIDE DEF one, d
  <2>7. ASSUME NEW s, Visible(s) = <<>> PROVE Covers(s, f, d, d + 0)
    BY <2>6, <2>7, CoversNothing
  <2>8. a + Raw(one.msgs) = d
    BY <2>5 DEF d
  <2>9. CASE h.mode = "single"
    <3>1. Process(h, m, timeout) = one
      BY <2>9 DEF Process, one
    <3> QED BY <2>3, <2>4, <2>5, <2>7, <2>8, <3>1 DEF Handled
  <2>10. CASE h.mode = "try"
    <3> DEFINE g == [one.han EXCEPT !.tested = @ + 1, !.score = IF NewContent(one.msgs[1].content) THEN @ + 1 ELSE @]
               mode == IF 100 * g.score >= matchThreshold * g.tested THEN "multi" ELSE "single"
               settled == IF mode = "multi" THEN NewHandler("multi") ELSE [g EXCEPT !.mode = "single", !.tested = 0, !.score = 0]
               last == IF g.tested >= linesToAssess \/ timeout THEN settled ELSE g
    <3>1. Process(h, m, timeout) = [han |-> last, msgs |-> one.msgs]
      BY <2>10 DEF Process, ProcessAndTry, one
    <3>2. one.han \in Handler
      BY <2>5 DEF Conserves
    <3>3. g.linesLen = 0 /\ g.buf = h.buf /\ DOMAIN g = DOMAIN one.han
      BY <2>3, <2>5, <3>2 DEF Handler
    <3>4. settled.linesLen = 0 /\ (settled.buf = h.buf \/ settled.buf = <<>>)
      <4> HIDE DEF g
      <4> DEFINE s == [g EXCEPT !.mode = "single", !.tested = 0, !.score = 0]
      <4>1. s.linesLen = 0 /\ s.buf = h.buf
        BY <3>2, <3>3 DEF Handler
      <4>2. NewHandler("multi").linesLen = 0 /\ NewHandler("multi").buf = <<>>
        BY DEF NewHandler
      <4> HIDE DEF mode, s
      <4>3. settled = s \/ settled = NewHandler("multi")
        BY DEF s
      <4> HIDE DEF settled
      <4> QED BY <4>1, <4>2, <4>3
    <3>5. last.linesLen = 0 /\ Visible(last.buf) = <<>>
      <4> HIDE DEF g, settled
      <4>1. last = settled \/ last = g
        OBVIOUS
      <4> HIDE DEF last
      <4> QED BY <2>4, <3>3, <3>4, <4>1, VisibleOfNone
    <3> HIDE DEF last
    <3>6. Covers(last.buf, f, d, d + 0)
      BY <2>7, <3>5
    <3> QED BY <2>3, <2>8, <3>1, <3>5, <3>6 DEF Handled
  <2> QED BY <1>2, <2>9, <2>10 DEF Handler
<1> QED BY <1>1, <1>2

\* Where the bytes of each goroutine begin.
LEMMA Edges ==
  ASSUME DecoderInv
  PROVE  /\ decodedOffset \in Nat /\ HandlerFrom \in Nat /\ ParsedFrom \in Nat /\ ParserFrom \in Nat /\ DecodedFrom \in Nat
         /\ DecodedFrom = Behind
<1> DEFINE a == decodedOffset
           b == Raw(out)
           c == han.linesLen
           d == Raw(parsed)
           e == par.raw
<1>1. a \in Nat /\ b \in Nat /\ c \in Nat /\ d \in Nat /\ e \in Nat
  BY Parts
<1>2. HandlerFrom = a + b /\ ParsedFrom = a + b + c /\ ParserFrom = a + b + c + d /\ DecodedFrom = a + b + c + d + e
  BY DEF HandlerFrom, ParsedFrom, ParserFrom, DecodedFrom
<1>3. DecodedFrom = Behind
  BY <1>2 DEF Behind
<1> HIDE DEF a, b, c, d, e
<1>4. a + b \in Nat /\ a + b + c \in Nat /\ a + b + c + d \in Nat /\ a + b + c + d + e \in Nat
  BY <1>1, SMT
<1> QED BY <1>1, <1>2, <1>3, <1>4 DEF a

\* The line of the decoder begins where the others end.
LEMMA LineFollows ==
  ASSUME FileInv
  PROVE  DecodedFrom + Raw(line) = LineStart
<1> DEFINE a == DecodedFrom
           b == Raw(line)
           p == LineStart
           r == dec.raw
           l == Len(dec.chunk)
           i == dec.i
           n == readOffset
<1>1. a \in Nat /\ b \in Nat /\ a + b + (r + (l - i)) = n
  BY Edges, AddedUp DEF FileInv, Decoding
<1>2. p \in Nat /\ p + r + (l - i) = n /\ r \in Nat /\ l \in Nat /\ i \in Nat /\ n \in Nat
  BY Positions
<1> HIDE DEF a, b, p, r, l, i, n
<1>3. a + b = p
  BY <1>1, <1>2, SMT
<1> QED BY <1>3 DEF a, b, p

\* Everything the goroutines hold is in its place.
Covering == FileInv /\ file.parser # "utf16" /\ PartsCover

\* The line that decodeIncomingData sends has the bytes of the file; the
\* separator is not visible.
LEMMA LineCovers ==
  ASSUME FileInv, DecodeLine, file.parser # "utf16"
  PROVE  LineItem \in Item /\ Covers(LineItem.content, file.input, LineStart, LineStart + LineItem.raw)
<1> DEFINE f == file.input
           p == LineStart
           j == NextStop
           d == decoded(j)
           w == Written(j)
           n == Len(f)
           k == Len(dec.chunk)
<1>1. f \in Seq(Bytes) /\ n \in Nat /\ p \in Nat
  BY FileText, Positions DEF FileInv
<1>2. /\ j \in Nat /\ dec.i <= j /\ j < k /\ j \in Stops /\ k \in Nat /\ dec.i \in Nat
      /\ readOffset \in Nat /\ readOffset <= n
  BY StopFacts, Positions
<1>3. j <= k /\ j + 1 <= k /\ j + 1 \in Nat /\ dec.i <= j + 1
  <2> DEFINE i == dec.i
  <2>1. i \in Nat /\ i <= j
    BY <1>2
  <2> HIDE DEF i, j, k
  <2>2. j <= k /\ j + 1 <= k /\ j + 1 \in Nat /\ i <= j + 1
    BY <1>2, <2>1, SMT
  <2> QED BY <2>2 DEF i
<1>4. w = SubSeq(f, p + 1, p + d) /\ w \in Seq(Bytes) /\ Len(w) = d /\ d \in Nat /\ p + d <= readOffset /\ d = dec.raw + (j - dec.i)
  BY <1>2, <1>3, WrittenIs
<1>5. p + d <= n /\ p <= p + d /\ p + d \in Nat /\ d <= d
  <2> DEFINE a == readOffset
  <2>1. p + d <= a /\ a \in Nat /\ a <= n /\ p \in Nat /\ d \in Nat /\ n \in Nat
    BY <1>1, <1>2, <1>4
  <2> HIDE DEF a, p, d, n
  <2> QED BY <2>1, SMT
<1>6. Separator = <<"n">> /\ Len(Separator) = 1
  BY SMT DEF Separator
<1>7. LineItem.content = w /\ LineItem.raw = LineRaw
  <2>1. LineItem.content = SubSeq(w, 1, d - (1 - 1))
    BY <1>4, <1>6 DEF LineItem
  <2>2. d - (1 - 1) = d /\ d \in Int
    <3> HIDE DEF d
    <3> QED BY <1>4, SMT
  <2> HIDE DEF w, d, f, p
  <2>3. SubSeq(SubSeq(f, p + 1, p + d), 1, d) = SubSeq(f, p + 1, p + d)
    <3>1. f \in Seq(Bytes) /\ p \in Nat
      BY <1>1
    <3>2. d \in Nat /\ d \in Int /\ d <= d /\ p + d <= Len(f)
      BY <1>4, <1>5, <2>2 DEF n
    <3> QED BY <3>1, <3>2, PrefixOfPart
  <2>4. LineItem.content = w
    BY <1>4, <2>1, <2>2, <2>3
  <2> QED BY <2>4 DEF LineItem, w
<1>8. Covers(w, f, p, p + d)
  BY <1>4, <1>5 DEF Covers
<1>9. w \in Text
  BY <1>4, BytesAreText
<1>10. CASE j = dec.maxj
  <2>1. LineRaw = d
    BY <1>10 DEF LineRaw
  <2>2. LineItem \in Item
    BY <1>4, <1>7, <1>9, <2>1 DEF Item, LineItem
  <2> QED BY <1>7, <1>8, <2>1, <2>2
<1>11. CASE j # dec.maxj
  <2> DEFINE v == Written(j + 1)
             q == p + d + 1
  <2>1. LineRaw = d + 1
    BY <1>11 DEF LineRaw
  <2>2. decoded(j + 1) = d + 1
    <3> DEFINE r == dec.raw
               i == dec.i
    <3>1. r \in Nat /\ i \in Nat /\ d = r + (j - i) /\ decoded(j + 1) = r + ((j + 1) - i)
      BY <1>4, Positions DEF decoded
    <3> HIDE DEF r, i, j, d
    <3>2. r + ((j + 1) - i) = r + (j - i) + 1
      BY <1>2, <3>1, SMT
    <3> QED BY <3>1, <3>2
  <2>3. v = SubSeq(f, p + 1, p + (d + 1)) /\ Len(v) = d + 1 /\ p + (d + 1) <= readOffset
    BY <1>3, <2>2, WrittenIs
  <2>4. q \in Nat /\ q <= n /\ p + (d + 1) = q /\ d + 1 \in Nat /\ p + d <= q
    <3> DEFINE a == readOffset
    <3>1. p + (d + 1) <= a /\ a \in Nat /\ a <= n /\ p \in Nat /\ d \in Nat /\ n \in Nat
      BY <1>1, <1>2, <1>4, <2>3
    <3> HIDE DEF a, p, d, n
    <3> QED BY <3>1, SMT
  <2>5. Match(v)
    BY <1>2, <1>11 DEF Stops
  <2>6. SubSeq(v, d + 1, d + 1) = <<"n">>
    <3>1. SubSeq(v, ((d + 1) - 1) + 1, d + 1) = <<"n">>
      BY <1>6, <2>3, <2>5 DEF Match
    <3>2. ((d + 1) - 1) + 1 = d + 1
      <4> HIDE DEF d
      <4> QED BY <1>4, SMT
    <3> QED BY <3>1, <3>2
  <2> HIDE DEF v, d, p, f, w, j, n
  <2>7. f[q] = "n"
    <3>1. v[d + 1] = "n"
      <4> DEFINE e == d + 1
      <4>1. e \in 1 .. Len(v) /\ Len(v) = e
        <5>1. e \in 1..e
          BY <1>4, SMT
        <5> QED BY <2>3, <5>1
      <4>2. v \in Seq(Bytes)
        BY <1>3, WrittenIs DEF v
      <4> HIDE DEF e
      <4>3. SubSeq(v, e, e)[1] = v[e]
        BY <4>1, <4>2, SMT
      <4>4. <<"n">>[1] = "n"
        BY SMT
      <4> QED BY <2>6, <4>3, <4>4 DEF e
    <3>2. SubSeq(f, p + 1, p + (d + 1))[d + 1] = f[p + (d + 1)]
      <4> DEFINE e == d + 1
      <4>1. e \in Nat /\ e >= 1 /\ p + e <= Len(f)
        <5>1. e >= 1
          BY <1>4, SMT
        <5> QED BY <2>4, <5>1 DEF n
      <4> HIDE DEF e
      <4>2. SubSeq(f, p + 1, p + e)[e] = f[p + e]
        BY <1>1, <4>1, SMT
      <4> QED BY <4>2 DEF e
    <3> QED BY <2>3, <2>4, <3>1, <3>2
  <2>8. Visible(SubSeq(f, p + d + 1, q)) = <<>>
    <3> DEFINE u == SubSeq(f, q, q)
    <3>1. q >= 1 /\ q \in Int
      <4>1. p \in Nat /\ d \in Nat
        BY <1>1, <1>4
      <4> QED BY <4>1, SMT
    <3> HIDE DEF q
    <3>2. u \in Seq(Bytes) /\ Len(u) = (IF q <= q THEN q - q + 1 ELSE 0)
      BY <1>1, <2>4, <3>1, PartOfText DEF n
    <3>3. (IF q <= q THEN q - q + 1 ELSE 0) = 1 /\ \A l \in 1..1 : l = 1
      BY <3>1, SMT
    <3>4. u[1] = f[q]
      <4>1. q <= Len(f) /\ Len(f) \in Nat
        BY <1>1, <2>4 DEF n
      <4> QED BY <1>1, <3>1, <4>1, SMT
    <3>5. "n" \notin Letters
      BY DEF Letters
    <3> HIDE DEF u
    <3>6. Visible(u) = <<>>
      BY <2>7, <3>2, <3>3, <3>4, <3>5, Invisible
    <3> QED BY <3>6 DEF u, q
  <2>9. Covers(<<>>, f, p + d, q)
    BY <2>4, <2>8, VisibleOfNone DEF Covers, n
  <2>10. <<>> \in Text /\ w \o <<>> = w
    BY <1>4, EmptySeq, ConcatEmptySeq DEF Text
  <2> HIDE DEF q
  <2>11. Covers(w \o <<>>, f, p, q)
    BY <1>1, <1>5, <1>8, <1>9, <2>4, <2>9, <2>10, CoversJoin
  <2>12. LineItem \in Item
    BY <1>7, <1>9, <2>1, <2>4 DEF Item, LineItem
  <2>13. p + LineItem.raw = q
    BY <1>7, <2>1, <2>4
  <2> QED BY <1>7, <2>10, <2>11, <2>12, <2>13 DEF p, f
<1> QED BY <1>10, <1>11

\* A step that moves nothing between the goroutines.
LEMMA CoverStays ==
  ASSUME PartsCover, UNCHANGED <<file, line, par, parsed, han, out, decodedOffset>>
  PROVE  PartsCover'
<1>1. HandlerFrom' = HandlerFrom /\ ParsedFrom' = ParsedFrom /\ ParserFrom' = ParserFrom /\ DecodedFrom' = DecodedFrom
  BY DEF HandlerFrom, ParsedFrom, ParserFrom, DecodedFrom
<1> QED BY <1>1 DEF PartsCover

\* decodeIncomingData hands a line over.
LEMMA DecodeLineCovers ==
  ASSUME Covering, DecodeLine
  PROVE  PartsCover'
<1>1. line = <<>> /\ line' = <<LineItem>> /\ UNCHANGED <<file, par, parsed, han, out, decodedOffset>>
  BY DecodeLineDoes DEF Covering
<1>2. CoversAll(<<LineItem>>, file.input, LineStart)
  BY LineCovers, CoversOne DEF Covering
<1>3. DecodedFrom + 0 = LineStart /\ DecodedFrom \in Nat
  BY <1>1, LineFollows, EmptyChannel, Edges DEF Covering, FileInv
<1>4. DecodedFrom = LineStart
  <2> DEFINE a == DecodedFrom
  <2> HIDE DEF a
  <2>1. a \in Nat => a + 0 = a
    BY SMT
  <2> QED BY <1>3, <2>1 DEF a
<1>5. HandlerFrom' = HandlerFrom /\ ParsedFrom' = ParsedFrom /\ ParserFrom' = ParserFrom /\ DecodedFrom' = DecodedFrom
  BY <1>1 DEF HandlerFrom, ParsedFrom, ParserFrom, DecodedFrom
<1> QED BY <1>1, <1>2, <1>4, <1>5 DEF Covering, PartsCover

\* The parser sends what p holds.
LEMMA ParserSends ==
  ASSUME Covering, parsed = <<>>, NEW p \in [buf : Text, raw : Nat], Covers(p.buf, file.input, ParsedFrom, ParsedFrom + p.raw),
         parsed' = Buffered(p), par' = NewParser, UNCHANGED <<file, han, out, decodedOffset>>,
         CoversAll(line', file.input, ParsedFrom + p.raw)
  PROVE  PartsCover'
<1> DEFINE b == ParsedFrom + p.raw
<1>1. Raw(parsed') = p.raw /\ par'.raw = 0 /\ par'.buf = <<>> /\ p.raw \in Nat
  BY BufferedConserves, NewParserFields
<1>2. HandlerFrom' = HandlerFrom /\ ParsedFrom' = ParsedFrom /\ ParserFrom' = b /\ DecodedFrom' = b + 0
  BY <1>1 DEF HandlerFrom, ParsedFrom, ParserFrom, DecodedFrom
<1>3. CoversAll(parsed', file.input, ParsedFrom)
  BY BufferedCovers
<1>4. b \in Nat /\ b + 0 = b
  <2> DEFINE a == ParsedFrom
             x == p.raw
  <2>1. a \in Nat /\ x \in Nat
    BY <1>1, Edges DEF Covering, FileInv
  <2> HIDE DEF a, x
  <2>2. a + x \in Nat /\ a + x + 0 = a + x
    BY <2>1, SMT
  <2> QED BY <2>2 DEF a, x
<1>5. b <= Len(file.input)
  BY DEF Covers
<1> HIDE DEF b
<1>6. Covers(<<>>, file.input, b, b)
  BY <1>4, <1>5, CoversNothing, VisibleOfNone
<1>7. CoversAll(line', file.input, b)
  BY DEF b
<1>8. CoversAll(out, file.input, decodedOffset) /\ Covers(han.buf, file.input, HandlerFrom, ParsedFrom)
  BY DEF Covering, PartsCover
<1> QED BY <1>1, <1>2, <1>3, <1>4, <1>6, <1>7, <1>8 DEF PartsCover

\* When nothing waits for the handler, the parser's bytes follow the handler's.
LEMMA ParserFollows ==
  ASSUME DecoderInv, parsed = <<>>
  PROVE  ParserFrom = ParsedFrom
<1> DEFINE a == ParsedFrom
<1>1. ParserFrom = a + 0 /\ a \in Nat
  BY EmptyChannel, Edges DEF ParserFrom
<1> HIDE DEF a
<1>2. a + 0 = a
  BY <1>1, SMT
<1> QED BY <1>1, <1>2 DEF a

\* A line is joined to the partial ones before it, or all of them are sent.
LEMMA ParseLineCovers ==
  ASSUME Covering, ParseLine
  PROVE  PartsCover'
<1> DEFINE input == line[1]
           q == Parse(input.content)
           p == [buf |-> par.buf \o q, raw |-> par.raw + input.raw]
           f == file.input
           a == ParsedFrom
           b == DecodedFrom
           c == DecodedFrom + input.raw
<1>0. line # <<>> /\ parsed = <<>> /\ line' = <<>> /\ UNCHANGED <<file, han, out, decodedOffset>>
  BY DEF ParseLine
<1>1. input \in Item /\ input.raw \in Nat /\ input.content \in Text /\ par.buf \in Text /\ par.raw \in Nat
  BY <1>0, OthersHave DEF Item, Covering, FileInv
<1>2. q \in Text /\ Visible(q) = Visible(input.content)
  BY <1>1, ParsedText, VisibleParsed DEF Covering
<1>3. (par' = p /\ parsed' = parsed) \/ (par' = NewParser /\ parsed' = Buffered(p))
  BY DEF ParseLine
<1>4. a \in Nat /\ b \in Nat /\ ParserFrom = a /\ b = a + par.raw
  BY <1>0, Edges, ParserFollows DEF Covering, FileInv, DecodedFrom
<1> HIDE DEF q, input
<1>5. par.raw + input.raw \in Nat /\ c \in Nat /\ a + (par.raw + input.raw) = c
  <2> DEFINE x == par.raw
             y == input.raw
  <2>1. x \in Nat /\ y \in Nat /\ b = a + x /\ c = b + y
    BY <1>1, <1>4
  <2> HIDE DEF x, y, a, b, c
  <2>2. x + y \in Nat /\ c \in Nat /\ a + (x + y) = c
    BY <1>4, <2>1, SMT
  <2> QED BY <2>2 DEF x, y
<1>6. p \in [buf : Text, raw : Nat] /\ p.raw = par.raw + input.raw /\ p.buf = par.buf \o q
  BY <1>1, <1>2, <1>5, JoinedText
<1>7. Covers(par.buf, f, a, b) /\ Covers(input.content, f, b, c)
  <2>1. Covers(par.buf, f, ParserFrom, DecodedFrom) /\ CoversAll(line, f, DecodedFrom)
    BY DEF Covering, PartsCover
  <2>2. line \in Seq(Item)
    BY OthersHave DEF Covering, FileInv
  <2> QED BY <1>0, <1>4, <2>1, <2>2, CoversFirst DEF input
<1>8. Covers(q, f, b, c)
  BY <1>2, <1>7, CoversSame
<1>9. f \in Seq(Bytes)
  BY FileText DEF Covering, FileInv
<1> HIDE DEF p
<1>10. Covers(p.buf, f, a, c)
  <2> DEFINE s == par.buf
  <2>1. s \in Text /\ Covers(s, f, a, b)
    BY <1>1, <1>7
  <2> HIDE DEF s, f, a, b, c
  <2>2. Covers(s \o q, f, a, c)
    BY <1>2, <1>4, <1>5, <1>8, <1>9, <2>1, CoversJoin
  <2> QED BY <1>6, <2>2 DEF s
<1>11. a + p.raw = c
  BY <1>5, <1>6
<1>12. CoversAll(line', f, c)
  BY <1>0, CoversNone
<1>13. CASE par' = p /\ parsed' = parsed
  <2>1. HandlerFrom' = HandlerFrom /\ ParsedFrom' = ParsedFrom /\ ParserFrom' = ParserFrom /\ DecodedFrom' = ParserFrom + p.raw
    BY <1>0, <1>13 DEF HandlerFrom, ParsedFrom, ParserFrom, DecodedFrom
  <2>2. DecodedFrom' = c /\ ParserFrom' = a
    BY <1>4, <1>11, <2>1
  <2>3. /\ CoversAll(out, f, decodedOffset) /\ Covers(han.buf, f, HandlerFrom, ParsedFrom)
        /\ CoversAll(parsed, f, ParsedFrom)
    BY DEF Covering, PartsCover
  <2> QED BY <1>0, <1>10, <1>12, <1>13, <2>1, <2>2, <2>3 DEF PartsCover
<1>14. CASE par' = NewParser /\ parsed' = Buffered(p)
  <2>1. Covers(p.buf, f, a, a + p.raw) /\ CoversAll(line', f, a + p.raw)
    BY <1>10, <1>11, <1>12
  <2> QED BY <1>0, <1>6, <1>14, <2>1, ParserSends
<1> QED BY <1>3, <1>13, <1>14

\* flushTimer of the parser, and the end of its run.
LEMMA ParserCovers ==
  ASSUME Covering, ParserTimeout \/ ParserStops
  PROVE  PartsCover'
<1>1. parsed = <<>> /\ parsed' = Buffered(par) /\ par' = NewParser /\ UNCHANGED <<file, line, han, out, decodedOffset>>
  BY DEF ParserTimeout, ParserStops
<1>2. ParserFrom = ParsedFrom /\ par \in [buf : Text, raw : Nat]
  BY <1>1, ParserFollows, OthersHave DEF Covering, FileInv
<1>3. DecodedFrom = ParsedFrom + par.raw
  BY <1>2 DEF DecodedFrom
<1>4. Covers(par.buf, file.input, ParsedFrom, ParsedFrom + par.raw) /\ CoversAll(line', file.input, ParsedFrom + par.raw)
  BY <1>1, <1>2, <1>3 DEF Covering, PartsCover
<1> QED BY <1>1, <1>2, <1>4, ParserSends

\* The handler sends and keeps what done says.
LEMMA HandlerSends ==
  ASSUME Covering, NEW done, Handled(done, file.input, decodedOffset), han' = done.han, out' = done.msgs,
         UNCHANGED <<file, decodedOffset, line, par>>,
         ParserFrom' = ParserFrom, CoversAll(parsed', file.input, ParsedFrom')
  PROVE  PartsCover'
<1>1. HandlerFrom' = decodedOffset + Raw(done.msgs) /\ ParsedFrom' = decodedOffset + Raw(done.msgs) + done.han.linesLen
  BY DEF HandlerFrom, ParsedFrom
<1>2. DecodedFrom' = DecodedFrom
  BY DEF DecodedFrom
<1>3. CoversAll(out', file.input, decodedOffset) /\ Covers(han'.buf, file.input, HandlerFrom', ParsedFrom')
  BY <1>1 DEF Handled
<1>4. Covers(par.buf, file.input, ParserFrom, DecodedFrom) /\ CoversAll(line, file.input, DecodedFrom)
  BY DEF Covering, PartsCover
<1> QED BY <1>2, <1>3, <1>4 DEF PartsCover

\* When no message waits to be forwarded, the handler's bytes are the next ones.
LEMMA HandlerFollows ==
  ASSUME Covering, out = <<>>
  PROVE  /\ HandlerFrom = decodedOffset /\ ParsedFrom = decodedOffset + han.linesLen
         /\ Covers(han.buf, file.input, decodedOffset, decodedOffset + han.linesLen)
<1> DEFINE a == decodedOffset
<1>1. HandlerFrom = a + 0 /\ a \in Nat
  BY EmptyChannel, Edges DEF HandlerFrom, Covering, FileInv
<1> HIDE DEF a
<1>2. a + 0 = a
  BY <1>1, SMT
<1>3. HandlerFrom = decodedOffset
  BY <1>1, <1>2 DEF a
<1>4. ParsedFrom = decodedOffset + han.linesLen
  BY <1>3 DEF ParsedFrom
<1> QED BY <1>3, <1>4 DEF Covering, PartsCover

\* process of the handler.
LEMMA HandleLineCovers ==
  ASSUME Covering, HandleLine
  PROVE  PartsCover'
<1> DEFINE m == parsed[1]
           f == file.input
           a == decodedOffset
           c == han.linesLen
<1>0. parsed # <<>> /\ out = <<>> /\ parsed' = <<>> /\ UNCHANGED <<file, line, par, decodedOffset>>
  BY DEF HandleLine
<1>1. /\ m \in Item /\ Raw(parsed) = m.raw /\ m.raw \in Nat /\ han \in Handler /\ (han.mode # "multi" => c = 0)
      /\ parsed \in Seq(Item)
  BY <1>0, OthersHave DEF Item, DecoderInv, Flushed, Covering, FileInv
<1>2. PICK timeout \in BOOLEAN : han' = Process(han, m, timeout).han /\ out' = Process(han, m, timeout).msgs
  BY DEF HandleLine
<1> DEFINE done == Process(han, m, timeout)
<1>3. Conserves(han, m.raw, done)
  BY <1>1, ProcessConserves
<1>4. f \in Seq(Bytes) /\ a \in Nat
  BY FileText, Edges DEF Covering, FileInv
<1>5. ParsedFrom = a + c /\ Covers(han.buf, f, a, a + c)
  BY <1>0, HandlerFollows
<1>6. Covers(m.content, f, a + c, a + c + m.raw)
  <2>1. CoversAll(parsed, f, a + c)
    BY <1>5 DEF Covering, PartsCover
  <2> QED BY <1>0, <1>1, <2>1, CoversFirst
<1>7. Handled(done, f, a)
  BY <1>1, <1>4, <1>5, <1>6, ProcessCovers
<1> HIDE DEF m
<1>8. ParserFrom' = ParserFrom
  <2> DEFINE x == Raw(out')
             y == han'.linesLen
             z == m.raw
  <2>1. han' \in Handler /\ out' \in Seq(Item) /\ Len(out') <= 2 /\ x + y = c + z
    BY <1>2, <1>3 DEF Conserves
  <2>2. x \in Nat /\ y \in Nat /\ c \in Nat /\ z \in Nat
    BY <1>1, <2>1, RawIsNat DEF Handler
  <2>3. ParserFrom' = a + x + y + 0
    BY <1>0, EmptyChannel DEF ParserFrom, ParsedFrom, HandlerFrom
  <2>4. ParserFrom = a + c + z
    BY <1>1, <1>5 DEF ParserFrom
  <2> HIDE DEF x, y, z, a, c
  <2>5. a + x + y + 0 = a + c + z
    BY <1>4, <2>1, <2>2, SMT
  <2> QED BY <2>3, <2>4, <2>5
<1>9. CoversAll(parsed', f, ParsedFrom')
  BY <1>0, CoversNone
<1> HIDE DEF done
<1>10. han' = done.han /\ out' = done.msgs
  BY <1>2 DEF done
<1> QED BY <1>0, <1>7, <1>8, <1>9, <1>10, HandlerSends

\* The handler sends what it holds: its timer, or its end.
LEMMA HandlerFlushCovers ==
  ASSUME Covering, out = <<>>, han' = SendBuffer(han).han, out' = SendBuffer(han).msgs,
         UNCHANGED <<file, line, par, parsed, decodedOffset>>
  PROVE  PartsCover'
<1> DEFINE done == SendBuffer(han)
           f == file.input
           a == decodedOffset
           c == han.linesLen
<1>1. ParsedFrom = a + c /\ Covers(han.buf, f, a, a + c)
  BY HandlerFollows
<1>2. han \in Handler /\ c \in Nat /\ a \in Nat
  BY OthersHave, Edges DEF Covering, FileInv, Handler
<1>3. done.han.linesLen = 0 /\ Raw(done.msgs) = c
  BY <1>2, SendBufferConserves
<1>4. CoversAll(done.msgs, f, a) /\ done.han.buf = <<>>
  BY <1>1, <1>2, SendBufferCovers
<1>5. a + c \in Nat /\ a + c <= Len(f) /\ a + c + 0 = a + c
  <2>1. a + c <= Len(f)
    BY <1>1 DEF Covers
  <2>2. a + c \in Nat /\ a + c + 0 = a + c
    <3> HIDE DEF a, c
    <3> QED BY <1>2, SMT
  <2> QED BY <2>1, <2>2
<1> HIDE DEF done, a, c
<1>6. Covers(<<>>, f, a + c, a + c)
  BY <1>5, CoversNothing, VisibleOfNone
<1>7. Handled(done, f, a)
  BY <1>3, <1>4, <1>5, <1>6 DEF Handled
<1>8. han' = done.han /\ out' = done.msgs
  BY DEF done
<1>9. ParsedFrom' = a + c + 0
  BY <1>3, <1>8 DEF ParsedFrom, HandlerFrom, a
<1>10. ParsedFrom' = ParsedFrom
  BY <1>1, <1>5, <1>9
<1>11. ParserFrom' = ParserFrom
  BY <1>10 DEF ParserFrom
<1>12. CoversAll(parsed', f, ParsedFrom')
  BY <1>10 DEF Covering, PartsCover
<1> QED BY <1>7, <1>8, <1>11, <1>12, HandlerSends DEF a

\* flushTimer of the handler, and the end of its run.
LEMMA HandlerCovers ==
  ASSUME Covering, HandlerTimeout \/ HandlerStops
  PROVE  PartsCover'
<1>1. CASE HandlerTimeout
  BY <1>1, HandlerFlushCovers DEF HandlerTimeout
<1>2. CASE HandlerStops /\ han.mode = "multi"
  BY <1>2, HandlerFlushCovers DEF HandlerStops
<1>3. CASE HandlerStops /\ han.mode # "multi"
  BY <1>3, CoverStays DEF HandlerStops, Covering
<1> QED BY <1>1, <1>2, <1>3

\* A message has its bytes, and nothing visible lies behind it.
Told(k) == Visible(sent[k].content) = Visible(SubSeq(file.input, From(k) + 1, UpTo(k)))
Gap(k) == UpTo(k) <= From(k + 1) /\ Visible(SubSeq(file.input, UpTo(k) + 1, From(k + 1))) = <<>>

\* An empty message only moves decodedOffset.
LEMMA EmptyForwarded ==
  ASSUME Covering, \A k \in 1 .. Len(sent) : Told(k), \A k \in 0 .. Len(sent) : Gap(k),
         NEW x \in Nat, Covers(<<>>, file.input, decodedOffset, decodedOffset + x),
         UNCHANGED <<file, start, sent>>, decodedOffset' = decodedOffset + x
  PROVE  (\A k \in 1 .. Len(sent') : Told(k)') /\ (\A k \in 0 .. Len(sent') : Gap(k)')
<1> DEFINE f == file.input
           a == decodedOffset
           S == [from : Nat, offset : Nat, content : Text]
<1>1. sent \in Seq(S) /\ start \in Nat /\ a \in Nat
  BY DEF Covering, FileInv, DecoderInv, DecoderTypes
<1>2. PICK n \in Nat : n = Len(sent)
  BY <1>1, LenProperties
<1>3. \A k \in 1..n : sent[k].offset \in Nat
  <2>1. \A m \in S : m.offset \in Nat
    OBVIOUS
  <2> HIDE DEF S
  <2>2. \A k \in 1..n : sent[k] \in S
    BY <1>1, <1>2, ElementOfSeq
  <2> QED BY <2>1, <2>2
<1>4. \A k : UpTo(k)' = UpTo(k) /\ (~(k > n) => From(k)' = From(k)) /\ (k > n => From(k)' = a + x /\ From(k) = a)
  BY <1>2 DEF UpTo, From
<1> HIDE DEF a
<1>5. /\ \A k \in 1..n : ~(k > n)
      /\ \A k \in 0..n : k = n \/ ~(k + 1 > n)
      /\ n + 1 > n /\ n \in 0..n /\ (n = 0 \/ n \in 1..n)
  BY <1>2, SMT
<1>6. ASSUME NEW k \in 1..n PROVE Told(k)'
  <2>1. From(k)' = From(k) /\ UpTo(k)' = UpTo(k) /\ Told(k)
    BY <1>2, <1>4, <1>5, <1>6
  <2> QED BY <2>1 DEF Told
<1>7. ASSUME NEW k \in 0..n PROVE Gap(k)'
  <2>1. CASE k = n
    <3>1. UpTo(n)' = UpTo(n) /\ From(n + 1)' = a + x /\ From(n + 1) = a
      BY <1>4, <1>5
    <3>2. Gap(n)
      BY <1>2, <1>5
    <3> DEFINE u == UpTo(n)
               c == a + x
    <3>3. u \in Nat /\ c \in Nat
      <4>1. UpTo(n) \in Nat
        BY <1>1, <1>3, <1>5 DEF UpTo
      <4>2. a + x \in Nat
        BY <1>1, SMT
      <4> QED BY <4>1, <4>2
    <3>4. Covers(<<>>, f, a, c) /\ f \in Seq(Bytes) /\ Len(f) \in Nat
      BY FileText DEF Covering, FileInv, a
    <3> HIDE DEF u, c, f
    <3>5. a <= Len(f)
      <4> DEFINE l == Len(f)
      <4>1. a <= c /\ c <= l /\ l \in Nat
        BY <3>4 DEF Covers
      <4> HIDE DEF l
      <4>2. a <= l
        BY <1>1, <3>3, <4>1, SMT
      <4> QED BY <4>2 DEF l
    <3>6. Covers(<<>>, f, u, a)
      BY <3>1, <3>2, <3>5, VisibleOfNone DEF Gap, Covers, u, f
    <3>7. <<>> \in Text /\ <<>> \o <<>> = <<>>
      BY EmptySeq, ConcatEmptySeq DEF Text
    <3>8. Covers(<<>> \o <<>>, f, u, c)
      BY <1>1, <3>3, <3>4, <3>6, <3>7, CoversJoin
    <3>9. u <= c /\ Visible(SubSeq(f, u + 1, c)) = <<>>
      BY <3>7, <3>8, VisibleOfNone DEF Covers
    <3>10. Gap(n)'
      BY <3>1, <3>9 DEF Gap, u, c, f
    <3> QED BY <2>1, <3>10
  <2>2. CASE k # n
    <3>1. From(k + 1)' = From(k + 1) /\ UpTo(k)' = UpTo(k) /\ Gap(k)
      BY <1>2, <1>4, <1>5, <1>7, <2>2
    <3> QED BY <3>1 DEF Gap
  <2> QED BY <2>1, <2>2
<1> QED BY <1>2, <1>6, <1>7

\* A message follows the ones before.
LEMMA MessageForwarded ==
  ASSUME Covering, \A k \in 1 .. Len(sent) : Told(k), \A k \in 0 .. Len(sent) : Gap(k),
         NEW m \in Item, Covers(m.content, file.input, decodedOffset, decodedOffset + m.raw), UNCHANGED <<file, start>>,
         decodedOffset' = decodedOffset + m.raw,
         sent' = Append(sent, [from |-> decodedOffset, offset |-> decodedOffset + m.raw, content |-> m.content])
  PROVE  (\A k \in 1 .. Len(sent') : Told(k)') /\ (\A k \in 0 .. Len(sent') : Gap(k)')
<1> DEFINE f == file.input
           a == decodedOffset
           c == decodedOffset + m.raw
           msg == [from |-> a, offset |-> c, content |-> m.content]
           S == [from : Nat, offset : Nat, content : Text]
<1>1. sent \in Seq(S) /\ a \in Nat /\ m.raw \in Nat /\ m.content \in Text
  BY DEF Covering, FileInv, DecoderInv, DecoderTypes, Item
<1>2. PICK n \in Nat : n = Len(sent)
  BY <1>1, LenProperties
<1>3. c \in Nat
  <2> DEFINE x == m.raw
  <2>1. x \in Nat /\ a \in Nat
    BY <1>1
  <2> HIDE DEF x, a
  <2>2. a + x \in Nat
    BY <2>1, SMT
  <2> QED BY <2>2 DEF x, a
<1>4. msg \in S /\ msg.from = a /\ msg.offset = c /\ msg.content = m.content
  BY <1>1, <1>3
<1>5. sent' = Append(sent, msg)
  OBVIOUS
<1> HIDE DEF msg, S
<1>6. Len(sent') = n + 1 /\ sent'[n + 1] = msg /\ \A k \in 1..n : sent'[k] = sent[k]
  BY <1>1, <1>2, <1>4, <1>5, AppendProperties
<1>7. /\ decodedOffset' = c /\ start' = start /\ file' = file
      /\ Covers(m.content, f, a, c)
  OBVIOUS
<1> HIDE DEF a, c
<1>8. /\ \A k \in 1..n : ~(k > n) /\ ~(k > n + 1) /\ k # 0
      /\ \A k \in 0..n : k = n \/ k + 1 \in 1..n
      /\ \A k \in 0..n : k = 0 \/ k \in 1..n
      /\ \A k \in 1 .. n + 1 : k = n + 1 \/ k \in 1..n
      /\ \A k \in 0 .. n + 1 : k = n + 1 \/ k \in 0..n
      /\ n + 1 > n /\ n + 1 # 0 /\ ~(n + 1 > n + 1) /\ (n + 1) + 1 > n + 1 /\ n \in 0..n
  BY <1>2, SMT
<1>9. \A k \in 1..n : From(k)' = From(k)
  BY <1>2, <1>6, <1>8 DEF From
<1>10. \A k \in 0..n : UpTo(k)' = UpTo(k)
  BY <1>6, <1>7, <1>8 DEF UpTo
<1>11. From(n + 1)' = a /\ From(n + 1) = a /\ UpTo(n + 1)' = c /\ From((n + 1) + 1)' = c
  BY <1>2, <1>4, <1>6, <1>7, <1>8 DEF From, UpTo, a
<1>12. ASSUME NEW k \in 1 .. n + 1 PROVE Told(k)'
  <2>1. CASE k = n + 1
    <3>1. Visible(m.content) = Visible(SubSeq(f, a + 1, c))
      BY <1>7 DEF Covers
    <3>2. Told(n + 1)'
      BY <1>4, <1>6, <1>7, <1>11, <3>1 DEF Told
    <3> QED BY <2>1, <3>2
  <2>2. CASE k \in 1..n
    <3>1. k \in 0..n
      BY <1>2, <2>2, SMT
    <3>2. From(k)' = From(k) /\ UpTo(k)' = UpTo(k) /\ sent'[k] = sent[k] /\ Told(k)
      BY <1>2, <1>6, <1>9, <1>10, <2>2, <3>1
    <3> QED BY <1>7, <3>2 DEF Told
  <2> QED BY <1>8, <1>12, <2>1, <2>2
<1>13. ASSUME NEW k \in 0 .. n + 1 PROVE Gap(k)'
  <2>1. CASE k = n + 1
    <3>1. c <= c /\ c + 1 \in Int /\ c \in Int /\ c < c + 1
      BY <1>3, SMT
    <3>2. SubSeq(f, c + 1, c) = <<>>
      BY <3>1, SubSeqEmpty
    <3>3. Gap(n + 1)'
      BY <1>7, <1>11, <3>1, <3>2, VisibleOfNone DEF Gap
    <3> QED BY <2>1, <3>3
  <2>2. CASE k \in 0..n
    <3>1. From(k + 1)' = From(k + 1)
      BY <1>8, <1>9, <1>11, <2>2
    <3>2. UpTo(k)' = UpTo(k) /\ Gap(k)
      BY <1>2, <1>10, <2>2
    <3> QED BY <1>7, <3>1, <3>2 DEF Gap
  <2> QED BY <1>8, <1>13, <2>1, <2>2
<1> QED BY <1>6, <1>12, <1>13

\* forwardMessages sends a message with the bytes up to its offset.
LEMMA ForwardCovers ==
  ASSUME Covering, CoversExactly, ForwardMessage
  PROVE  PartsCover' /\ CoversExactly'
<1> DEFINE m == out[1]
           msg == [from |-> decodedOffset, offset |-> decodedOffset + m.raw, content |-> m.content]
           f == file.input
<1>0. /\ out # <<>> /\ out' = Tail(out) /\ decodedOffset' = decodedOffset + m.raw
      /\ sent' = IF m.content = <<>> THEN sent ELSE Append(sent, msg)
      /\ UNCHANGED <<file, line, par, parsed, han>>
  BY DEF ForwardMessage
<1>1. out \in Seq(Item) /\ Len(out) <= 2 /\ CoversAll(out, f, decodedOffset)
  BY OthersHave DEF Covering, FileInv, PartsCover
<1>2. m \in Item /\ Tail(out) \in Seq(Item) /\ Len(Tail(out)) <= 1 /\ Raw(out) = m.raw + Raw(Tail(out))
  BY <1>0, <1>1, FirstItem
<1>3. m.raw \in Nat /\ Raw(Tail(out)) \in Nat /\ decodedOffset \in Nat /\ m.content \in Text
  BY <1>2, Lengths, RawIsNat, Edges DEF Item, Covering, FileInv
<1>4. PartsCover'
  <2>1. HandlerFrom' = HandlerFrom
    <3> DEFINE a == decodedOffset
               x == m.raw
               y == Raw(Tail(out))
    <3>1. a \in Nat /\ x \in Nat /\ y \in Nat
      BY <1>3
    <3>2. HandlerFrom = a + (x + y) /\ HandlerFrom' = (a + x) + y
      BY <1>0, <1>2 DEF HandlerFrom
    <3> HIDE DEF a, x, y
    <3>3. a + (x + y) = (a + x) + y
      BY <3>1, SMT
    <3> QED BY <3>2, <3>3
  <2>2. ParsedFrom' = ParsedFrom /\ ParserFrom' = ParserFrom /\ DecodedFrom' = DecodedFrom
    BY <1>0, <2>1 DEF ParsedFrom, ParserFrom, DecodedFrom
  <2>3. CoversAll(out', f, decodedOffset')
    BY <1>0, <1>1, CoversTail
  <2> QED BY <1>0, <2>1, <2>2, <2>3 DEF Covering, PartsCover
<1>5. CoversExactly'
  <2>1. (\A k \in 1 .. Len(sent) : Told(k)) /\ (\A k \in 0 .. Len(sent) : Gap(k)) /\ Covering
    BY DEF Covering, CoversExactly, Told, Gap
  <2>2. Covers(m.content, f, decodedOffset, decodedOffset + m.raw) /\ UNCHANGED <<file, start>>
    BY <1>0, <1>1, CoversFirst DEF ForwardMessage
  <2> HIDE DEF m
  <2>3. (\A k \in 1 .. Len(sent') : Told(k)') /\ (\A k \in 0 .. Len(sent') : Gap(k)')
    <3>1. CASE m.content = <<>>
      BY <1>0, <1>3, <2>1, <2>2, <3>1, EmptyForwarded
    <3>2. CASE m.content # <<>>
      BY <1>0, <1>2, <2>1, <2>2, <3>2, MessageForwarded
    <3> QED BY <3>1, <3>2
  <2> QED BY <2>3 DEF CoversExactly, Told, Gap
<1> QED BY <1>4, <1>5

\* A new tailer holds nothing.
LEMMA BeginsCovering == BeginsInFile => CoverInv
<1> SUFFICES ASSUME NEW n \in Nat, Begins(n), n <= Len(file.input) PROVE CoverInv
  BY DEF BeginsInFile
<1>0. FileInv
  BY BeginsHolding DEF BeginsInFile
<1>1. /\ out = <<>> /\ parsed = <<>> /\ line = <<>> /\ sent = <<>> /\ decodedOffset = n
      /\ par.buf = <<>> /\ par.raw = 0 /\ han.buf = <<>> /\ han.linesLen = 0
  BY DEF Begins, NewParser, NewHandler
<1>2. n + 0 = n
  BY SMT
<1>3. HandlerFrom = n /\ ParsedFrom = n /\ ParserFrom = n /\ DecodedFrom = n
  BY <1>1, <1>2, EmptyChannel DEF HandlerFrom, ParsedFrom, ParserFrom, DecodedFrom
<1>4. Covers(<<>>, file.input, n, n)
  BY CoversNothing, VisibleOfNone
<1>5. PartsCover
  BY <1>1, <1>3, <1>4, CoversNone DEF PartsCover
<1>6. CoversExactly
  <2>1. Len(sent) = 0 /\ 1..0 = {} /\ (\A k \in 0..0 : k = 0) /\ 0 + 1 > 0 /\ n <= n /\ start = n
    BY <1>1, EmptyChannel, SMT DEF Begins
  <2>2. UpTo(0) = n /\ From(0 + 1) = n
    BY <1>1, <2>1 DEF UpTo, From
  <2>3. Visible(SubSeq(file.input, n + 1, n)) = <<>>
    BY <1>4, VisibleOfNone DEF Covers
  <2>4. \A k \in 0 .. Len(sent) : UpTo(k) <= From(k + 1) /\ Visible(SubSeq(file.input, UpTo(k) + 1, From(k + 1))) = <<>>
    BY <2>1, <2>2, <2>3
  <2> QED BY <2>1, <2>4 DEF CoversExactly
<1> QED BY <1>0, <1>5, <1>6 DEF CoverInv, FileInv

\* In every step, what the goroutines hold stays in its place.
LEMMA NextCovers == CoverInv /\ [Next]_vars => CoverInv'
<1> SUFFICES ASSUME CoverInv, [Next]_vars PROVE CoverInv'
  OBVIOUS
<1>0. FileInv /\ DecoderInv' /\ HoldsFile'
  BY NextHolds DEF CoverInv, FileInv
<1>1. CASE Restart
  <2>1. (BeginsInFile => CoverInv)'
    BY BeginsCovering, PTL
  <2> QED BY <1>0, <1>1, <2>1, RestartsInFile
<1>2. CASE ~Restart
  <2>1. file' = file
    BY <1>2 DEF Next, Steps, vars, Read, DecodeLine, DecodeRest, ParseLine, ParserTimeout, ParserStops, HandleLine,
                HandlerTimeout, HandlerStops, ForwardMessage, Stop, DecoderStops, ForwardStops
  <2> SUFFICES ASSUME file.parser # "utf16" PROVE PartsCover' /\ CoversExactly'
    BY <1>0, <2>1 DEF CoverInv
  <2>2. Covering /\ CoversExactly /\ PartsCover
    BY <1>0 DEF Covering, CoverInv
  <2>3. CASE ForwardMessage
    BY <2>2, <2>3, ForwardCovers
  <2>4. ASSUME UNCHANGED <<start, sent, decodedOffset>>, PartsCover' PROVE PartsCover' /\ CoversExactly'
    BY <2>1, <2>2, <2>4 DEF CoversExactly, From, UpTo
  <2>5. CASE DecodeLine
    <3>1. UNCHANGED <<start, sent, decodedOffset>>
      BY <2>5 DEF DecodeLine
    <3> QED BY <2>2, <2>4, <2>5, <3>1, DecodeLineCovers
  <2>6. CASE ParseLine
    <3>1. UNCHANGED <<start, sent, decodedOffset>>
      BY <2>6 DEF ParseLine
    <3> QED BY <2>2, <2>4, <2>6, <3>1, ParseLineCovers
  <2>7. CASE ParserTimeout \/ ParserStops
    <3>1. UNCHANGED <<start, sent, decodedOffset>>
      BY <2>7 DEF ParserTimeout, ParserStops
    <3> QED BY <2>2, <2>4, <2>7, <3>1, ParserCovers
  <2>8. CASE HandleLine
    <3>1. UNCHANGED <<start, sent, decodedOffset>>
      BY <2>8 DEF HandleLine
    <3> QED BY <2>2, <2>4, <2>8, <3>1, HandleLineCovers
  <2>9. CASE HandlerTimeout \/ HandlerStops
    <3>1. UNCHANGED <<start, sent, decodedOffset>>
      BY <2>9 DEF HandlerTimeout, HandlerStops
    <3> QED BY <2>2, <2>4, <2>9, <3>1, HandlerCovers
  <2>10. CASE Read \/ DecodeRest \/ Stop \/ DecoderStops \/ ForwardStops \/ UNCHANGED vars
    <3>1. UNCHANGED <<start, line, par, parsed, han, out, decodedOffset, sent>>
      BY <2>10 DEF Read, DecodeRest, Stop, DecoderStops, ForwardStops, vars
    <3> QED BY <2>1, <2>2, <2>4, <3>1, CoverStays
  <2> QED BY <1>2, <2>3, <2>5, <2>6, <2>7, <2>8, <2>9, <2>10 DEF Next, Steps
<1> QED BY <1>1, <1>2

\* For every file that is not UTF-16, every limit of a line, every read size and
\* every number of restarts: the visible bytes of a message are exactly those
\* that the file holds from where it begins up to its offset, and nothing
\* visible lies before, between or behind the messages that were forwarded.
THEOREM CoversExactlyAlways == Spec => []CoversExactly
<1>1. Init => CoverInv
  BY InitInFile, BeginsCovering
<1>2. CoverInv /\ [Next]_vars => CoverInv'
  BY NextCovers
<1>3. CoverInv => CoversExactly
  BY DEF CoverInv, CoversExactly
<1> QED BY <1>1, <1>2, <1>3, PTL DEF Spec

=============================================================================
