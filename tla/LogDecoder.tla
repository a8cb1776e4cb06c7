----------------------------- MODULE LogDecoder -----------------------------
(******************************************************************************)
(* What happens to a log file between Tailer.read and the channel of its      *)
(* pipeline: the decoder cuts the bytes into lines (logs/decoder/decoder.go), *)
(* the line parser joins the partial lines of a container, the line           *)
(* handler trims, cuts and aggregates, and Tailer.forwardMessages gives       *)
(* every message the offset at which a restart resumes.  The four run as      *)
(* goroutines that hand over through unbuffered channels: a goroutine that    *)
(* holds something to hand over does nothing else.                            *)
(*                                                                            *)
(* A byte is a one-letter string: "n" is the line feed and also stands for    *)
(* white space, "b" begins a new entry of a multi-line log, "p" and "f"       *)
(* are the headers of a partial and of a full container line, "0" is the      *)
(* zero byte of UTF-16, and "T" is truncatedFlag.                             *)
(******************************************************************************)
EXTENDS Integers, Sequences, FiniteSetsExt

CONSTANTS
  Files,           \* pairs of a configuration and the bytes of a log file
  contentLenLimit, \* contentLenLimit, which is also the lineLimit of parser and handler
  ReadSize,        \* the most bytes that a read returns
  linesToAssess,   \* AutoMultiLineSampleSize
  matchThreshold,  \* AutoMultiLineMatchThreshold, in percent
  MaxRestarts      \* bound: restarts of the agent

Bytes == {"x", "b", "n", "p", "f", "0"}

ASSUME DecoderAssumption ==
  /\ \A f \in Files : /\ f.parser \in {"noop", "utf16", "container"}
                      /\ f.handler \in {"single", "multi", "try"}
                      /\ f.input \in Seq(Bytes)
  /\ contentLenLimit \in Nat \ {0, 1}
  /\ ReadSize \in Nat \ {0}
  /\ linesToAssess \in Nat \ {0}
  /\ matchThreshold \in 0..100
  /\ MaxRestarts \in Nat

VARIABLES
  file,     \* the file and its configuration, which never change
  life,     \* the channel that was closed last, on the way down from Tailer.Stop
  start,    \* where this tailer began to read
  readOffset,
  dec,      \* Decoder: chunk is inBuf, buf is lineBuffer, raw is rawDataLen
  line,     \* the DecodedInput that the decoder hands to the parser
  par,      \* MultiLineParser: buffer and rawDataLen
  parsed,   \* the Message that the parser hands to the handler
  han,      \* the handler, of either kind
  out,      \* the Messages that the handler hands to forwardMessages
  decodedOffset,
  lines,    \* history: the lines of the decoder since the start
  sent,     \* history: the messages sent since the start, from their first byte to their offset
  restarts

vars == <<file, life, start, readOffset, dec, line, par, parsed, han, out, decodedOffset, lines, sent, restarts>>

NewDecoder == [chunk |-> <<>>, i |-> 0, j |-> 0, maxj |-> 0, buf |-> <<>>, raw |-> 0]
NewParser == [buf |-> <<>>, raw |-> 0]
NewHandler(mode) == [mode |-> mode, buf |-> <<>>, linesLen |-> 0, shouldTruncate |-> FALSE, tested |-> 0, score |-> 0]

Init ==
  /\ file \in Files
  /\ life = "running"
  /\ start = 0
  /\ readOffset = 0
  /\ dec = NewDecoder
  /\ line = <<>>
  /\ par = NewParser
  /\ parsed = <<>>
  /\ han = NewHandler(file.handler)
  /\ out = <<>>
  /\ decodedOffset = 0
  /\ lines = <<>>
  /\ sent = <<>>
  /\ restarts = 0

----------------------------------------------------------------------------
(* The decoder *)

Separator == IF file.parser = "utf16" THEN <<"0", "n">> ELSE <<"n">>

\* NewLineMatcher.Match and BytesSequenceMatcher.Match: bytes are the ones of
\* the line so far, the one just read included.
Match(bytes) == LET n == Len(bytes) - Len(Separator) IN n >= 0 /\ SubSeq(bytes, n + 1, Len(bytes)) = Separator

\* Tailer.read, with a part of what the file holds.
Read ==
  /\ life = "running"
  /\ dec.chunk = <<>>
  /\ line = <<>>
  /\ \E n \in 1..ReadSize :
       /\ readOffset + n <= Len(file.input)
       /\ readOffset' = readOffset + n
       /\ dec' = [dec EXCEPT !.chunk = SubSeq(file.input, readOffset + 1, readOffset + n),
                             !.i = 0, !.j = 0, !.maxj = contentLenLimit - Len(dec.buf)]
  /\ UNCHANGED <<file, life, start, line, par, parsed, han, out, decodedOffset, lines, sent, restarts>>

\* The loop of decodeIncomingData up to its next line.
Written(j) == dec.buf \o SubSeq(dec.chunk, dec.i + 1, j)
StopsInChunk == {j \in dec.j .. Len(dec.chunk) - 1 : j = dec.maxj \/ Match(SubSeq(dec.chunk, dec.i + 1, j + 1))}
Stops == {j \in dec.j .. Len(dec.chunk) - 1 : j = dec.maxj \/ Match(Written(j + 1))}

\* sendLine cuts off what the buffer holds of the separator.
SendLine(j, raw, i) ==
  LET content == SubSeq(Written(j), 1, Len(Written(j)) - (Len(Separator) - 1))
      item == [content |-> content, raw |-> raw]
  IN  /\ line' = <<item>>
      /\ lines' = Append(lines, item)
      /\ dec' = [dec EXCEPT !.buf = <<>>, !.raw = 0, !.i = i, !.j = j + 1, !.maxj = i + contentLenLimit]

decoded(j) == dec.raw + (j - dec.i)

DecodeLine ==
  /\ dec.chunk # <<>> /\ line = <<>> /\ Stops # {}
  /\ LET j == Min(Stops)
     IN  IF j = dec.maxj THEN SendLine(j, decoded(j), j) ELSE SendLine(j, decoded(j) + 1, j + 1)
  /\ UNCHANGED <<file, life, start, readOffset, par, parsed, han, out, decodedOffset, sent, restarts>>

DecodeRest ==
  /\ dec.chunk # <<>> /\ line = <<>> /\ Stops = {}
  /\ LET n == Len(dec.chunk) IN dec' = [NewDecoder EXCEPT !.buf = Written(n), !.raw = decoded(n)]
  /\ UNCHANGED <<file, life, start, readOffset, line, par, parsed, han, out, decodedOffset, lines, sent, restarts>>

----------------------------------------------------------------------------
(* The line parser *)

\* UTF-16: two bytes make a character; a single one at the end makes the
\* replacement character.
Utf16(s) == [k \in 1 .. (Len(s) + 1) \div 2 |-> IF 2 * k <= Len(s) /\ s[2 * k - 1] = "0" THEN s[2 * k] ELSE "x"]

\* A container line without a header cannot be parsed and is kept as it is.
HasHeader(s) == file.parser = "container" /\ s # <<>> /\ s[1] \in {"p", "f"}
Parse(s) == IF file.parser = "utf16" THEN Utf16(s) ELSE IF HasHeader(s) THEN Tail(s) ELSE s
Partial(s) == HasHeader(s) /\ s[1] = "p"

\* MultiLineParser.sendLine.
Buffered(p) == IF p.buf # <<>> \/ p.raw > 0 THEN <<[content |-> p.buf, raw |-> p.raw]>> ELSE <<>>

ParseLine ==
  /\ line # <<>> /\ parsed = <<>>
  /\ LET input == line[1]
         p == [buf |-> par.buf \o Parse(input.content), raw |-> par.raw + input.raw]
     IN  IF Partial(input.content) /\ Len(p.buf) < contentLenLimit
         THEN par' = p /\ UNCHANGED parsed
         ELSE par' = NewParser /\ parsed' = Buffered(p)
  /\ line' = <<>>
  /\ UNCHANGED <<file, life, start, readOffset, dec, han, out, decodedOffset, lines, sent, restarts>>

\* The flushTimer of MultiLineParser.run, when it has something to send.
ParserTimeout ==
  /\ life \in {"running", "InputChan", "parser"}
  /\ parsed = <<>> /\ Buffered(par) # <<>>
  /\ parsed' = Buffered(par)
  /\ par' = NewParser
  /\ UNCHANGED <<file, life, start, readOffset, dec, line, han, out, decodedOffset, lines, sent, restarts>>

----------------------------------------------------------------------------
(* The line handler *)

TrimSpace(s) ==
  LET kept == {k \in DOMAIN s : s[k] # "n"} IN IF kept = {} THEN <<>> ELSE SubSeq(s, Min(kept), Max(kept))
Flag(b) == IF b THEN <<"T">> ELSE <<>>

\* newContentRe, and the best of the patterns that AutoMultilineHandler tries.
NewContent(s) == s # <<>> /\ s[1] = "b"

\* SingleLineHandler.process: the new handler and the message.
SingleLine(h, m) ==
  LET content == Flag(h.shouldTruncate) \o TrimSpace(m.content)
      long == Len(content) >= contentLenLimit
  IN  [han |-> [h EXCEPT !.shouldTruncate = long], msgs |-> <<[m EXCEPT !.content = content \o Flag(long)]>>]

SendBufferKeeps(h) ==
  LET content == TrimSpace(h.buf)
  IN  [han  |-> [h EXCEPT !.buf = <<>>, !.shouldTruncate = FALSE],
       msgs |-> IF content # <<>> \/ h.linesLen > 0 THEN <<[content |-> content, raw |-> h.linesLen]>> ELSE <<>>]

\* MultiLineHandler.sendBuffer.
SendBuffer(h) ==
  LET content == TrimSpace(h.buf)
  IN  [han  |-> [h EXCEPT !.buf = <<>>, !.linesLen = 0, !.shouldTruncate = FALSE],
       msgs |-> IF content # <<>> \/ h.linesLen > 0 THEN <<[content |-> content, raw |-> h.linesLen]>> ELSE <<>>]

MultiLineCounts(h, m) ==
  LET counted == [h EXCEPT !.linesLen = @ + m.raw]
      before == IF NewContent(m.content) THEN SendBuffer(counted) ELSE [han |-> counted, msgs |-> <<>>]
      g == before.han
      feed == IF g.buf # <<>> THEN <<"n">> ELSE <<>>
      added == [g EXCEPT !.shouldTruncate = FALSE, !.buf = @ \o feed \o Flag(g.shouldTruncate) \o m.content]
      cut == SendBuffer([added EXCEPT !.buf = @ \o <<"T">>])
  IN  IF Len(added.buf) >= contentLenLimit
      THEN [han |-> [cut.han EXCEPT !.shouldTruncate = TRUE], msgs |-> before.msgs \o cut.msgs]
      ELSE [han |-> added, msgs |-> before.msgs]

\* MultiLineHandler.process.
MultiLine(h, m) ==
  LET before == IF NewContent(m.content) THEN SendBuffer(h) ELSE [han |-> h, msgs |-> <<>>]
      g == before.han
      feed == IF g.buf # <<>> THEN <<"n">> ELSE <<>>
      added == [g EXCEPT !.shouldTruncate = FALSE, !.linesLen = @ + m.raw,
                         !.buf = @ \o feed \o Flag(g.shouldTruncate) \o m.content]
      cut == SendBuffer([added EXCEPT !.buf = @ \o <<"T">>])
  IN  IF Len(added.buf) >= contentLenLimit
      THEN [han |-> [cut.han EXCEPT !.shouldTruncate = TRUE], msgs |-> before.msgs \o cut.msgs]
      ELSE [han |-> added, msgs |-> before.msgs]

\* AutoMultilineHandler.processAndTry: the verdict falls after linesToAssess
\* lines, or when timeoutTimer has fired before.
ProcessAndTry(h, m, timeout) ==
  LET one == SingleLine(h, m)
      g == [one.han EXCEPT !.tested = @ + 1, !.score = IF NewContent(one.msgs[1].content) THEN @ + 1 ELSE @]
      mode == IF 100 * g.score >= matchThreshold * g.tested THEN "multi" ELSE "single"
      settled == IF mode = "multi" THEN NewHandler("multi") ELSE [g EXCEPT !.mode = "single", !.tested = 0, !.score = 0]
  IN  [han |-> IF g.tested >= linesToAssess \/ timeout THEN settled ELSE g, msgs |-> one.msgs]

Process(h, m, timeout) ==
  IF h.mode = "single" THEN SingleLine(h, m)
  ELSE IF h.mode = "multi" THEN MultiLine(h, m) ELSE ProcessAndTry(h, m, timeout)

HandleLine ==
  /\ parsed # <<>> /\ out = <<>>
  /\ \E timeout \in BOOLEAN : LET done == Process(han, parsed[1], timeout) IN han' = done.han /\ out' = done.msgs
  /\ parsed' = <<>>
  /\ UNCHANGED <<file, life, start, readOffset, dec, line, par, decodedOffset, lines, sent, restarts>>

HandlerTimeoutOnStop ==
  /\ life = "handler"
  /\ han.mode = "multi" /\ out = <<>>
  /\ han' = SendBuffer(han).han /\ han' # han
  /\ out' = SendBuffer(han).msgs
  /\ UNCHANGED <<file, life, start, readOffset, dec, line, par, parsed, decodedOffset, lines, sent, restarts>>

\* The flushTimer of MultiLineHandler.run.
HandlerTimeout ==
  /\ life \notin {"outputChan", "done"}
  /\ han.mode = "multi" /\ out = <<>>
  /\ han' = SendBuffer(han).han /\ han' # han
  /\ out' = SendBuffer(han).msgs
  /\ UNCHANGED <<file, life, start, readOffset, dec, line, par, parsed, decodedOffset, lines, sent, restarts>>

----------------------------------------------------------------------------
(* forwardMessages; an empty message only moves the offset *)

ForwardMessage ==
  /\ out # <<>>
  /\ out' = Tail(out)
  /\ LET offset == decodedOffset + out[1].raw
         msg == [from |-> decodedOffset, offset |-> offset, content |-> out[1].content]
     IN  /\ decodedOffset' = offset
         /\ sent' = IF msg.content = <<>> THEN sent ELSE Append(sent, msg)
  /\ UNCHANGED <<file, life, start, readOffset, dec, line, par, parsed, han, lines, restarts>>

----------------------------------------------------------------------------
(* Tailer.Stop, and the next tailer of the file *)

\* readForever receives from t.stop between two reads: onStop closes InputChan.
Stop ==
  /\ life = "running"
  /\ life' = "InputChan"
  /\ UNCHANGED <<file, start, readOffset, dec, line, par, parsed, han, out, decodedOffset, lines, sent, restarts>>

\* The end of Decoder.run.
DecoderStops ==
  /\ life = "InputChan" /\ dec.chunk = <<>> /\ line = <<>>
  /\ life' = "parser"
  /\ UNCHANGED <<file, start, readOffset, dec, line, par, parsed, han, out, decodedOffset, lines, sent, restarts>>

ParserStopsAtOnce ==
  /\ life = "parser" /\ line = <<>> /\ parsed = <<>>
  /\ life' = "handler"
  /\ UNCHANGED <<file, start, readOffset, dec, line, par, parsed, han, out, decodedOffset, lines, sent, restarts>>

\* The end of the parser's run, with what it still holds.
ParserStops ==
  /\ life = "parser" /\ line = <<>> /\ parsed = <<>>
  /\ parsed' = Buffered(par)
  /\ par' = NewParser
  /\ life' = "handler"
  /\ UNCHANGED <<file, start, readOffset, dec, line, han, out, decodedOffset, lines, sent, restarts>>

\* The end of the handler's run, with what it still holds; it closes outputChan.
HandlerStops ==
  /\ life = "handler" /\ parsed = <<>> /\ out = <<>>
  /\ IF han.mode = "multi"
     THEN out' = SendBuffer(han).msgs /\ han' = SendBuffer(han).han
     ELSE UNCHANGED <<out, han>>
  /\ life' = "outputChan"
  /\ UNCHANGED <<file, start, readOffset, dec, line, par, parsed, decodedOffset, lines, sent, restarts>>

ForwardStops ==
  /\ life = "outputChan" /\ out = <<>>
  /\ life' = "done"
  /\ UNCHANGED <<file, start, readOffset, dec, line, par, parsed, han, out, decodedOffset, lines, sent, restarts>>

\* The agent is killed, or the tailer has stopped; the next tailer begins at
\* the offset of a message that was sent, or where this one began.
Restart ==
  /\ restarts < MaxRestarts
  /\ \E offset \in {start} \cup {m.offset : m \in Range(sent)} :
       start' = offset /\ readOffset' = offset /\ decodedOffset' = offset
  /\ restarts' = restarts + 1
  /\ life' = "running"
  /\ dec' = NewDecoder
  /\ par' = NewParser
  /\ han' = NewHandler(file.handler)
  /\ line' = <<>> /\ parsed' = <<>> /\ out' = <<>> /\ lines' = <<>> /\ sent' = <<>>
  /\ UNCHANGED file

----------------------------------------------------------------------------

Steps ==
  \/ Read \/ DecodeLine \/ DecodeRest
  \/ ParseLine \/ ParserTimeout
  \/ HandleLine \/ HandlerTimeout
  \/ ForwardMessage
  \/ DecoderStops \/ ParserStops \/ HandlerStops \/ ForwardStops

Next == Steps \/ Stop \/ Restart

Spec == Init /\ [][Next]_vars

\* The goroutines keep running, the timers fire, and the file is read to its end.
Fairness ==
  /\ WF_vars(Read) /\ WF_vars(DecodeLine) /\ WF_vars(DecodeRest)
  /\ WF_vars(ParseLine) /\ WF_vars(ParserTimeout)
  /\ WF_vars(HandleLine) /\ WF_vars(HandlerTimeout)
  /\ WF_vars(ForwardMessage)
  /\ WF_vars(DecoderStops) /\ WF_vars(ParserStops) /\ WF_vars(HandlerStops) /\ WF_vars(ForwardStops)

LiveSpec == Spec /\ Fairness

----------------------------------------------------------------------------
(* Properties *)

\* The bytes of what is handed over: one line, one Message of the parser, and
\* at most two of a handler.
Raw(items) == IF items = <<>> THEN 0 ELSE items[1].raw + (IF Len(items) > 1 THEN items[2].raw ELSE 0)

\* The bytes of s that no step cuts off or puts in.
Visible(s) ==
  LET upTo[k \in 0..Len(s)] ==
        IF k = 0 THEN <<>> ELSE IF s[k] \in {"x", "b"} THEN Append(upTo[k - 1], s[k]) ELSE upTo[k - 1]
  IN  upTo[Len(s)]

\* Every byte that was read is accounted for exactly once on its way through
\* the four goroutines, whatever was cut, joined, trimmed or flushed: the
\* offset that forwardMessages computes from RawDataLen does not drift from
\* the position in the file ("the length of the line is properly tracked").
\* The decoder counts what is in its line buffer, which stays within the limit.
LengthsAddUp ==
  /\ decodedOffset + Raw(out) + han.linesLen + Raw(parsed) + par.raw + Raw(line) + dec.raw + (Len(dec.chunk) - dec.i)
       = readOffset
  /\ Len(out) <= 2 /\ Len(parsed) <= 1 /\ Len(line) <= 1
  /\ dec.raw = Len(dec.buf) /\ dec.raw <= contentLenLimit

\* Where the bytes of a message begin and end; the tailer begins at start, and
\* the next message begins at decodedOffset.
From(k) == IF k > Len(sent) THEN decodedOffset ELSE sent[k].from
UpTo(k) == IF k = 0 THEN start ELSE sent[k].offset

\* The content of a message is what the file holds from where it begins up to
\* its offset, and the messages come in order, with nothing visible between two
\* of them: a restart at any offset that was sent ("so that the agent restarts
\* tailing from the right place") neither skips nor repeats a byte.  UTF-16
\* files are left out: sendLine also takes a byte off a line that was cut at
\* the limit and has no separator.
CoversExactly ==
  file.parser # "utf16" =>
    /\ \A k \in 1 .. Len(sent) : Visible(sent[k].content) = Visible(SubSeq(file.input, From(k) + 1, UpTo(k)))
    /\ \A k \in 0 .. Len(sent) : UpTo(k) <= From(k + 1) /\ Visible(SubSeq(file.input, UpTo(k) + 1, From(k + 1))) = <<>>

\* When Tailer.Stop has returned ("returns only when the decoder is flushed"),
\* every byte before the line that is still incomplete was forwarded.
StopFlushes == life = "done" => decodedOffset = readOffset - dec.raw

\* Where the line that begins after byte p of the file may end: at a separator
\* within contentLenLimit.  A line that follows a cut is not searched at its
\* first byte.
Ends(p, afterCut) ==
  {k \in p + (IF afterCut THEN 2 ELSE 1) .. Len(file.input) :
     k <= p + contentLenLimit /\ Match(SubSeq(file.input, p + 1, k))}

\* That line ends at its first separator or, when it has none, at
\* contentLenLimit, or is not complete.
Incomplete(p, afterCut) == Ends(p, afterCut) = {} /\ Len(file.input) <= p + contentLenLimit
LineEnd(p, afterCut) == IF Ends(p, afterCut) # {} THEN Min(Ends(p, afterCut)) ELSE p + contentLenLimit
LineAt(p, afterCut) ==
  LET k == LineEnd(p, afterCut)
      n == IF Ends(p, afterCut) # {} THEN Len(Separator) ELSE Len(Separator) - 1
  IN  [content |-> SubSeq(file.input, p + 1, k - n), raw |-> k - p]

\* The lines after byte x[1], which follows a cut when x[2] is true.
LinesFrom[x \in (0 .. Len(file.input)) \X BOOLEAN] ==
  IF Incomplete(x[1], x[2]) THEN <<>>
  ELSE <<LineAt(x[1], x[2])>> \o LinesFrom[<<LineEnd(x[1], x[2]), Ends(x[1], x[2]) = {}>>]

FileLines == LinesFrom[<<start, FALSE>>]

\* The lines that decodeIncomingData finds are the first ones of those found in
\* the whole file at once: they do not depend on how the reads cut the file
\* into chunks, inside a separator or at the limit of a line.
ChunkingIsIrrelevant == Len(lines) <= Len(FileLines) /\ lines = SubSeq(FileLines, 1, Len(lines))

----------------------------------------------------------------------------
(* What makes them inductive *)

Text == Seq(Bytes \cup {"T"})
Item == [content : Text, raw : Nat]
Handler == [mode : {"single", "multi", "try"}, buf : Text, linesLen : Nat, shouldTruncate : BOOLEAN, tested : Nat, score : Nat]

DecoderTypes ==
  /\ file \in Files
  /\ start \in Nat /\ readOffset \in Nat /\ decodedOffset \in Nat
  /\ dec \in [chunk : Seq(Bytes), i : Nat, j : Nat, maxj : Nat, buf : Seq(Bytes), raw : Nat]
  /\ line \in Seq(Item) /\ parsed \in Seq(Item) /\ out \in Seq(Item)
  /\ par \in [buf : Text, raw : Nat]
  /\ han \in Handler
  /\ sent \in Seq([from : Nat, offset : Nat, content : Text])

\* maxj is where the line buffer would be full, and the loop of
\* decodeIncomingData never steps over it.
LimitAhead ==
  IF dec.chunk = <<>> THEN dec.i = 0
  ELSE /\ dec.i <= dec.j /\ dec.j <= Len(dec.chunk) /\ dec.j <= dec.maxj
       /\ dec.maxj = dec.i + contentLenLimit - Len(dec.buf)

\* A channel is closed by a goroutine that holds nothing any more, and only
\* MultiLineHandler counts bytes that it has not sent.
Flushed ==
  /\ life \in {"running", "InputChan", "parser", "handler", "outputChan", "done"}
  /\ life \notin {"running", "InputChan"} => dec.chunk = <<>> /\ line = <<>>
  /\ life \in {"handler", "outputChan", "done"} => par.raw = 0 /\ par.buf = <<>>
  /\ life \in {"outputChan", "done"} => parsed = <<>> /\ han.linesLen = 0
  /\ life = "done" => out = <<>>
  /\ han.mode # "multi" => han.linesLen = 0

DecoderInv == DecoderTypes /\ LengthsAddUp /\ LimitAhead /\ Flushed

\* In its line buffer and in what is left of the chunk, the decoder holds the
\* bytes of the file from the beginning of its line up to readOffset.
LineStart == readOffset - (Len(dec.chunk) - dec.i) - dec.raw
HoldsFile ==
  /\ start <= Len(file.input) /\ readOffset <= Len(file.input)
  /\ \A k \in DOMAIN sent : sent[k].offset <= Len(file.input)
  /\ LineStart >= 0
  /\ \A k \in 1 .. Len(dec.buf) : dec.buf[k] = file.input[LineStart + k]
  /\ \A k \in dec.i + 1 .. Len(dec.chunk) : dec.chunk[k] = file.input[readOffset - Len(dec.chunk) + k]

\* The part of its line that the decoder has searched holds no end of a line.
Searched == LineStart + dec.raw + (IF dec.chunk = <<>> THEN 0 ELSE dec.j - dec.i)
LinesSoFar ==
  \E afterCut \in BOOLEAN :
    /\ FileLines = lines \o LinesFrom[<<LineStart, afterCut>>]
    /\ \A k \in Ends(LineStart, afterCut) : k > Searched
    /\ afterCut => Searched > LineStart

ChunkInv == DecoderInv /\ HoldsFile /\ lines \in Seq(Item) /\ LinesSoFar

\* s has the visible bytes that f holds between a and b.
Covers(s, f, a, b) == a <= b /\ b <= Len(f) /\ Visible(s) = Visible(SubSeq(f, a + 1, b))

\* So have the one or two items that are handed over, from a on.
CoversAll(items, f, a) ==
  /\ items # <<>> => Covers(items[1].content, f, a, a + items[1].raw)
  /\ Len(items) > 1 => Covers(items[2].content, f, a + items[1].raw, a + items[1].raw + items[2].raw)

\* Each goroutine holds the bytes of the file that follow those of the next one.
HandlerFrom == decodedOffset + Raw(out)
ParsedFrom == HandlerFrom + han.linesLen
ParserFrom == ParsedFrom + Raw(parsed)
DecodedFrom == ParserFrom + par.raw
PartsCover ==
  /\ CoversAll(out, file.input, decodedOffset)
  /\ Covers(han.buf, file.input, HandlerFrom, ParsedFrom)
  /\ CoversAll(parsed, file.input, ParsedFrom)
  /\ Covers(par.buf, file.input, ParserFrom, DecodedFrom)
  /\ CoversAll(line, file.input, DecodedFrom)

CoverInv ==
  /\ DecoderInv /\ HoldsFile
  /\ file.parser # "utf16" => PartsCover /\ CoversExactly

=============================================================================
