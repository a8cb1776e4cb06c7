----------------------------- MODULE LogScanner -----------------------------
(***************************************************************************)
(* The scanner of log files (logs/input/file/scanner.go) and the life of   *)
(* its tailers (tailer.go): files appear, grow, are rotated, truncated and *)
(* removed while the scanner goes through them one by one; it starts       *)
(* tailers up to a limit, replaces those of rotated files, drops those of  *)
(* files it no longer finds, and may be stopped in the middle of a scan.   *)
(*                                                                         *)
(* Of a file the model knows whether it exists, whether a tailer has the   *)
(* present one open or an earlier one, and whether the tailer stands past  *)
(* its end.  A file may grow at any time.  What the messages are and what  *)
(* their offsets mean is the subject of LogDecoder and LogPipeline: here   *)
(* the registry may send a tailer anywhere into its file.                  *)
(***************************************************************************)
EXTENDS Integers, Sequences, FiniteSets, FiniteSetsExt, SequencesExt

CONSTANTS
  Sources,       \* the log sources, in the order in which they are added
  CollectsFrom,  \* per source, the paths it matches in the provider's order
  tailingLimit,
  MaxTailers,    \* bound: the tailers that exist at a time
  MaxChanges,    \* bound: files that appear, go, are rotated or truncated
  MaxFaults      \* bound: files that cannot be opened or read

Paths == UNION {ToSet(CollectsFrom[s]) : s \in ToSet(Sources)}
Tailers == 1..MaxTailers

ASSUME ScannerAssumption ==
  /\ \A s \in ToSet(Sources) : CollectsFrom[s] \in Seq(Paths)
  /\ tailingLimit \in Nat \ {0}
  /\ MaxTailers \in Nat /\ MaxChanges \in Nat /\ MaxFaults \in Nat

VARIABLES
  disk,      \* the paths of the files that exist
  changes,   \* number of changes so far
  faults,    \* number of faults so far
  jammed,    \* the pipelines take no more messages
  added,     \* the sources whose AddSource has not returned
  active,    \* Scanner.activeSources
  tailers,   \* Scanner.tailers, None where there is none
  scanner,   \* the loop of Scanner.run: files still to look at, filesTailed and tailersLen
  stop,      \* Scanner.Stop
  waits,     \* the tailers it waits for
  tailer     \* the tailers

worldVars == <<disk, changes, faults, jammed>>
vars == <<worldVars, added, active, tailers, scanner, stop, waits, tailer>>

None == 0
Idle == [pc |-> "idle", files |-> <<>>, tailed |-> {}, count |-> 0]

\* present: the file that is open is the one of its path; past: readOffset is
\* larger than its size; load: the messages between file and pipeline, with
\* MaxLoad of them readForever waits for the decoder; stopped: a signal in
\* t.stop; timer: startStopTimer runs; cancelled: stopForward was called.
\* The file of a tailer that was dismissed is of no more interest.
MaxLoad == 2
NewTailer == [pc |-> "off", path |-> "", present |-> FALSE, past |-> FALSE, load |-> 0,
              stopped |-> FALSE, timer |-> FALSE, cancelled |-> FALSE]

Init ==
  /\ disk = {}
  /\ changes = 0
  /\ faults = 0
  /\ jammed = FALSE
  /\ added = Sources
  /\ active = <<>>
  /\ tailers = [p \in Paths |-> None]
  /\ scanner = Idle
  /\ stop = "no"
  /\ waits = {}
  /\ tailer = [t \in Tailers |-> NewTailer]

Mapped == {p \in Paths : tailers[p] # None}

----------------------------------------------------------------------------
(* The files *)

TailersOf(p) == {t \in Tailers : tailer[t].path = p /\ tailer[t].present}

\* A file appears, or is renamed or removed and made again.
Create(p) ==
  /\ changes < MaxChanges
  /\ changes' = changes + 1
  /\ disk' = disk \cup {p}
  /\ tailer' = [t \in Tailers |-> [tailer[t] EXCEPT !.present = @ /\ t \notin TailersOf(p)]]
  /\ UNCHANGED <<faults, jammed, added, active, tailers, scanner, stop, waits>>

Delete(p) ==
  /\ p \in disk /\ changes < MaxChanges
  /\ changes' = changes + 1
  /\ disk' = disk \ {p}
  /\ tailer' = [t \in Tailers |-> [tailer[t] EXCEPT !.present = @ /\ t \notin TailersOf(p)]]
  /\ UNCHANGED <<faults, jammed, added, active, tailers, scanner, stop, waits>>

\* Who has the file open stands past its end, until Grows.
Truncate(p) ==
  /\ p \in disk /\ changes < MaxChanges
  /\ changes' = changes + 1
  /\ tailer' = [t \in Tailers |-> [tailer[t] EXCEPT !.past = @ \/ t \in TailersOf(p)]]
  /\ UNCHANGED <<disk, faults, jammed, added, active, tailers, scanner, stop, waits>>

\* The file grows up to where the tailer stands.
Grows(t) ==
  /\ tailer[t].past
  /\ tailer' = [tailer EXCEPT ![t].past = FALSE]
  /\ UNCHANGED <<worldVars, added, active, tailers, scanner, stop, waits>>

Jam ==
  /\ ~jammed
  /\ jammed' = TRUE
  /\ UNCHANGED <<disk, changes, faults, added, active, tailers, scanner, stop, waits, tailer>>

\* Provider.CollectFiles and Provider.FilesToTail.
CollectFiles(s) == SelectSeq(CollectsFrom[s], LAMBDA p : p \in disk)
FilesToTail == LET all == FlattenSeq([k \in DOMAIN active |-> CollectFiles(active[k])])
               IN  SubSeq(all, 1, Min({Len(all), tailingLimit}))

----------------------------------------------------------------------------
(* The tailers *)

Free == {t \in Tailers \ waits : tailer[t].pc \in {"off", "done"} /\ ~tailer[t].timer /\ \A p \in Paths : tailers[p] # t}

Started(p, past) == [NewTailer EXCEPT !.pc = "reads", !.path = p, !.present = TRUE, !.past = past]

Dismissed(t) == [tailer[t] EXCEPT !.path = "", !.present = FALSE, !.past = FALSE]

\* The select of readForever prefers t.stop to another read.
Reads(t) ==
  /\ tailer[t].pc = "reads" /\ tailer[t].load < MaxLoad /\ ~tailer[t].stopped
  /\ ~tailer[t].past
  /\ tailer' = [tailer EXCEPT ![t].load = @ + 1]
  /\ UNCHANGED <<worldVars, added, active, tailers, scanner, stop, waits>>

ForwardsOrBlocks(t) ==
  /\ tailer[t].load > 0
  /\ ~jammed
  /\ tailer' = [tailer EXCEPT ![t].load = @ - 1]
  /\ UNCHANGED <<worldVars, added, active, tailers, scanner, stop, waits>>

\* The select of forwardMessages.
Forwards(t) ==
  /\ tailer[t].load > 0
  /\ ~jammed \/ tailer[t].cancelled
  /\ tailer' = [tailer EXCEPT ![t].load = @ - 1]
  /\ UNCHANGED <<worldVars, added, active, tailers, scanner, stop, waits>>

ReceivesStop(t) ==
  /\ tailer[t].pc = "reads" /\ tailer[t].load < MaxLoad /\ tailer[t].stopped
  /\ tailer' = [tailer EXCEPT ![t].pc = "flushes", ![t].stopped = FALSE]
  /\ UNCHANGED <<worldVars, added, active, tailers, scanner, stop, waits>>

ReadFails(t) ==
  /\ tailer[t].pc = "reads" /\ tailer[t].load < MaxLoad
  /\ faults < MaxFaults
  /\ faults' = faults + 1
  /\ tailer' = [tailer EXCEPT ![t].pc = "flushes"]
  /\ UNCHANGED <<disk, changes, jammed, added, active, tailers, scanner, stop, waits>>

\* The decoder is flushed: shouldStop is set and done is closed.
Ends(t) ==
  /\ tailer[t].pc = "flushes" /\ tailer[t].load = 0
  /\ tailer' = [tailer EXCEPT ![t] = [NewTailer EXCEPT !.pc = "done", !.path = tailer[t].path, !.timer = tailer[t].timer]]
  /\ UNCHANGED <<worldVars, added, active, tailers, scanner, stop, waits>>

\* The end of closeTimeout.
StopTimer(t) ==
  /\ tailer[t].timer
  /\ tailer' = [tailer EXCEPT ![t].timer = FALSE, ![t].cancelled = TRUE, ![t].stopped = TRUE]
  /\ UNCHANGED <<worldVars, added, active, tailers, scanner, stop, waits>>

----------------------------------------------------------------------------
(* The scanner *)

\* A source arrives, in one of the iterations of Scanner.run.
AddSource ==
  /\ scanner.pc = "idle" /\ added # <<>>
  /\ added' = Tail(added)
  /\ active' = Append(active, Head(added))
  /\ scanner' = [Idle EXCEPT !.pc = "launch", !.files = CollectFiles(Head(added))]
  /\ UNCHANGED <<worldVars, tailers, stop, waits, tailer>>

\* The next scan stops its tailers.
RemoveSource(s) ==
  /\ scanner.pc = "idle" /\ s \in ToSet(active)
  /\ active' = RemoveFirst(active, s)
  /\ UNCHANGED <<worldVars, added, tailers, scanner, stop, waits, tailer>>

ScanBegins ==
  /\ scanner.pc = "idle"
  /\ scanner' = [pc |-> "scan", files |-> FilesToTail, tailed |-> {}, count |-> Cardinality(Mapped)]
  /\ UNCHANGED <<worldVars, added, active, tailers, stop, waits, tailer>>

file == Head(scanner.files)

\* A file that exists may still not open.
Opens == file \in disk /\ faults' = faults
OpenFails == IF file \in disk THEN faults < MaxFaults /\ faults' = faults + 1 ELSE faults' = faults

Done == [scanner EXCEPT !.files = Tail(@)]
DoneAnd(n) == [Done EXCEPT !.tailed = @ \cup {file}, !.count = @ + n]
Skip == scanner' = Done /\ UNCHANGED <<faults, tailers, tailer>>

\* startNewTailer: from the registered offset, which may be one of an earlier
\* content of the file, or from the beginning or the end.
StartNewTailer(n) ==
  \/ /\ Opens /\ Free # {}
     /\ \E past \in BOOLEAN : tailer' = [tailer EXCEPT ![Min(Free)] = Started(file, past)]
     /\ tailers' = [tailers EXCEPT ![file] = Min(Free)]
     /\ scanner' = DoneAnd(n)
  \/ /\ OpenFails
     /\ scanner' = Done
     /\ UNCHANGED <<tailers, tailer>>

\* One file of launchTailers.
LaunchTailer ==
  /\ scanner.pc = "launch" /\ scanner.files # <<>>
  /\ \/ /\ Cardinality(Mapped) >= tailingLimit
        /\ scanner' = [scanner EXCEPT !.files = <<>>]
        /\ UNCHANGED <<faults, tailers, tailer>>
     \/ Cardinality(Mapped) < tailingLimit /\ file \in Mapped /\ Skip
     \/ Cardinality(Mapped) < tailingLimit /\ file \notin Mapped /\ StartNewTailer(0)
  /\ UNCHANGED <<disk, changes, jammed, added, active, stop, waits>>

LaunchEnds ==
  /\ scanner.pc = "launch" /\ scanner.files = <<>>
  /\ scanner' = Idle
  /\ UNCHANGED <<worldVars, added, active, tailers, stop, waits, tailer>>

WasRecreated(t) ==
  \/ tailer[t].pc # "reads"
  \/ ~tailer[t].present

\* DidRotate: recreated, truncated, or no longer open here.
DidRotate(t) ==
  \/ tailer[t].pc # "reads"
  \/ ~tailer[t].present
  \/ tailer[t].past

RestartTailerOnly(t) ==
  \/ /\ Opens /\ Free # {}
     /\ tailer' = [tailer EXCEPT ![t] = Dismissed(t), ![Min(Free)] = Started(file, FALSE)]
     /\ tailers' = [tailers EXCEPT ![file] = Min(Free)]
     /\ scanner' = DoneAnd(0)
  \/ /\ OpenFails
     /\ scanner' = Done
     /\ UNCHANGED <<tailer, tailers>>

\* StopAfterFileRotation, and a tailer for the new file, which replaces it
\* unless the file cannot be opened.
RestartTailerAfterFileRotation(t) ==
  LET rotated(old) == [tailer EXCEPT ![t] = [old EXCEPT !.timer = TRUE]]
  IN  \/ /\ Opens /\ Free # {}
         /\ tailer' = [rotated(Dismissed(t)) EXCEPT ![Min(Free)] = Started(file, FALSE)]
         /\ tailers' = [tailers EXCEPT ![file] = Min(Free)]
         /\ scanner' = DoneAnd(0)
      \/ /\ OpenFails
         /\ tailer' = rotated(tailer[t])
         /\ scanner' = Done
         /\ UNCHANGED tailers

\* One file of scan.
ScanTailed(t) ==
  \/ tailer[t].pc = "done" /\ Skip
  \/ /\ tailer[t].pc # "done"
     /\ OpenFails
     /\ scanner' = Done
     /\ UNCHANGED <<tailers, tailer>>
  \/ tailer[t].pc # "done" /\ file \in disk /\ DidRotate(t) /\ RestartTailerAfterFileRotation(t)
  \/ /\ tailer[t].pc # "done" /\ file \in disk /\ ~DidRotate(t)
     /\ scanner' = DoneAnd(0)
     /\ UNCHANGED <<faults, tailers, tailer>>

ScanFileUnlimited ==
  /\ scanner.pc = "scan" /\ scanner.files # <<>>
  /\ \/ file \in Mapped /\ ScanTailed(tailers[file])
     \/ file \notin Mapped /\ StartNewTailer(1)
  /\ UNCHANGED <<disk, changes, jammed, added, active, stop, waits>>

ScanFile ==
  /\ scanner.pc = "scan" /\ scanner.files # <<>>
  /\ \/ file \in Mapped /\ ScanTailed(tailers[file])
     \/ file \notin Mapped /\ scanner.count >= tailingLimit /\ Skip
     \/ file \notin Mapped /\ scanner.count < tailingLimit /\ StartNewTailer(1)
  /\ UNCHANGED <<disk, changes, jammed, added, active, stop, waits>>

\* stopTailer for every tailer that was not selected.
StopOthers ==
  /\ scanner.pc = "scan" /\ scanner.files = <<>>
  /\ LET others == {tailers[p] : p \in Mapped \ scanner.tailed}
     IN  /\ tailer' = [t \in Tailers |-> IF t \in others THEN [Dismissed(t) EXCEPT !.stopped = TRUE] ELSE tailer[t]]
         /\ tailers' = [p \in Paths |-> IF p \in scanner.tailed THEN tailers[p] ELSE None]
  /\ scanner' = Idle
  /\ UNCHANGED <<worldVars, added, active, stop, waits>>

----------------------------------------------------------------------------
(* Scanner.Stop, while run may be in the middle of a scan *)

CloseStop ==
  /\ stop = "no"
  /\ stop' = "closed"
  /\ UNCHANGED <<worldVars, added, active, tailers, scanner, waits, tailer>>

RunReturns ==
  /\ scanner.pc = "idle" /\ stop # "no"
  /\ scanner' = [Idle EXCEPT !.pc = "off"]
  /\ UNCHANGED <<worldVars, added, active, tailers, stop, waits, tailer>>

Cleanup ==
  /\ stop = "closed"
  /\ stop' = "waits"
  /\ waits' = {tailers[p] : p \in Mapped}
  /\ tailer' = [t \in Tailers |-> IF t \in waits' THEN [Dismissed(t) EXCEPT !.stopped = TRUE] ELSE tailer[t]]
  /\ tailers' = [p \in Paths |-> None]
  /\ UNCHANGED <<worldVars, added, active, scanner>>

StopAwaitsAll ==
  /\ stop = "waits" /\ \A t \in Tailers : tailer[t].pc \in {"off", "done"}
  /\ stop' = "returned"
  /\ waits' = {}
  /\ UNCHANGED <<worldVars, added, active, tailers, scanner, tailer>>

StopReturns ==
  /\ stop = "waits" /\ \A t \in waits : tailer[t].pc = "done"
  /\ stop' = "returned"
  /\ waits' = {}
  /\ UNCHANGED <<worldVars, added, active, tailers, scanner, tailer>>

----------------------------------------------------------------------------

ScannerSteps == AddSource \/ ScanBegins \/ LaunchTailer \/ LaunchEnds \/ ScanFile \/ StopOthers \/ RunReturns
TailerSteps(t) == Forwards(t) \/ ReceivesStop(t) \/ Ends(t)
StopSteps == Cleanup \/ StopReturns

Next ==
  \/ \E p \in Paths : Create(p) \/ Delete(p) \/ Truncate(p)
  \/ Jam
  \/ ScannerSteps
  \/ \E s \in ToSet(Sources) : RemoveSource(s)
  \/ \E t \in Tailers : TailerSteps(t) \/ StopTimer(t) \/ Reads(t) \/ ReadFails(t) \/ Grows(t)
  \/ CloseStop \/ StopSteps

Spec == Init /\ [][Next]_vars

\* The goroutines keep running, and scanTicker and the stop timers fire.
Fairness ==
  /\ WF_vars(ScannerSteps)
  /\ \A t \in Tailers : WF_vars(TailerSteps(t)) /\ WF_vars(StopTimer(t))
  /\ WF_vars(StopSteps)

LiveSpec == Spec /\ Fairness

----------------------------------------------------------------------------
(* Properties *)

\* The map never holds more than tailingLimit tailers, although scan works with
\* a count taken at its beginning, launchTailers with the map itself, and
\* tailers are replaced in between; and each is listed under its own path.
LimitHolds ==
  /\ Cardinality(Mapped) <= tailingLimit
  /\ \A p \in Mapped : tailer[tailers[p]].path = p

\* A tailer that reads and is not in the map was told to stop or has its stop
\* timer running: none is left behind when it is replaced after a rotation,
\* dropped, or when its replacement fails (restartTailerAfterFileRotation,
\* stopTailer, cleanup).
NoOrphans ==
  \A t \in Tailers : tailer[t].pc = "reads" /\ (\A p \in Paths : tailers[p] # t)
                        => tailer[t].stopped \/ tailer[t].timer

\* Once the files are left alone, every file that FilesToTail selects has a
\* tailer that reads the present file, and not past its end, whatever was rotated, truncated,
\* removed or could not be opened in the middle of a scan ("let's try to tail
\* this file in the next scan"); a stuck pipeline may need more tailers than
\* MaxTailers.
FilesAreTailed ==
  <>[](stop # "no" \/ jammed \/ \A p \in ToSet(FilesToTail) :
         p \in Mapped /\ LET t == tailer[tailers[p]] IN t.pc = "reads" /\ t.present /\ ~t.past)

\* A tailer whose file was rotated ends, even when the pipeline takes nothing
\* any more ("to be able to stop the tailer after a file rotation when it is
\* stuck on it").
RotatedEnds == \A t \in Tailers : tailer[t].timer ~> tailer[t].pc = "done"

\* Scanner.Stop returns, unless a pipeline is stuck.
StopEnds == stop = "closed" ~> stop = "returned" \/ jammed

----------------------------------------------------------------------------
(* What makes them inductive *)

TailerRecord == [pc : {"off", "reads", "flushes", "done"}, path : Paths \cup {""}, present : BOOLEAN, past : BOOLEAN,
                 load : 0..MaxLoad, stopped : BOOLEAN, timer : BOOLEAN, cancelled : BOOLEAN]
ScannerTypes ==
  /\ disk \subseteq Paths
  /\ tailers \in [Paths -> Tailers \cup {None}]
  /\ tailer \in [Tailers -> TailerRecord]
  /\ scanner \in [pc : {"idle", "launch", "scan", "off"}, files : {scanner.files}, tailed : {scanner.tailed}, count : Nat]

\* tailersLen counts every tailer in the map, although cleanup may empty the
\* map in the middle of a scan.
CountCovers == IsFiniteSet(Mapped) /\ (scanner.pc = "scan" => Cardinality(Mapped) <= scanner.count)

ScannerInv == ScannerTypes /\ CountCovers /\ LimitHolds /\ NoOrphans

=============================================================================
