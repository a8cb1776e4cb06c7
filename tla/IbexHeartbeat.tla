--------------------------- MODULE IbexHeartbeat ---------------------------
(***************************************************************************)
(* The ibex agent as a whole: ibex/heartbeat.go on top of the task table.  *)
(*                                                                         *)
(* Start launches a goroutine (a generation of heartbeatCron) that         *)
(* reports the tasks to the server and applies the assignments of the      *)
(* answer; Stop cancels it, stops all tasks and waits, with a timeout, for *)
(* both.  A Stop that timed out leaves the goroutine behind, and a reload  *)
(* starts the next generation beside it.  The agent may crash and start    *)
(* again from its directory.                                               *)
(*                                                                         *)
(* External: the server.  It stamps every new assignment of an id with a   *)
(* larger clock, and may repeat or leave out an assignment in any answer.  *)
(***************************************************************************)
EXTENDS IbexLocals

CONSTANTS
  MaxGens,      \* bound: generations of the heartbeat goroutine
  MaxCrashes    \* bound: crashes of the agent

Gens == 1..MaxGens

ASSUME HeartbeatAssumption ==
  /\ MaxGens \in Nat
  /\ MaxCrashes \in Nat
  /\ Main \notin Gens
  /\ Callers = Gens \cup {Main}

VARIABLES
  hb,         \* generation -> the goroutine in heartbeatCron / heartbeat
  cancelled,  \* generations whose context is cancelled
  main,       \* lifecycle: where Start / Stop are, the generation they made
  server,     \* external: id -> the assignment the server holds
  crashes     \* number of crashes so far

vars == <<jobVars, localsVars, hb, cancelled, main, server, crashes>>

\* A goroutine that does not run.  snap, cur and status are locals of
\* ReportTasks, todo and assigned those of heartbeat.
NoBeat == [pc |-> "off", snap |-> {}, cur |-> NoTask, status |-> "", todo |-> {}, assigned |-> {}]
Waiting == [NoBeat EXCEPT !.pc = "wait"]

Init ==
  /\ JobInit
  /\ LocalsInit
  /\ hb = [g \in Gens |-> NoBeat]
  /\ cancelled = {}
  /\ main = [pc |-> "down", gen |-> 0, timedOut |-> FALSE, overlap |-> FALSE]
  /\ server = [i \in Ids |-> [clock |-> 0, action |-> "start"]]
  /\ crashes = 0

----------------------------------------------------------------------------
(* The server *)

ServerAssigns(i) ==
  /\ \E c \in Clocks, a \in Action :
       /\ c > server[i].clock
       /\ server' = [server EXCEPT ![i] = [clock |-> c, action |-> a]]
  /\ UNCHANGED <<jobVars, localsVars, hb, cancelled, main, crashes>>

Current == {[id |-> i, clock |-> server[i].clock, action |-> server[i].action] :
              i \in {j \in Ids : server[j].clock > 0}}

----------------------------------------------------------------------------
(* heartbeatCron and heartbeat, generation g *)

lifecycleVars == <<cancelled, main, server, crashes>>

\* The goroutine looks at the agent's state instead of its own context.
QuitWhenCurrent(g) ==
  /\ hb[g].pc = "wait"
  /\ g = main.gen /\ main.pc # "up"
  /\ hb' = [hb EXCEPT ![g] = NoBeat]
  /\ UNCHANGED <<jobVars, localsVars, lifecycleVars>>

\* ctx.Done() is chosen; the deferred close(done) follows.
Quit(g) ==
  /\ hb[g].pc = "wait"
  /\ g \in cancelled
  /\ hb' = [hb EXCEPT ![g] = NoBeat]
  /\ UNCHANGED <<jobVars, localsVars, lifecycleVars>>

\* The timer is chosen, cancelled or not; ReportTasks copies the table.
Tick(g) ==
  /\ hb[g].pc = "wait"
  /\ hb' = [hb EXCEPT ![g] = [NoBeat EXCEPT !.pc = "report",
                                            !.snap = {t \in Tasks : Listed(t)}]]
  /\ UNCHANGED <<jobVars, localsVars, lifecycleVars>>

\* For one task of the copy: its clock and its status, then its output are read,
\* each under the task's lock.  A task that is being killed is left out.
ReportStatus(g) ==
  /\ hb[g].pc = "report"
  /\ \E t \in hb[g].snap :
       hb' = [hb EXCEPT ![g].pc = IF task[t].status = "killing" THEN "report" ELSE "output",
                        ![g].snap = @ \ {t}, ![g].cur = t, ![g].status = task[t].status]
  /\ UNCHANGED <<jobVars, localsVars, lifecycleVars>>

ReportOutput(g) ==
  /\ hb[g].pc = "output"
  /\ hb' = [hb EXCEPT ![g].pc = "report", ![g].cur = NoTask, ![g].status = ""]
  /\ UNCHANGED <<jobVars, localsVars, lifecycleVars>>

\* client.Call("Server.Report"): it may stay there for as long as no server
\* can be reached.
CallBegins(g) ==
  /\ hb[g].pc = "report"
  /\ hb[g].snap = {}
  /\ hb' = [hb EXCEPT ![g].pc = "call", ![g].cur = NoTask]
  /\ UNCHANGED <<jobVars, localsVars, lifecycleVars>>

\* An error, an answer with a message, or an answer after the cancellation.
CallFails(g) ==
  /\ hb[g].pc = "call"
  /\ hb' = [hb EXCEPT ![g] = Waiting]
  /\ UNCHANGED <<jobVars, localsVars, lifecycleVars>>

CallReturns(g) ==
  /\ hb[g].pc = "call"
  /\ g \notin cancelled
  /\ \E answer \in SUBSET Current :
       hb' = [hb EXCEPT ![g] = [NoBeat EXCEPT !.pc = "assign", !.todo = answer]]
  /\ UNCHANGED <<jobVars, localsVars, lifecycleVars>>

\* No goroutine holds a reference to the object.
Unreferenced(t) ==
  /\ ~Listed(t)
  /\ run[t].pc = "idle"
  /\ \A k \in Callers : call[k].task # t
  /\ \A g \in Gens : t # hb[g].cur /\ t \notin hb[g].snap
  /\ t \notin stopAll.tasks /\ \A d \in stopAll.done : d[1] # t

\* One round of the loop over resp.AssignTasks.
Assign(g) ==
  /\ hb[g].pc = "assign"
  /\ call[g].pc = "idle"
  /\ \E at \in hb[g].todo :
       /\ hb' = [hb EXCEPT ![g].todo = @ \ {at}, ![g].assigned = @ \cup {at.id}]
       /\ \/ Ignored(at) /\ UNCHANGED <<jobVars, M>>
          \/ AssignKill(g, at)
          \/ AssignStart(at)
          \/ \E t \in Tasks : Unreferenced(t) /\ AssignNew(t, at)
  /\ UNCHANGED <<accepting, stopAll, lifecycleVars>>

\* task.kill() after the table's lock was released.
AssignKills(g) ==
  /\ RequestLock(g) \/ RequestSend(g)
  /\ UNCHANGED <<localsVars, hb, lifecycleVars>>

CleanUp(g) ==
  /\ hb[g].pc = "assign"
  /\ hb[g].todo = {}
  /\ call[g].pc = "idle"
  /\ Clean(hb[g].assigned)
  /\ hb' = [hb EXCEPT ![g] = Waiting]
  /\ UNCHANGED lifecycleVars

----------------------------------------------------------------------------
(* Start and Stop, called in turn by the main goroutine *)

Start_ ==
  /\ main.pc = "down"
  /\ main.gen < MaxGens
  /\ main' = [pc |-> "up", gen |-> main.gen + 1, timedOut |-> FALSE,
              overlap |-> main.overlap \/ \E g \in Gens : hb[g].pc # "off"]
  /\ accepting' = TRUE
  /\ hb' = [hb EXCEPT ![main.gen + 1] = Waiting]
  /\ stopAll' = NoStop
  /\ UNCHANGED <<jobVars, M, cancelled, server, crashes>>

\* lifecycle.cancel is taken and called.
StopCancels ==
  /\ main.pc = "up"
  /\ main' = [main EXCEPT !.pc = "cancelled"]
  /\ cancelled' = cancelled \cup {main.gen}
  /\ UNCHANGED <<jobVars, localsVars, hb, server, crashes>>

StopLocks ==
  /\ main.pc = "cancelled"
  /\ main' = [main EXCEPT !.pc = "stopAll"]
  /\ StopAllBegin
  /\ UNCHANGED <<hb, cancelled, server, crashes>>

StopRequests ==
  /\ main.pc = "stopAll"
  /\ \/ \E t \in Tasks : StopAllNext(t)
     \/ StopAllLock
     \/ RequestSend(Main) /\ UNCHANGED localsVars
  /\ UNCHANGED <<hb, cancelled, main, server, crashes>>

\* StopAll without a deadline: it waits for the tasks only.
StopTasksNoTimeout ==
  /\ main.pc = "stopAll"
  /\ StopLoopOver
  /\ \A d \in stopAll.done : Closed(d)
  /\ main' = [main EXCEPT !.pc = "down", !.timedOut = TRUE]
  /\ UNCHANGED <<jobVars, localsVars, hb, cancelled, server, crashes>>

\* Every done channel is closed, or the deadline passes; after the deadline no
\* time is left to wait for the goroutine.
StopTasksDone ==
  /\ main.pc = "stopAll"
  /\ StopLoopOver
  /\ \A d \in stopAll.done : Closed(d)
  /\ main' = [main EXCEPT !.pc = "join"]
  /\ UNCHANGED <<jobVars, localsVars, hb, cancelled, server, crashes>>

StopTasksTimeout ==
  /\ main.pc = "stopAll"
  /\ StopLoopOver
  /\ stopAll.done # {}
  /\ main' = [main EXCEPT !.pc = "down", !.timedOut = TRUE]
  /\ UNCHANGED <<jobVars, localsVars, hb, cancelled, server, crashes>>

\* Stop without the wait for the heartbeat goroutine.
StopJoinsAtOnce ==
  /\ main.pc = "join"
  /\ main' = [main EXCEPT !.pc = "down"]
  /\ UNCHANGED <<jobVars, localsVars, hb, cancelled, server, crashes>>

StopJoins ==
  /\ main.pc = "join"
  /\ hb[main.gen].pc = "off"
  /\ main' = [main EXCEPT !.pc = "down"]
  /\ UNCHANGED <<jobVars, localsVars, hb, cancelled, server, crashes>>

StopJoinTimeout ==
  /\ main.pc = "join"
  /\ main' = [main EXCEPT !.pc = "down", !.timedOut = TRUE]
  /\ UNCHANGED <<jobVars, localsVars, hb, cancelled, server, crashes>>

\* The agent ends, by itself or not; only the directory is left.
Crash ==
  /\ crashes < MaxCrashes
  /\ crashes' = crashes + 1
  /\ JobCrash
  /\ M' = [i \in Ids |-> NoTask]
  /\ accepting' = TRUE
  /\ stopAll' = NoStop
  /\ hb' = [g \in Gens |-> NoBeat]
  /\ main' = [main EXCEPT !.pc = "down", !.timedOut = FALSE]
  /\ UNCHANGED <<cancelled, server>>
----------------------------------------------------------------------------
Next ==
  \/ \E t \in Tasks : RunStep(t) /\ UNCHANGED <<localsVars, hb, lifecycleVars>>
  \/ \E i \in Ids : ServerAssigns(i)
  \/ \E g \in Gens :
       \/ Quit(g) \/ Tick(g) \/ ReportStatus(g) \/ ReportOutput(g)
       \/ CallBegins(g) \/ CallFails(g) \/ CallReturns(g)
       \/ Assign(g) \/ AssignKills(g) \/ CleanUp(g)
  \/ Start_ \/ StopCancels \/ StopLocks \/ StopRequests
  \/ StopTasksDone \/ StopTasksTimeout \/ StopJoins \/ StopJoinTimeout
  \/ Crash

Spec == Init /\ [][Next]_vars

\* The main goroutine runs and its timers fire.  The heartbeat goroutines run,
\* and a call of the server returns; a select whose context is cancelled does
\* not choose the timer for ever.  Nothing is assumed of the tasks.
Fairness ==
  /\ WF_vars(StopLocks \/ StopRequests \/ StopTasksDone \/ StopTasksTimeout
             \/ StopJoins \/ StopJoinTimeout)
  /\ \A g \in Gens :
       /\ WF_vars(ReportStatus(g) \/ ReportOutput(g) \/ CallBegins(g) \/ CallFails(g)
                  \/ CallReturns(g) \/ Assign(g) \/ AssignKills(g) \/ CleanUp(g))
       /\ SF_vars(Quit(g))

LiveSpec == Spec /\ Fairness

----------------------------------------------------------------------------
(* Properties *)

BeatRecord ==
  [pc : {"off", "wait", "report", "output", "call", "assign"},
   snap : SUBSET Tasks, cur : Tasks \cup {NoTask}, status : Status,
   todo : SUBSET Assignments, assigned : SUBSET Ids]

\* Every variable of the agent has its type.
TypeOK ==
  /\ JobTypeOK
  /\ M \in [Ids -> Tasks \cup {NoTask}]
  /\ accepting \in BOOLEAN
  /\ stopAll \in [tasks : SUBSET Tasks, done : SUBSET (Tasks \X Nat)]
  /\ hb \in [Gens -> BeatRecord]
  /\ cancelled \subseteq Gens
  /\ main \in [pc : {"down", "up", "cancelled", "stopAll", "join"},
               gen : Gens \cup {0}, timedOut : BOOLEAN, overlap : BOOLEAN]
  /\ server \in [Ids -> [clock : Clocks \cup {0}, action : Action]]
  /\ crashes \in 0..MaxCrashes

\* Every run in progress belongs to the object that the table lists for its
\* id: there are never two runs of an id, and StopAll, which goes by the
\* table, can see every run (Clean keeps what is alive, AssignTask makes an
\* object only for an id that is not listed).
RunsAreListed == \A t \in Tasks : task[t].alive => Listed(t)

\* No run escapes a shutdown: once StopAll has been through its list, and until
\* the next Start, every run that is still alive was asked to terminate or is
\* already completing.  An assignment that was being applied when Stop came
\* either began its run before the snapshot or is refused.
NoRunEscapesStop ==
  ~accepting /\ main.pc \in {"stopAll", "join", "down"} /\ StopLoopOver =>
    \A t \in Tasks : task[t].alive => task[t].asked \/ task[t].completing

\* A Stop that returned before its timeouts leaves nothing behind: no run, no
\* heartbeat goroutine, no half-made kill.
StopLeavesNothing ==
  ~accepting /\ main.pc = "down" /\ ~main.timedOut =>
    /\ \A t \in Tasks : ~task[t].alive
    /\ hb[main.gen].pc = "off"
    /\ \A k \in {Main, main.gen} : call[k].pc = "idle"

\* An assignment whose process was started is not run again, across heartbeats,
\* Clean, reloads and crashes, unless a result of it was lost (the write
\* failed, or the agent died before it): doneBefore and the same-assignment
\* test of AssignTask together provide this.  It takes a single heartbeat: a
\* generation that a timed-out Stop left behind may apply an old answer after
\* the next one has moved the task on.
NoSecondRun ==
  \A t \in Tasks :
    LET d == disk[IdOf(t)] IN
    run[t].pc = "begun" /\ run[t].clock \in d.ran /\ ~main.overlap =>
      run[t].clock \in d.lost

\* A result that AssignTask loads from disk comes with its own output: the
\* output files, of which there is one pair per id, were last written by the
\* run with the loaded clock, unless that write failed.  finalize flushes the
\* output before it writes <clock>.done, so a crash between the two leaves no
\* result with the output of an older run.
LoadedOutputIsOwn ==
  \A t \in Tasks :
    LET d == disk[IdOf(t)] IN
    /\ Listed(t) /\ task[t].epoch = 0 /\ task[t].action = "start"
    /\ task[t].status \in Final /\ ~main.overlap
    => d.out.clock = task[t].clock \/ task[t].clock \in d.unflushed

\* A report with a final status carries all the output of the run: when the
\* output is read after such a status, the pipes are drained and no output can
\* follow (ReportTasks reads the status first; finalize sets it after
\* cmd.Wait).  With two generations of the heartbeat at work, the other one may
\* begin the next run between the two reads.
FinalReportIsComplete ==
  \A g \in Gens :
    hb[g].pc = "output" /\ hb[g].status \in Final /\ ~main.overlap =>
      run[hb[g].cur].pc \notin {"begun", "running", "completing"}

\* Stop returns whatever the tasks and the server do: every wait of StopAll and
\* of Stop itself has a deadline, and the requests it sends do not block.
StopReturns == main.pc = "cancelled" ~> main.pc = "down"

\* A heartbeat goroutine whose context is cancelled ends, even if Stop gave up
\* waiting for it and the next generation was started beside it, as long as
\* calls of the server return.
CancelledBeatEnds == \A g \in Gens : g \in cancelled ~> hb[g].pc = "off"

----------------------------------------------------------------------------
(* What makes the invariants inductive *)

\* The table is keyed by id, and an alive object has had a run, whose status it
\* shows as long as the run is not decided.
TableIsKeyed == \A i \in Ids : M[i] # NoTask => IdOf(M[i]) = i
AliveHasRun == \A t \in Tasks : task[t].alive => task[t].epoch > 0
StatusShowsRun ==
  \A t \in Tasks : run[t].pc \in Unfinished => task[t].status \in {"running", "killing"}

\* Where the goroutines are: kill() is called while assignments are applied,
\* stop() in StopAll; only a heartbeat that applies them has assignments left.
BeatsAreKnown ==
  /\ \A g \in Gens :
       /\ call[g].pc # "idle" => hb[g].pc = "assign"
       /\ hb[g].pc # "assign" => hb[g].todo = {}
       /\ hb[g].pc = "output" => hb[g].cur \in Tasks
       /\ hb[g].pc # "off" => g <= main.gen
  /\ call[Main].pc # "idle" => main.pc = "stopAll"
  /\ main.pc # "down" \/ ~accepting => main.gen \in Gens

\* Two heartbeats at once are an overlap.
OneBeat ==
  ~main.overlap => \A g, h \in Gens : hb[g].pc # "off" /\ hb[h].pc # "off" => g = h

\* While the agent does not accept, StopAll has every run on its list, is about
\* to ask it, or has asked it and waits for its channel.
StopCovers ==
  /\ main.pc \in {"stopAll", "join"} => ~accepting
  /\ ~accepting => \A t \in Tasks : task[t].alive =>
       \/ t \in stopAll.tasks
       \/ call[Main].pc = "lock" /\ call[Main].task = t
       \/ <<t, task[t].epoch>> \in stopAll.done /\ (task[t].asked \/ task[t].completing)

\* After the wait of StopAll no run is left, after the join no heartbeat.
StopHasEnded ==
  ~accepting /\ main.pc \in {"join", "down"} /\ ~main.timedOut =>
    /\ \A t \in Tasks : ~task[t].alive
    /\ main.pc = "down" => hb[main.gen].pc = "off"

\* The clocks of all that was done for id i: on disk, or running.
PastClocks(i) ==
  UNION {disk[i].ran, {c \in Clocks : disk[i].done[c] # "none"}, {disk[i].out.clock},
         {run[t].clock : t \in {u \in Tasks : IdOf(u) = i /\ task[u].alive}}}

PastIsUpTo(i, c) == \A d \in PastClocks(i) : d <= c

\* The object listed for id i has a clock of at most c, and with clock c it has
\* action a.
ListedIsUpTo(i, c, a) ==
  M[i] # NoTask =>
    /\ task[M[i]].clock <= c
    /\ task[M[i]].clock = c => task[M[i]].action = a

\* The server's clocks are ahead of all that the agent has done, and the
\* assignments still to be applied are the server's, or older ones.
ServerIsAhead ==
  /\ \A i \in Ids :
       /\ PastIsUpTo(i, server[i].clock)
       /\ ListedIsUpTo(i, server[i].clock, server[i].action)
  /\ \A g \in Gens : \A at \in hb[g].todo :
       /\ at.clock <= server[at.id].clock
       /\ at.clock = server[at.id].clock => at.action = server[at.id].action
       /\ \A other \in hb[g].todo : other.id = at.id => other = at

\* With one heartbeat at a time, assignments are applied in the order of their
\* clocks: one that is still to be applied is ahead of what has been done, and
\* so is the last one applied to a listed object, and a run of older results.
AppliedInOrder ==
  ~main.overlap =>
    /\ \A g \in Gens : \A at \in hb[g].todo :
         PastIsUpTo(at.id, at.clock) /\ ListedIsUpTo(at.id, at.clock, at.action)
    /\ \A i \in Ids : M[i] # NoTask => PastIsUpTo(i, task[M[i]].clock)
    /\ \A t \in Tasks : task[t].alive =>
         \A d \in Clocks : disk[IdOf(t)].done[d] # "none" => d <= run[t].clock

\* A clock for which a process was started has a result, or lost it, or runs.
RanIsRecorded ==
  \A i \in Ids : \A c \in disk[i].ran :
    \/ disk[i].done[c] # "none"
    \/ c \in disk[i].lost
    \/ \E t \in Tasks : /\ IdOf(t) = i /\ run[t].clock = c
                        /\ run[t].pc \notin {"idle", "close"}

\* A run that is about to write its result has flushed its own output; so the
\* output files are never older than a result, unless flushing failed.
OutputIsFlushed ==
  /\ \A t \in Tasks : run[t].pc \in {"persist", "record"} =>
       \/ disk[IdOf(t)].out.clock = run[t].clock
       \/ run[t].clock \in disk[IdOf(t)].unflushed
  /\ ~main.overlap => \A i \in Ids : \A c \in Clocks :
       disk[i].done[c] # "none" => disk[i].out.clock >= c \/ c \in disk[i].unflushed

TableInv == TypeOK /\ JobInv /\ TableIsKeyed /\ AliveHasRun /\ StatusShowsRun /\ RunsAreListed
StopInv == BeatsAreKnown /\ StopCovers /\ StopHasEnded
ReportInv == OneBeat /\ FinalReportIsComplete
OrderInv == ServerIsAhead /\ AppliedInOrder /\ RanIsRecorded /\ OutputIsFlushed
            /\ NoSecondRun /\ LoadedOutputIsOwn
HeartbeatInv == TableInv /\ StopInv /\ ReportInv /\ OrderInv
============================================================================
