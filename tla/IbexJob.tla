------------------------------- MODULE IbexJob -------------------------------
(***************************************************************************)
(* The life of a remote task of the ibex agent, as the rest of the agent   *)
(* sees it: ibex/task.go without the inside of a run.                      *)
(*                                                                         *)
(* A Task object is run at most once at a time by a goroutine in run().    *)
(* A run begins (beginRun), its process is started or it fails, it is      *)
(* asked to terminate or not, it completes, and finalize writes its result *)
(* to disk before it gives up the object.  How a run gets from one of      *)
(* these points to the next is in module IbexTask, which implements this   *)
(* one.  Other goroutines ask for the termination of a run with kill() or  *)
(* stop(); they read the run's channels under the task's lock and send     *)
(* after they released it.                                                 *)
(*                                                                         *)
(* An object is a pair <<id, slot>>: the agent may drop the object of an   *)
(* id and make another one, and the old one may still be referenced.       *)
(* The channels made by beginRun are identified by the number of the run   *)
(* (epoch) that made them.                                                 *)
(***************************************************************************)
EXTENDS Naturals

CONSTANTS
  Ids,          \* ids the server gives to tasks
  Slots,        \* distinguishes Task objects of the same id
  Clocks,       \* clocks the server stamps assignments with
  Callers,      \* goroutines that may call kill() or stop()
  NoTask,       \* not a Task object
  DiskMayFail,  \* whether writing output and results may fail
  MaxRuns,      \* bound: runs of one Task object
  MaxOutput     \* bound: chunks of output of one Task object

ASSUME JobAssumption ==
  /\ Clocks \subseteq Nat
  /\ DiskMayFail \in BOOLEAN
  /\ MaxRuns \in Nat
  /\ MaxOutput \in Nat
  /\ NoTask \notin Ids \X Slots

Tasks == Ids \X Slots
IdOf(t) == t[1]

VARIABLES
  task,   \* the Task objects: fields of the struct, guarded by its mutex
  run,    \* the goroutine in run()
  call,   \* callers inside requestTermination
  disk    \* results in <metadir>/<id>/, which survive the agent

jobVars == <<task, run, call, disk>>

----------------------------------------------------------------------------
Final == {"success", "failed", "killed"}
Status == Final \cup {"", "running", "killing"}
Action == {"start", "kill"}

\* A Task as AssignTask makes it.  requests says whether the current run's
\* channel (capacity 1) holds a request.  asked is a history field: a caller
\* has taken the current run's channel.
newTask(c, a) ==
  [clock |-> c, action |-> a, status |-> "", alive |-> FALSE, epoch |-> 0,
   completing |-> FALSE, requests |-> FALSE, stdout |-> 0, asked |-> FALSE]

NoRun == [pc |-> "idle", clock |-> 0, status |-> "failed"]
NoCall == [pc |-> "idle", task |-> NoTask, epoch |-> 0]

\* done: the content of <clock>.done ("none" if there is no such file, "empty"
\* if it was created and not written); out: the run that last wrote the output
\* files and how much.  ran, lost and unflushed are history fields: the clocks
\* a process was started for, those of which a run ended without a result on
\* disk, and those of which the output could not be written.
EmptyDir == [done |-> [c \in Clocks |-> "none"], out |-> [clock |-> 0, len |-> 0],
             ran |-> {}, lost |-> {}, unflushed |-> {}]

JobInit ==
  /\ task = [t \in Tasks |-> newTask(0, "start")]
  /\ run = [t \in Tasks |-> NoRun]
  /\ call = [k \in Callers |-> NoCall]
  /\ disk = [i \in Ids |-> EmptyDir]

----------------------------------------------------------------------------
(* Operations of the struct, as functions of its fields *)

SetAssignment(r, c, a) == [r EXCEPT !.clock = c, !.action = a]

\* beginRun as it would be if it kept the request channel of the last run.
beginRunKeepsChannel(r) ==
  [r EXCEPT !.alive = TRUE, !.status = "running", !.epoch = @ + 1,
            !.completing = FALSE, !.asked = FALSE]

\* beginRun of a task that is not alive: new done and request channels.
beginRun(r) ==
  [r EXCEPT !.alive = TRUE, !.status = "running", !.epoch = @ + 1,
            !.completing = FALSE, !.requests = FALSE, !.asked = FALSE]

\* The goroutine launched with the clock that beginRun returned.
Launched(c) == [NoRun EXCEPT !.pc = "begun", !.clock = c]

Goto(t, pc) == run' = [run EXCEPT ![t].pc = pc]

----------------------------------------------------------------------------
(* run() *)

\* prepare, newCommand or startCommand returned an error: the deferred
\* finalize(clock, "failed") follows.
Fail(t) ==
  /\ run[t].pc = "begun"
  /\ Goto(t, "finalize")
  /\ UNCHANGED <<task, call, disk>>

StartProcess(t) ==
  /\ run[t].pc = "begun"
  /\ Goto(t, "running")
  /\ disk' = [disk EXCEPT ![IdOf(t)].ran = @ \cup {run[t].clock}]
  /\ UNCHANGED <<task, call>>

\* taskOutputWriter.Write, while cmd.Wait copies the output.
Write(t) ==
  /\ run[t].pc = "running"
  /\ task[t].stdout < MaxOutput
  /\ task' = [task EXCEPT ![t].stdout = @ + 1]
  /\ UNCHANGED <<run, call, disk>>

\* A request that sets the final status before the process is gone.
SetKilled(t) ==
  /\ task[t].requests
  /\ task' = [task EXCEPT ![t] = [@ EXCEPT !.requests = FALSE, !.status = "killed"]]
  /\ UNCHANGED <<run, call, disk>>

\* handleTermination takes a request.
SetKilling(t) ==
  /\ task[t].requests
  /\ task' = [task EXCEPT ![t] = [@ EXCEPT !.requests = FALSE, !.status = "killing"]]
  /\ UNCHANGED <<run, call, disk>>

\* Its select may do so even when the run is already completing, but not later.
TakeRequest(t) ==
  /\ run[t].pc \in {"running", "completing"}
  /\ SetKilling(t)

\* cmd.Wait has returned: requests are refused from now on.
Complete(t) ==
  /\ run[t].pc = "running"
  /\ task' = [task EXCEPT ![t].completing = TRUE]
  /\ Goto(t, "completing")
  /\ UNCHANGED <<call, disk>>

\* The status of the run is known ...
Decided(t, s) ==
  /\ run[t].pc = "completing"
  /\ run' = [run EXCEPT ![t] = [@ EXCEPT !.pc = "finalize", !.status = s]]
  /\ UNCHANGED <<task, call, disk>>

\* ... and is "killed" only if somebody asked for it.
Decide(t, s) ==
  /\ s = "killed" => task[t].asked
  /\ Decided(t, s)

----------------------------------------------------------------------------
(* finalize: status, output files, result file, then alive and done *)

\* finalize that gives the task up before its result is on disk.
SetFinalStatusGivesUp(t) ==
  /\ run[t].pc = "finalize"
  /\ task' = [task EXCEPT ![t].status = run[t].status, ![t].alive = FALSE]
  /\ Goto(t, "flush")
  /\ UNCHANGED <<call, disk>>

SetFinalStatus(t) ==
  /\ run[t].pc = "finalize"
  /\ task' = [task EXCEPT ![t].status = run[t].status]
  /\ Goto(t, "flush")
  /\ UNCHANGED <<call, disk>>

\* finalize that does not write the output files.
flushOutputForgotten(t) ==
  /\ run[t].pc = "flush"
  /\ Goto(t, "persist")
  /\ UNCHANGED <<task, call, disk>>

\* Both output files; an error is logged only.
flushOutput(t) ==
  /\ run[t].pc = "flush"
  /\ \/ disk' = [disk EXCEPT ![IdOf(t)].out =
                   [clock |-> run[t].clock, len |-> task[t].stdout]]
     \/ /\ DiskMayFail
        /\ disk' = [disk EXCEPT ![IdOf(t)].unflushed = @ \cup {run[t].clock}]
  /\ Goto(t, "persist")
  /\ UNCHANGED <<task, call>>

\* persistResult: the file is created and then written; an error is logged only.
persistCreate(t) ==
  /\ run[t].pc = "persist"
  /\ \/ /\ disk' = [disk EXCEPT ![IdOf(t)].done[run[t].clock] = "empty"]
        /\ Goto(t, "record")
     \/ /\ DiskMayFail
        /\ disk' = [disk EXCEPT ![IdOf(t)].lost = @ \cup {run[t].clock}]
        /\ Goto(t, "close")
  /\ UNCHANGED <<task, call>>

persistWrite(t) ==
  /\ run[t].pc = "record"
  /\ \/ disk' = [disk EXCEPT ![IdOf(t)].done[run[t].clock] = run[t].status]
     \/ /\ DiskMayFail
        /\ disk' = [disk EXCEPT ![IdOf(t)].lost = @ \cup {run[t].clock}]
  /\ Goto(t, "close")
  /\ UNCHANGED <<task, call>>

CloseDone(t) ==
  /\ run[t].pc = "close"
  /\ task' = [task EXCEPT ![t].alive = FALSE]
  /\ Goto(t, "idle")
  /\ UNCHANGED <<call, disk>>

finalize(t) == \/ SetFinalStatus(t) \/ flushOutput(t) \/ persistCreate(t)
               \/ persistWrite(t) \/ CloseDone(t)

----------------------------------------------------------------------------
(* requestTermination, called by kill() and stop() *)

\* A caller that is not yet inside calls kill() or stop() on object t.
Calling(k, t) == [call EXCEPT ![k] = [NoCall EXCEPT !.pc = "lock", !.task = t]]

\* The part under the lock: an inactive or completing run is left alone,
\* otherwise the run's request channel is taken.
RequestLock(k) ==
  LET t == call[k].task IN
  /\ call[k].pc = "lock"
  /\ IF task[t].alive /\ ~task[t].completing
     THEN /\ call' = [call EXCEPT ![k] = [@ EXCEPT !.pc = "send", !.epoch = task[t].epoch]]
          /\ task' = [task EXCEPT ![t].asked = TRUE]
     ELSE /\ call' = [call EXCEPT ![k] = NoCall]
          /\ UNCHANGED task
  /\ UNCHANGED <<run, disk>>

\* The send as it would be on the task's current channel, read again.
SameChannelReread(k) == TRUE
\* The captured channel is the one the task has now.
SameChannel(k) == task[call[k].task].epoch = call[k].epoch

\* The non-blocking send on the captured channel: dropped if it is full, and
\* lost with the channel if the task has made another one since.
RequestSend(k) ==
  /\ call[k].pc = "send"
  /\ task' = [task EXCEPT ![call[k].task].requests = @ \/ SameChannel(k)]
  /\ call' = [call EXCEPT ![k] = NoCall]
  /\ UNCHANGED <<run, disk>>

----------------------------------------------------------------------------
(* The jobs by themselves: an environment that starts them, assigns a kill   *)
(* to them and stops them at any moment.  As LocalTasksT does, it runs no    *)
(* two objects of an id at once.                                             *)

Start(t, c) ==
  /\ \A u \in Tasks : IdOf(u) = IdOf(t) => ~task[u].alive
  /\ task[t].epoch < MaxRuns
  /\ task' = [task EXCEPT ![t] = beginRun(SetAssignment(@, c, "start"))]
  /\ run' = [run EXCEPT ![t] = Launched(c)]
  /\ UNCHANGED <<call, disk>>

Kill(k, t, c) ==
  /\ call[k].pc = "idle"
  /\ task' = [task EXCEPT ![t] = SetAssignment(@, c, "kill")]
  /\ call' = Calling(k, t)
  /\ UNCHANGED <<run, disk>>

Stop(k, t) ==
  /\ call[k].pc = "idle"
  /\ call' = Calling(k, t)
  /\ UNCHANGED <<task, run, disk>>

\* The agent ends, by itself or not; only the directory is left.  Runs that had
\* not written their result yet lose it.
JobCrash ==
  /\ task' = [t \in Tasks |-> newTask(0, "start")]
  /\ run' = [t \in Tasks |-> NoRun]
  /\ call' = [k \in Callers |-> NoCall]
  /\ disk' = [i \in Ids |-> [disk[i] EXCEPT !.lost = @ \cup
       {run[t].clock : t \in {u \in Tasks : IdOf(u) = i /\ run[u].pc \notin {"idle", "close"}}}]]

Environment ==
  \/ \E k \in Callers, t \in Tasks, c \in Clocks : Kill(k, t, c)
  \/ \E k \in Callers, t \in Tasks : Stop(k, t)
  \/ \E k \in Callers : RequestLock(k) \/ RequestSend(k)

\* Every step of the run of task t.
RunStep(t) ==
  \/ Fail(t) \/ StartProcess(t) \/ Write(t) \/ TakeRequest(t) \/ Complete(t)
  \/ (\E s \in Final : Decide(t, s))
  \/ finalize(t)

JobNext ==
  \/ \E t \in Tasks : RunStep(t)
  \/ \E t \in Tasks, c \in Clocks : Start(t, c)
  \/ Environment
  \/ JobCrash

JobSpec == JobInit /\ [][JobNext]_jobVars

----------------------------------------------------------------------------
(* Properties *)

TaskRecord ==
  [clock : Clocks \cup {0}, action : Action, status : Status, alive : BOOLEAN,
   epoch : Nat, completing : BOOLEAN, requests : BOOLEAN, stdout : Nat, asked : BOOLEAN]
RunRecord ==
  [pc : {"idle", "begun", "running", "completing", "finalize", "flush", "persist",
         "record", "close"},
   clock : Clocks \cup {0}, status : Final]
CallRecord ==
  [pc : {"idle", "lock", "send"}, task : Tasks \cup {NoTask}, epoch : Nat]
DirRecord ==
  [done : [Clocks -> Final \cup {"none", "empty"}],
   out : [clock : Clocks \cup {0}, len : Nat], ran : SUBSET Clocks,
   lost : SUBSET Clocks, unflushed : SUBSET Clocks]

\* Every field of the Task, run, caller and directory state has its type.
JobTypeOK ==
  /\ task \in [Tasks -> TaskRecord]
  /\ run \in [Tasks -> RunRecord]
  /\ call \in [Callers -> CallRecord]
  /\ disk \in [Ids -> DirRecord]

\* "killing" and "killed" are shown for a run only if kill() or stop() was
\* called on that very run: a request that was captured for an earlier run of
\* the object and sent late never reaches a later one (requestTermination
\* sends on the channel it captured, beginRun makes a new one).
OnlyAskedRunsAreKilled ==
  \A t \in Tasks :
    task[t].alive /\ task[t].status \in {"killing", "killed"} => task[t].asked

\* When the done channel of a run is closed, its result is on disk, unless
\* writing it failed (finalize persists before it clears alive): a shutdown
\* that waited for the channel loses no result.
DoneMeansPersisted ==
  \A t \in Tasks :
    task[t].epoch > 0 /\ (\A u \in Tasks : IdOf(u) = IdOf(t) => ~task[u].alive) =>
      \/ disk[IdOf(t)].done[run[t].clock] \in Final
      \/ run[t].clock \in disk[IdOf(t)].lost

----------------------------------------------------------------------------
(* What makes them inductive *)

Unfinished == {"begun", "running", "completing"}
Finishing == {"finalize", "flush", "persist", "record", "close"}

\* The flag alive says exactly that a goroutine is in run().
AliveIsRunning == \A t \in Tasks : task[t].alive <=> run[t].pc # "idle"

\* A run carries a clock of the server, and is a failure until it is decided.
RunHasClock ==
  \A t \in Tasks :
    /\ run[t].pc # "idle" \/ task[t].epoch > 0 => run[t].clock \in Clocks
    /\ run[t].pc \in Unfinished => run[t].status = "failed"

\* A request in the channel, and a killed status on its way, were asked for.
RequestIsAsked ==
  \A t \in Tasks :
    /\ task[t].requests => task[t].asked
    /\ run[t].pc \in Finishing /\ run[t].status = "killed" => task[t].asked

\* A caller holds a channel of this run, which is then asked for, or an old one.
CallIsKnown ==
  \A k \in Callers :
    /\ call[k].pc # "idle" => call[k].task \in Tasks
    /\ call[k].pc = "send" =>
         /\ call[k].epoch <= task[call[k].task].epoch
         /\ call[k].epoch = task[call[k].task].epoch => task[call[k].task].asked

\* The result of a run that is over is on disk, was lost, or is being written
\* again by a run of the same id and clock.
ResultKept ==
  \A t \in Tasks :
    task[t].epoch > 0 /\ run[t].pc \in {"close", "idle"} =>
      \/ disk[IdOf(t)].done[run[t].clock] \in Final
      \/ run[t].clock \in disk[IdOf(t)].lost
      \/ \E u \in Tasks : /\ IdOf(u) = IdOf(t) /\ run[u].clock = run[t].clock
                          /\ run[u].pc = "record"

JobInv ==
  /\ JobTypeOK /\ RunHasClock /\ AliveIsRunning /\ RequestIsAsked /\ CallIsKnown
  /\ OnlyAskedRunsAreKilled /\ ResultKept
============================================================================
