------------------------------ MODULE IbexTask ------------------------------
(***************************************************************************)
(* The inside of a run of an ibex task: ibex/task.go in full.              *)
(*                                                                         *)
(* run() prepares the script directory (prepare), builds and starts the    *)
(* process (newCommand, startCommand), starts a second goroutine           *)
(* (handleTermination) that serves termination requests with a signal to   *)
(* the process group, waits for the process, joins the second goroutine,   *)
(* kills what is left of the group and decides the status.                 *)
(*                                                                         *)
(* The state of module IbexJob is kept and more is added to it: an         *)
(* action here does what an action of IbexJob does, under the conditions   *)
(* of the code, or leaves the state of IbexJob alone.                      *)
(***************************************************************************)
EXTENDS IbexJob

CONSTANTS SignalsMayFail  \* whether kill(2) may fail although the group exists

ASSUME SignalAssumption == SignalsMayFail \in BOOLEAN

VARIABLES
  prep,     \* prepare: where it is, and Task.Account != ""
  files,    \* the other files of <metadir>/<id>/
  proc,     \* the operating-system process (group) of the current run
  handler   \* the handleTermination goroutine of the current run

innerVars == <<prep, files, proc, handler>>
taskVars == <<jobVars, innerVars>>

\* The files prepare() writes, in the order it writes them.
MetaFile == <<"script", "args", "account", "stdin", ".write">>
MetaFiles == {"script", "args", "account", "stdin", ".write"}

NoPrep == [pc |-> "done", next |-> 1, prepared |-> FALSE]
NoProc == [state |-> "none", exit |-> "zero", group |-> FALSE]
NoHandler == [pc |-> "none", signaled |-> FALSE, failed |-> FALSE]

TaskInit ==
  /\ JobInit
  /\ prep = [t \in Tasks |-> NoPrep]
  /\ files = [i \in Ids |-> {}]
  /\ proc = [t \in Tasks |-> NoProc]
  /\ handler = [t \in Tasks |-> NoHandler]

----------------------------------------------------------------------------
(* prepare() *)

Preparing(t, pc) == run[t].pc = "begun" /\ prep[t].pc = pc
PrepGoto(t, pc) == prep' = [prep EXCEPT ![t].pc = pc]

\* Task.Account is set: this object was prepared by an earlier run.
PrepareAgain(t) ==
  /\ Preparing(t, "begin")
  /\ prep[t].prepared
  /\ PrepGoto(t, "done")
  /\ UNCHANGED <<jobVars, files, proc, handler>>

\* The .write flag exists: the files are read.
PrepareLocal(t) ==
  /\ Preparing(t, "begin")
  /\ ~prep[t].prepared
  /\ ".write" \in files[IdOf(t)]
  /\ prep' = [prep EXCEPT ![t].pc = "done", ![t].prepared = TRUE]
  /\ UNCHANGED <<jobVars, files, proc, handler>>

\* It does not: the server is asked (client.Meta), and answers.
PrepareRemote(t) ==
  /\ Preparing(t, "begin")
  /\ ~prep[t].prepared
  /\ ".write" \notin files[IdOf(t)]
  /\ PrepGoto(t, "fetch")
  /\ UNCHANGED <<jobVars, files, proc, handler>>

MetaReturns(t) ==
  /\ Preparing(t, "fetch")
  /\ prep' = [prep EXCEPT ![t].pc = "write", ![t].next = 1]
  /\ UNCHANGED <<jobVars, files, proc, handler>>

\* The files are written with the flag first.
FileToWriteFlagFirst(n) == MetaFile[IF n = 1 THEN 5 ELSE n - 1]
\* The n-th file that prepare writes.
FileToWrite(n) == MetaFile[n]

\* One file.WriteString of prepare(); .write is the last one.  Fields of the
\* task are set only after all writes.
WriteMetaFile(t) ==
  /\ Preparing(t, "write")
  /\ files' = [files EXCEPT ![IdOf(t)] = @ \cup {FileToWrite(prep[t].next)}]
  /\ prep' = IF prep[t].next < 5
             THEN [prep EXCEPT ![t].next = @ + 1]
             ELSE [prep EXCEPT ![t].pc = "done", ![t].prepared = TRUE]
  /\ UNCHANGED <<jobVars, proc, handler>>

\* An error of prepare (the directory, a read, client.Meta, a write), of
\* newCommand or of startCommand ends the run.  A prepared object cannot fail
\* before newCommand.
RunFails(t) ==
  /\ prep[t].pc = "begin" => ~prep[t].prepared
  /\ Fail(t)
  /\ PrepGoto(t, "done")
  /\ UNCHANGED <<files, proc, handler>>

----------------------------------------------------------------------------
(* The process *)

\* newCommand and startCommand succeed; handleTermination is started.
StartCommand(t) ==
  /\ Preparing(t, "done")
  /\ StartProcess(t)
  /\ proc' = [proc EXCEPT ![t] = [NoProc EXCEPT !.state = "running"]]
  /\ handler' = [handler EXCEPT ![t] = [NoHandler EXCEPT !.pc = "select"]]
  /\ UNCHANGED <<prep, files>>

\* The process or one of its descendants writes to the pipes, which cmd.Wait
\* copies into the buffer until it returns.
ProcessWrites(t) ==
  /\ proc[t].state # "waited"
  /\ proc[t].state = "running" \/ proc[t].group
  /\ Write(t)
  /\ UNCHANGED innerVars

\* The process leaves a descendant in its session, or the last one is gone.
Fork(t) ==
  /\ proc[t].state = "running"
  /\ ~proc[t].group
  /\ proc' = [proc EXCEPT ![t].group = TRUE]
  /\ UNCHANGED <<jobVars, prep, files, handler>>

DescendantsExit(t) ==
  /\ proc[t].group
  /\ proc' = [proc EXCEPT ![t].group = FALSE]
  /\ UNCHANGED <<jobVars, prep, files, handler>>

\* The process ends by itself, or somebody else kills it.
Exit(t) ==
  /\ proc[t].state = "running"
  /\ \E e \in {"zero", "nonzero", "signal"} :
       proc' = [proc EXCEPT ![t].state = "zombie", ![t].exit = e]
  /\ UNCHANGED <<jobVars, prep, files, handler>>

\* cmd.Wait collects the main process; it returns when the pipes are closed or
\* WaitDelay has elapsed, whether or not descendants are left.
Reap(t) ==
  /\ proc[t].state = "zombie"
  /\ proc' = [proc EXCEPT ![t].state = "reaped"]
  /\ UNCHANGED <<jobVars, prep, files, handler>>

WaitReturns(t) ==
  /\ proc[t].state = "reaped"
  /\ proc' = [proc EXCEPT ![t].state = "waited"]
  /\ UNCHANGED <<jobVars, prep, files, handler>>

\* CmdKill sends SIGKILL to the group: it fails if nobody is left in it.
GroupExists(t) == proc[t].state \in {"running", "zombie"} \/ proc[t].group
Killed(p) == IF p.state = "running"
             THEN [state |-> "zombie", exit |-> "signal", group |-> FALSE]
             ELSE [p EXCEPT !.group = FALSE]

----------------------------------------------------------------------------
(* handleTermination *)

HandlerGoto(t, pc) == handler' = [handler EXCEPT ![t].pc = pc]

\* select: the run is over, or a request is taken.
HandlerStop(t) ==
  /\ handler[t].pc = "select"
  /\ task[t].completing
  /\ HandlerGoto(t, "finished")
  /\ UNCHANGED <<jobVars, prep, files, proc>>

HandlerTakes(t) ==
  /\ handler[t].pc = "select"
  /\ SetKilling(t)
  /\ HandlerGoto(t, "signal")
  /\ UNCHANGED <<prep, files, proc>>

\* killCommand fails if the group is gone (or for another reason, EPERM), and
\* the goroutine waits for another request.
HandlerSignals(t) ==
  /\ handler[t].pc = "signal"
  /\ GroupExists(t)
  /\ proc' = [proc EXCEPT ![t] = Killed(@)]
  /\ handler' = [handler EXCEPT ![t].pc = "finished", ![t].signaled = TRUE]
  /\ UNCHANGED <<jobVars, prep, files>>

\* The goroutine gives up after a signal that failed, without waiting again.
HandlerFailsForGood(t) ==
  /\ handler[t].pc = "signal"
  /\ SignalsMayFail \/ ~GroupExists(t)
  /\ handler' = [handler EXCEPT ![t].pc = "gone"]
  /\ UNCHANGED <<jobVars, prep, files, proc>>

HandlerFails(t) ==
  /\ handler[t].pc = "signal"
  /\ SignalsMayFail \/ ~GroupExists(t)
  /\ handler' = [handler EXCEPT ![t].pc = "select", ![t].failed = @ \/ GroupExists(t)]
  /\ UNCHANGED <<jobVars, prep, files, proc>>

----------------------------------------------------------------------------
(* The end of run() *)

\* The end of the wait without setting completing.
RunCompletesSilently(t) ==
  /\ proc[t].state = "waited"
  /\ run[t].pc = "running"
  /\ Goto(t, "completing")
  /\ UNCHANGED <<task, call, disk, innerVars>>

\* completing is set and stopTermination closed.
RunCompletes(t) ==
  /\ proc[t].state = "waited"
  /\ Complete(t)
  /\ UNCHANGED innerVars

\* statusFor as it would be without the look at the wait status.
statusForRequestWins(exit, signaled) ==
  IF exit = "zero" THEN "success" ELSE IF signaled THEN "killed" ELSE "failed"
statusFor(exit, signaled) ==
  IF exit = "zero" THEN "success"
  ELSE IF signaled /\ exit = "signal" THEN "killed" ELSE "failed"

\* The handler's result arrives, the rest of the group is killed, and the
\* status is computed from the wait error and the handler's result.
Join(t) ==
  /\ handler[t].pc = "finished"
  /\ Decided(t, statusFor(proc[t].exit, handler[t].signaled))
  /\ \/ proc' = [proc EXCEPT ![t].group = FALSE]
     \/ SignalsMayFail /\ UNCHANGED proc
  /\ UNCHANGED <<prep, files, handler>>

----------------------------------------------------------------------------
(* The task by itself, in the environment of IbexJob *)

StartTask(t, c) ==
  /\ Start(t, c)
  /\ PrepGoto(t, "begin")
  /\ proc' = [proc EXCEPT ![t] = NoProc]
  /\ handler' = [handler EXCEPT ![t] = NoHandler]
  /\ UNCHANGED files

\* The agent ends; its children are no longer its own.
TaskCrash ==
  /\ JobCrash
  /\ prep' = [t \in Tasks |-> NoPrep]
  /\ proc' = [t \in Tasks |-> NoProc]
  /\ handler' = [t \in Tasks |-> NoHandler]
  /\ UNCHANGED files

Prepare(t) == PrepareAgain(t) \/ PrepareLocal(t) \/ PrepareRemote(t)
              \/ MetaReturns(t) \/ WriteMetaFile(t) \/ RunFails(t)
Process(t) == ProcessWrites(t) \/ Fork(t) \/ DescendantsExit(t) \/ Exit(t)
Wait(t) == StartCommand(t) \/ Reap(t) \/ WaitReturns(t) \/ RunCompletes(t) \/ Join(t)
handleTermination(t) == HandlerStop(t) \/ HandlerTakes(t) \/ HandlerSignals(t) \/ HandlerFails(t)

\* Every step of the goroutines and the process of task t.
TaskStep(t) ==
  \/ Prepare(t) \/ Process(t) \/ Wait(t) \/ handleTermination(t)
  \/ finalize(t) /\ UNCHANGED innerVars

TaskNext ==
  \/ \E t \in Tasks : TaskStep(t)
  \/ \E t \in Tasks, c \in Clocks : StartTask(t, c)
  \/ Environment /\ UNCHANGED innerVars
  \/ TaskCrash

TaskSpec == TaskInit /\ [][TaskNext]_taskVars

\* Goroutines that can run do run, and the server answers client.Meta.
\* Nothing makes the process of a task end.
TaskFairness ==
  /\ \A t \in Tasks :
       /\ WF_taskVars(Prepare(t) \/ Wait(t) \/ (finalize(t) /\ UNCHANGED innerVars))
       /\ WF_taskVars(handleTermination(t))
  /\ \A k \in Callers : WF_taskVars((RequestLock(k) \/ RequestSend(k)) /\ UNCHANGED innerVars)

TaskLiveSpec == TaskSpec /\ TaskFairness

----------------------------------------------------------------------------
(* Properties *)

PrepRecord ==
  [pc : {"begin", "fetch", "write", "done"}, next : 1..5, prepared : BOOLEAN]
ProcRecord ==
  [state : {"none", "running", "zombie", "reaped", "waited"},
   exit : {"zero", "nonzero", "signal"}, group : BOOLEAN]
HandlerRecord ==
  [pc : {"none", "select", "signal", "finished"}, signaled : BOOLEAN, failed : BOOLEAN]

\* Every field of the task, run, process and directory state has its type.
TaskTypeOK ==
  /\ JobTypeOK
  /\ prep \in [Tasks -> PrepRecord]
  /\ files \in [Ids -> SUBSET MetaFiles]
  /\ proc \in [Tasks -> ProcRecord]
  /\ handler \in [Tasks -> HandlerRecord]

\* A request never overrides the way the process really ended: when run() has
\* decided a status, it is "success" exactly if the process exited with zero,
\* and "killed" only if the process died of a signal and the handler had sent
\* one on request (statusFor).
NaturalCompletionKept ==
  \A t \in Tasks :
    run[t].pc \in {"finalize", "flush", "persist", "record", "close"}
      /\ handler[t].pc # "none" =>
        /\ run[t].status = "success" <=> proc[t].exit = "zero"
        /\ run[t].status = "killed" =>
             proc[t].exit = "signal" /\ handler[t].signaled /\ task[t].asked

\* The .write flag commits the directory, whenever the agent dies: if it
\* exists, all the files that prepare() reads instead of asking the server are
\* there.
WriteFlagCommits ==
  \A i \in Ids : ".write" \in files[i] => MetaFiles \subseteq files[i]

\* The handleTermination goroutine of a run is gone when the run is: the next
\* run's request channel is never read by the handler of the last one (the
\* goroutine reads the field t.terminationRequests without the lock).
NoHandlerAfterRun ==
  \A t \in Tasks : ~task[t].alive => handler[t].pc \in {"none", "finished"}

\* A run that somebody asked to terminate ends, whatever its process does: the
\* request waits in the channel while the run is prepared, is served once the
\* process runs, and a request that comes too late for a signal does not keep
\* run() waiting for the handler.  Only a signal that failed although the group
\* was there leaves it running (and a server that does not answer).
AskedRunEnds ==
  \A t \in Tasks :
    task[t].alive /\ task[t].asked ~> ~task[t].alive \/ handler[t].failed

\* The run as the rest of the agent sees it is the job of IbexJob.
ImplementsJob == JobSpec

----------------------------------------------------------------------------
(* What makes them inductive *)

\* The handler works only while its run waits for it, and signals only what was
\* asked for.
HandlerIsOwn ==
  \A t \in Tasks :
    /\ handler[t].pc \in {"select", "signal"} => run[t].pc \in {"running", "completing"}
    /\ run[t].pc = "begun" => handler[t].pc = "none"
    /\ handler[t].pc = "signal" \/ handler[t].signaled => task[t].asked

\* The process of a run ends before the run does.
ProcessIsOwn ==
  \A t \in Tasks :
    proc[t].state \in {"running", "zombie", "reaped"} => run[t].pc = "running"

\* Of the files that prepare() writes, those before the next one exist.
FilesInOrder ==
  \A t \in Tasks : Preparing(t, "write") =>
    \A n \in 1..5 : n < prep[t].next => MetaFile[n] \in files[IdOf(t)]

TaskInv ==
  /\ JobInv /\ TaskTypeOK /\ HandlerIsOwn /\ ProcessIsOwn /\ FilesInOrder
  /\ NaturalCompletionKept /\ WriteFlagCommits
============================================================================
