----------------------------- MODULE IbexLocals -----------------------------
(***************************************************************************)
(* The agent's table of remote tasks: ibex/tasks.go.                       *)
(*                                                                         *)
(* LocalTasksT keeps one Task object per id in M.  AssignTask applies one  *)
(* assignment of the server, Clean forgets tasks the server no longer      *)
(* assigns, StopAll refuses further assignments and terminates what runs.  *)
(* Each of them does its work on M and on the beginning of a run in one    *)
(* critical section of the table's lock, which is one step here: while it  *)
(* is held, a task's alive flag can only fall.  kill() and stop() are      *)
(* called after the lock is released.                                      *)
(***************************************************************************)
EXTENDS IbexJob

CONSTANTS Main    \* the goroutine that calls Start and Stop; it is a caller

ASSUME MainAssumption == Main \in Callers

VARIABLES
  M,          \* id -> Task object, or NoTask
  accepting,  \* LocalTasksT.accepting
  stopAll     \* the locals of StopAll: tasks still to stop, channels to wait for

localsVars == <<M, accepting, stopAll>>

NoStop == [tasks |-> {}, done |-> {}]
LocalsInit ==
  /\ M = [i \in Ids |-> NoTask]
  /\ accepting = TRUE
  /\ stopAll = NoStop

Listed(t) == M[IdOf(t)] = t

----------------------------------------------------------------------------
(* AssignTask(at), called by goroutine k *)

Assignments == [id : Ids, clock : Clocks, action : Action]

Found(at) == M[at.id] # NoTask
\* AssignTask without the test of accepting.
IgnoredWhenFound(at) ==
  \/ /\ Found(at)
     /\ \/ task[M[at.id]].clock = at.clock /\ task[M[at.id]].action = at.action
        \/ at.action = "start" /\ task[M[at.id]].alive
  \/ ~Found(at) /\ at.action = "kill"

\* Assignments that AssignTask returns from without a change.
Ignored(at) ==
  \/ ~accepting
  \/ /\ Found(at)
     /\ \/ task[M[at.id]].clock = at.clock /\ task[M[at.id]].action = at.action
        \/ at.action = "start" /\ task[M[at.id]].alive
  \/ ~Found(at) /\ at.action = "kill"

AssignKill(k, at) ==
  /\ ~Ignored(at)
  /\ Found(at) /\ at.action = "kill"
  /\ task' = [task EXCEPT ![M[at.id]] = SetAssignment(@, at.clock, "kill")]
  /\ call' = Calling(k, M[at.id])
  /\ UNCHANGED <<run, disk, M>>

\* Another start of a listed task that does not run: beginRun and go run.
AssignStart(at) ==
  /\ ~Ignored(at)
  /\ Found(at) /\ at.action = "start"
  /\ task[M[at.id]].epoch < MaxRuns
  /\ task' = [task EXCEPT ![M[at.id]] = beginRun(SetAssignment(@, at.clock, "start"))]
  /\ run' = [run EXCEPT ![M[at.id]] = Launched(at.clock)]
  /\ UNCHANGED <<call, disk, M>>

\* No look at the disk.
doneBeforeNever(i, c) == FALSE
doneBefore(i, c) == disk[i].done[c] # "none"

\* The status that loadResult reads; an empty file gives an empty status.
LoadedStatus(i, c) == IF disk[i].done[c] = "empty" THEN "" ELSE disk[i].done[c]

\* A new object t for an id that is not listed: its result is loaded from disk,
\* or it runs.
AssignNew(t, at) ==
  /\ ~Ignored(at)
  /\ ~Found(at) /\ at.action = "start"
  /\ IdOf(t) = at.id
  /\ M' = [M EXCEPT ![at.id] = t]
  /\ IF doneBefore(at.id, at.clock)
     THEN /\ task' = [task EXCEPT ![t] = [newTask(at.clock, "start") EXCEPT
                        !.status = LoadedStatus(at.id, at.clock),
                        !.stdout = disk[at.id].out.len]]
          /\ run' = [run EXCEPT ![t] = NoRun]
     ELSE /\ task' = [task EXCEPT ![t] = beginRun(newTask(at.clock, "start"))]
          /\ run' = [run EXCEPT ![t] = Launched(at.clock)]
  /\ UNCHANGED <<call, disk>>

----------------------------------------------------------------------------
(* Clean *)

\* Clean that does not look at alive.
CleanedForgetsRunning(assigned, i) == i \notin assigned /\ M[i] # NoTask
\* The ids Clean removes: not assigned, and not running.
Cleaned(assigned, i) == i \notin assigned /\ M[i] # NoTask /\ ~task[M[i]].alive

Clean(assigned) ==
  LET gone == {i \in Ids : Cleaned(assigned, i)} IN
  /\ M' = [i \in Ids |-> IF i \in gone THEN NoTask ELSE M[i]]
  /\ task' = [t \in Tasks |-> IF IdOf(t) \in gone /\ Listed(t)
                              THEN [task[t] EXCEPT !.stdout = 0] ELSE task[t]]
  /\ UNCHANGED <<run, call, disk, accepting, stopAll>>

----------------------------------------------------------------------------
(* StopAll *)

StopAllBegin ==
  /\ accepting' = FALSE
  /\ stopAll' = [NoStop EXCEPT !.tasks = {t \in Tasks : Listed(t) /\ task[t].alive}]
  /\ UNCHANGED <<jobVars, M>>

\* task.stop() on the next task of the snapshot ...
StopAllNext(t) ==
  /\ t \in stopAll.tasks
  /\ call[Main].pc = "idle"
  /\ stopAll' = [stopAll EXCEPT !.tasks = @ \ {t}]
  /\ call' = Calling(Main, t)
  /\ UNCHANGED <<task, run, disk, M, accepting>>

\* ... which returns the done channel of the run (a closed one if there is none).
StopAllLock ==
  LET t == call[Main].task IN
  /\ RequestLock(Main)
  /\ stopAll' = [stopAll EXCEPT !.done =
       IF task[t].alive THEN @ \cup {<<t, task[t].epoch>>} ELSE @]
  /\ UNCHANGED <<M, accepting>>

Closed(d) == ~(task[d[1]].alive /\ task[d[1]].epoch = d[2])
StopLoopOver == stopAll.tasks = {} /\ call[Main].pc = "idle"
============================================================================
