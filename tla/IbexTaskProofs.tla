--------------------------- MODULE IbexTaskProofs ---------------------------
(***************************************************************************)
(* Proofs about the life of an ibex task (module IbexJob) and about the    *)
(* inside of one of its runs (module IbexTask), for every number of ids,   *)
(* clocks and restarts.                                                    *)
(***************************************************************************)
EXTENDS IbexTask, TLAPS

\* The provers, in the order in which they are tried.
USE ZenonT(2), SMTT(30), ZenonT(60)

\* The id of an object is an id.
LEMMA IdOfType == \A t \in Tasks : IdOf(t) \in Ids
  BY DEF Tasks, IdOf

----------------------------------------------------------------------------
(* Type correctness *)

\* A new Task has the type of a Task.
LEMMA NewTaskType ==
  ASSUME NEW c \in Clocks \cup {0}, NEW a \in Action
  PROVE  newTask(c, a) \in TaskRecord
  BY DEF newTask, TaskRecord, Status

\* beginRun keeps the type of a Task.
LEMMA BeginRunType ==
  ASSUME NEW r \in TaskRecord
  PROVE  beginRun(r) \in TaskRecord
  <1>1. r.epoch + 1 \in Nat
    BY DEF TaskRecord
  <1> QED
    BY <1>1 DEF beginRun, TaskRecord, Status

\* What beginRun sets and what it leaves alone.
LEMMA BeginRunFields ==
  ASSUME NEW r \in TaskRecord
  PROVE  /\ beginRun(r).alive = TRUE /\ beginRun(r).requests = FALSE
         /\ beginRun(r).status = "running" /\ beginRun(r).epoch = r.epoch + 1
         /\ beginRun(r).asked = FALSE /\ beginRun(r).completing = FALSE
  BY DEF beginRun, TaskRecord

\* SetAssignment keeps the type of a Task.
LEMMA SetAssignmentType ==
  ASSUME NEW r \in TaskRecord, NEW c \in Clocks, NEW a \in Action
  PROVE  SetAssignment(r, c, a) \in TaskRecord
  BY DEF SetAssignment, TaskRecord

\* The absent goroutine has the type of a run.
LEMMA NoRunType == NoRun \in RunRecord
  BY DEF NoRun, RunRecord, Final

\* A run launched with a clock has the type of a run.
LEMMA LaunchedType ==
  ASSUME NEW c \in Clocks
  PROVE  Launched(c) \in RunRecord
  BY DEF Launched, NoRun, RunRecord, Final

\* It is at its beginning, and a failure until it is decided.
LEMMA LaunchedFields ==
  ASSUME NEW c \in Clocks
  PROVE  Launched(c).pc = "begun" /\ Launched(c).clock = c /\ Launched(c).status = "failed"
  BY DEF Launched, NoRun

\* A caller that is outside has the type of a caller.
LEMMA NoCallType == NoCall \in CallRecord
  BY DEF NoCall, CallRecord

\* An empty directory has the type of a directory.
LEMMA EmptyDirType == EmptyDir \in DirRecord
  BY DEF EmptyDir, DirRecord

\* What finalize writes to the directory.
LEMMA DirType ==
  ASSUME NEW d \in DirRecord, NEW c \in Clocks
  PROVE  /\ \A n \in Nat : [d EXCEPT !.out = [clock |-> c, len |-> n]] \in DirRecord
         /\ \A s \in Final \cup {"empty"} : [d EXCEPT !.done[c] = s] \in DirRecord
         /\ [d EXCEPT !.ran = @ \cup {c}] \in DirRecord
         /\ [d EXCEPT !.lost = @ \cup {c}] \in DirRecord
         /\ [d EXCEPT !.unflushed = @ \cup {c}] \in DirRecord
  <1>1. \A n \in Nat : [d EXCEPT !.out = [clock |-> c, len |-> n]] \in DirRecord
    BY DEF DirRecord
  <1>2. ASSUME NEW s \in Final \cup {"empty"} PROVE [d EXCEPT !.done[c] = s] \in DirRecord
    <2>1. [d.done EXCEPT ![c] = s] \in [Clocks -> Final \cup {"none", "empty"}]
      BY DEF DirRecord
    <2> QED
      BY <2>1 DEF DirRecord
  <1>3. /\ [d EXCEPT !.ran = @ \cup {c}] \in DirRecord
        /\ [d EXCEPT !.lost = @ \cup {c}] \in DirRecord
        /\ [d EXCEPT !.unflushed = @ \cup {c}] \in DirRecord
    BY DEF DirRecord
  <1> QED
    BY <1>1, <1>2, <1>3

\* The initial state has its type.
LEMMA JobTypeInit == JobInit => JobTypeOK
  <1> SUFFICES ASSUME JobInit PROVE JobTypeOK
    OBVIOUS
  <1>1. newTask(0, "start") \in TaskRecord
    BY NewTaskType DEF Action
  <1> QED
    BY <1>1, NoRunType, NoCallType, EmptyDirType DEF JobInit, JobTypeOK

\* The assignments to fields of a Task that a run makes keep its type ...
LEMMA TaskFieldType ==
  ASSUME NEW r \in TaskRecord
  PROVE  /\ [r EXCEPT !.stdout = @ + 1] \in TaskRecord
         /\ [r EXCEPT !.requests = FALSE, !.status = "killing"] \in TaskRecord
         /\ [r EXCEPT !.completing = TRUE] \in TaskRecord
         /\ [r EXCEPT !.alive = FALSE] \in TaskRecord
         /\ \A s \in Final : [r EXCEPT !.status = s] \in TaskRecord
  <1>1. r.stdout + 1 \in Nat
    BY DEF TaskRecord
  <1>2. [r EXCEPT !.stdout = @ + 1] \in TaskRecord
    BY <1>1 DEF TaskRecord
  <1>3. [r EXCEPT !.requests = FALSE, !.status = "killing"] \in TaskRecord
    BY DEF TaskRecord, Status
  <1>4. [r EXCEPT !.completing = TRUE] \in TaskRecord
    BY DEF TaskRecord
  <1>5. [r EXCEPT !.alive = FALSE] \in TaskRecord
    BY DEF TaskRecord
  <1>6. ASSUME NEW s \in Final PROVE [r EXCEPT !.status = s] \in TaskRecord
    <2>1. s \in Status
      BY DEF Status
    <2> QED
      BY <2>1 DEF TaskRecord
  <1> QED
    BY <1>2, <1>3, <1>4, <1>5, <1>6

\* ... and so do the steps of run() from one place to the next.
LEMMA GotoType ==
  ASSUME NEW t \in Tasks, run \in [Tasks -> RunRecord],
         NEW pc \in {"idle", "running", "completing", "finalize", "flush", "persist", "record",
                     "close"},
         Goto(t, pc)
  PROVE  run' \in [Tasks -> RunRecord]
  <1>1. [run[t] EXCEPT !.pc = pc] \in RunRecord
    BY DEF RunRecord
  <1> QED
    BY <1>1 DEF Goto

\* Every step of the run of an object keeps the types.
LEMMA JobTypeRun ==
  ASSUME JobTypeOK, RunHasClock, NEW t \in Tasks, RunStep(t)
  PROVE  JobTypeOK'
  <1>0. /\ IdOf(t) \in Ids /\ task[t] \in TaskRecord /\ run[t] \in RunRecord
        /\ disk[IdOf(t)] \in DirRecord
        /\ task \in [Tasks -> TaskRecord] /\ run \in [Tasks -> RunRecord]
        /\ call \in [Callers -> CallRecord] /\ disk \in [Ids -> DirRecord]
    BY IdOfType DEF JobTypeOK
  <1>c. run[t].pc # "idle" => run[t].clock \in Clocks
    BY DEF RunHasClock
  <1>s. run[t].status \in Final
    BY <1>0 DEF RunRecord
  <1>1. CASE Fail(t)
    <2>1. run' \in [Tasks -> RunRecord]
      BY <1>0, <1>1, GotoType DEF Fail
    <2> QED
      BY <1>0, <1>1, <2>1 DEF Fail, JobTypeOK
  <1>2. CASE StartProcess(t)
    <2>1. run' \in [Tasks -> RunRecord]
      BY <1>0, <1>2, GotoType DEF StartProcess
    <2>2. run[t].clock \in Clocks
      BY <1>c, <1>2 DEF StartProcess
    <2>3. [disk[IdOf(t)] EXCEPT !.ran = @ \cup {run[t].clock}] \in DirRecord
      BY <1>0, <2>2, DirType
    <2>4. disk' \in [Ids -> DirRecord]
      BY <1>0, <1>2, <2>3 DEF StartProcess
    <2> QED
      BY <1>0, <1>2, <2>1, <2>4 DEF StartProcess, JobTypeOK
  <1>3. CASE Write(t)
    <2>1. [task[t] EXCEPT !.stdout = @ + 1] \in TaskRecord
      BY <1>0, TaskFieldType
    <2>2. task' \in [Tasks -> TaskRecord]
      BY <1>0, <1>3, <2>1 DEF Write
    <2> QED
      BY <1>0, <1>3, <2>2 DEF Write, JobTypeOK
  <1>4. CASE TakeRequest(t)
    <2>1. [task[t] EXCEPT !.requests = FALSE, !.status = "killing"] \in TaskRecord
      BY <1>0, TaskFieldType
    <2>2. task' \in [Tasks -> TaskRecord]
      BY <1>0, <1>4, <2>1 DEF TakeRequest, SetKilling
    <2> QED
      BY <1>0, <1>4, <2>2 DEF TakeRequest, SetKilling, JobTypeOK
  <1>5. CASE Complete(t)
    <2>1. run' \in [Tasks -> RunRecord]
      BY <1>0, <1>5, GotoType DEF Complete
    <2>2. [task[t] EXCEPT !.completing = TRUE] \in TaskRecord
      BY <1>0, TaskFieldType
    <2>3. task' \in [Tasks -> TaskRecord]
      BY <1>0, <1>5, <2>2 DEF Complete
    <2> QED
      BY <1>0, <1>5, <2>1, <2>3 DEF Complete, JobTypeOK
  <1>6. CASE \E s \in Final : Decide(t, s)
    <2>1. PICK s \in Final : Decided(t, s)
      BY <1>6 DEF Decide
    <2>2. [run[t] EXCEPT !.pc = "finalize", !.status = s] \in RunRecord
      BY <1>0 DEF RunRecord
    <2>3. run' \in [Tasks -> RunRecord]
      BY <1>0, <2>1, <2>2 DEF Decided
    <2> QED
      BY <1>0, <2>1, <2>3 DEF Decided, JobTypeOK
  <1>7. CASE SetFinalStatus(t)
    <2>1. run' \in [Tasks -> RunRecord]
      BY <1>0, <1>7, GotoType DEF SetFinalStatus
    <2>2. [task[t] EXCEPT !.status = run[t].status] \in TaskRecord
      BY <1>0, <1>s, TaskFieldType
    <2>3. task' \in [Tasks -> TaskRecord]
      BY <1>0, <1>7, <2>2 DEF SetFinalStatus
    <2> QED
      BY <1>0, <1>7, <2>1, <2>3 DEF SetFinalStatus, JobTypeOK
  <1>8. CASE flushOutput(t)
    <2>1. run' \in [Tasks -> RunRecord]
      BY <1>0, <1>8, GotoType DEF flushOutput
    <2>2. task[t].stdout \in Nat
      BY <1>0 DEF TaskRecord
    <2>3. run[t].clock \in Clocks
      BY <1>c, <1>8 DEF flushOutput
    <2>4. LET d == disk[IdOf(t)] IN
          /\ [d EXCEPT !.out = [clock |-> run[t].clock, len |-> task[t].stdout]] \in DirRecord
          /\ [d EXCEPT !.unflushed = @ \cup {run[t].clock}] \in DirRecord
      BY <1>0, <2>2, <2>3, DirType
    <2>5. disk' \in [Ids -> DirRecord]
      BY <1>0, <1>8, <2>4 DEF flushOutput
    <2> QED
      BY <1>0, <1>8, <2>1, <2>5 DEF flushOutput, JobTypeOK
  <1>9. CASE persistCreate(t)
    <2>1. run' \in [Tasks -> RunRecord]
      <3>1. Goto(t, "record") \/ Goto(t, "close")
        BY <1>9 DEF persistCreate
      <3> QED
        BY <1>0, <3>1, GotoType
    <2>2. run[t].clock \in Clocks
      BY <1>c, <1>9 DEF persistCreate
    <2>3. LET d == disk[IdOf(t)] IN
          /\ [d EXCEPT !.done[run[t].clock] = "empty"] \in DirRecord
          /\ [d EXCEPT !.lost = @ \cup {run[t].clock}] \in DirRecord
      BY <1>0, <2>2, DirType
    <2>4. disk' \in [Ids -> DirRecord]
      BY <1>0, <1>9, <2>3 DEF persistCreate
    <2> QED
      BY <1>0, <1>9, <2>1, <2>4 DEF persistCreate, JobTypeOK
  <1>10. CASE persistWrite(t)
    <2>1. run' \in [Tasks -> RunRecord]
      BY <1>0, <1>10, GotoType DEF persistWrite
    <2>2. run[t].clock \in Clocks
      BY <1>c, <1>10 DEF persistWrite
    <2>3. LET d == disk[IdOf(t)] IN
          /\ [d EXCEPT !.done[run[t].clock] = run[t].status] \in DirRecord
          /\ [d EXCEPT !.lost = @ \cup {run[t].clock}] \in DirRecord
      BY <1>0, <1>s, <2>2, DirType
    <2>4. disk' \in [Ids -> DirRecord]
      BY <1>0, <1>10, <2>3 DEF persistWrite
    <2> QED
      BY <1>0, <1>10, <2>1, <2>4 DEF persistWrite, JobTypeOK
  <1>11. CASE CloseDone(t)
    <2>1. run' \in [Tasks -> RunRecord]
      BY <1>0, <1>11, GotoType DEF CloseDone
    <2>2. [task[t] EXCEPT !.alive = FALSE] \in TaskRecord
      BY <1>0, TaskFieldType
    <2>3. task' \in [Tasks -> TaskRecord]
      BY <1>0, <1>11, <2>2 DEF CloseDone
    <2> QED
      BY <1>0, <1>11, <2>1, <2>3 DEF CloseDone, JobTypeOK
  <1> QED
    BY <1>1, <1>2, <1>3, <1>4, <1>5, <1>6, <1>7, <1>8, <1>9, <1>10, <1>11
    DEF RunStep, finalize

\* So do the two halves of requestTermination ...
LEMMA JobTypeRequest ==
  ASSUME JobTypeOK, CallIsKnown, NEW k \in Callers, RequestLock(k) \/ RequestSend(k)
  PROVE  JobTypeOK'
  <1>0. /\ call[k].pc # "idle" => call[k].task \in Tasks
        /\ call[k].task \in Tasks => task[call[k].task].epoch \in Nat
    BY DEF CallIsKnown, JobTypeOK, TaskRecord
  <1>1. CASE RequestLock(k)
    <2> DEFINE t == call[k].task
    <2>1. t \in Tasks /\ call[k] \in CallRecord /\ task[t] \in TaskRecord
      BY <1>0, <1>1 DEF RequestLock, JobTypeOK
    <2>2. [call[k] EXCEPT !.pc = "send", !.epoch = task[t].epoch] \in CallRecord
      BY <1>0, <2>1 DEF CallRecord
    <2>3. [task[t] EXCEPT !.asked = TRUE] \in TaskRecord
      BY <2>1 DEF TaskRecord
    <2> HIDE DEF t
    <2>4. CASE task[t].alive /\ ~task[t].completing
      BY <1>1, <2>1, <2>2, <2>3, <2>4 DEF RequestLock, JobTypeOK, t
    <2>5. CASE ~(task[t].alive /\ ~task[t].completing)
      BY <1>1, <2>5, NoCallType DEF RequestLock, JobTypeOK, t
    <2> QED
      BY <2>4, <2>5
  <1>2. CASE RequestSend(k)
    <2> DEFINE t == call[k].task
    <2>1. t \in Tasks /\ task[t] \in TaskRecord
      BY <1>0, <1>2 DEF RequestSend, JobTypeOK
    <2>2. (task[t].requests \/ SameChannel(k)) \in BOOLEAN
      OBVIOUS
    <2>3. [task[t] EXCEPT !.requests = task[t].requests \/ SameChannel(k)] \in TaskRecord
      BY <2>1, <2>2 DEF TaskRecord
    <2> QED
      BY <1>2, <2>1, <2>3, NoCallType DEF RequestSend, JobTypeOK
  <1> QED
    BY <1>1, <1>2

\* ... and a call of kill() or stop().
LEMMA CallingType ==
  ASSUME JobTypeOK, NEW k \in Callers, NEW t \in Tasks
  PROVE  Calling(k, t) \in [Callers -> CallRecord]
  BY DEF Calling, NoCall, CallRecord, JobTypeOK

\* The end of the agent keeps the types.
LEMMA JobTypeCrash ==
  ASSUME JobTypeOK, RunHasClock, JobCrash
  PROVE  JobTypeOK'
  <1>1. newTask(0, "start") \in TaskRecord
    BY NewTaskType DEF Action
  <1>2. ASSUME NEW i \in Ids PROVE disk'[i] \in DirRecord
    <2> DEFINE L == {run[t].clock : t \in {u \in Tasks : IdOf(u) = i /\ run[u].pc \notin {"idle", "close"}}}
    <2>1. L \subseteq Clocks
      BY DEF RunHasClock
    <2>2. disk'[i] = [disk[i] EXCEPT !.lost = @ \cup L] /\ disk[i] \in DirRecord
      BY DEF JobCrash, JobTypeOK
    <2> HIDE DEF L
    <2> QED
      BY <2>1, <2>2 DEF DirRecord
  <1>3. disk' \in [Ids -> DirRecord]
    BY <1>2 DEF JobCrash
  <1> QED
    BY <1>1, <1>3, NoRunType, NoCallType DEF JobCrash, JobTypeOK

----------------------------------------------------------------------------
(* The invariant *)

\* What a step of the run of t may do to the objects, as far as the invariants
\* without the disk tell it.
Effect(t) ==
  /\ call' = call
  /\ \A u \in Tasks \ {t} : task'[u] = task[u] /\ run'[u] = run[u]
  /\ task'[t].epoch = task[t].epoch /\ task'[t].asked = task[t].asked
  /\ run[t].pc # "idle" /\ run'[t].clock = run[t].clock
  /\ task'[t].alive <=> task[t].alive /\ run'[t].pc # "idle"
  /\ task'[t].requests => task[t].requests
  /\ run'[t].pc \in Unfinished => run[t].pc \in Unfinished /\ run'[t].status = run[t].status
  /\ run'[t].pc \in Finishing /\ run'[t].status = "killed" =>
       task[t].asked \/ (run[t].pc \in Finishing /\ run[t].status = "killed")
  /\ task'[t].status \in {"killing", "killed"} =>
       \/ task[t].status = task'[t].status
       \/ task[t].requests
       \/ run[t].pc \in Finishing /\ run[t].status = "killed"

\* A step of a run changes its own task and directory only, and only in these ways.
LEMMA RunStepEffect ==
  ASSUME JobTypeOK, AliveIsRunning, NEW t \in Tasks, RunStep(t), RunHasClock
  PROVE  Effect(t)
  <1>0. /\ task[t].alive <=> run[t].pc # "idle"
        /\ run[t].pc \in Unfinished => run[t].status = "failed"
        /\ task[t] \in TaskRecord /\ run[t] \in RunRecord
    BY DEF AliveIsRunning, JobTypeOK, RunHasClock
  <1>1. CASE Fail(t)
    BY <1>0, <1>1 DEF Fail, Goto, JobTypeOK, Effect, RunRecord, Finishing, Unfinished
  <1>2. CASE StartProcess(t)
    BY <1>0, <1>2 DEF StartProcess, Goto, JobTypeOK, Effect, RunRecord, Finishing, Unfinished
  <1>3. CASE Write(t)
    BY <1>0, <1>3 DEF Write, Goto, JobTypeOK, Effect, TaskRecord, Finishing, Unfinished
  <1>4. CASE TakeRequest(t)
    BY <1>0, <1>4 DEF TakeRequest, SetKilling, Goto, JobTypeOK, Effect, TaskRecord, Finishing, Unfinished
  <1>5. CASE Complete(t)
    BY <1>0, <1>5 DEF Complete, Goto, JobTypeOK, Effect, TaskRecord, RunRecord, Finishing, Unfinished
  <1>6. CASE \E s \in Final : Decide(t, s)
    BY <1>0, <1>6 DEF Decide, Decided, Goto, JobTypeOK, Effect, TaskRecord, RunRecord, Finishing, Unfinished
  <1>7. CASE SetFinalStatus(t)
    BY <1>0, <1>7 DEF SetFinalStatus, Goto, JobTypeOK, Effect, TaskRecord, RunRecord, Finishing, Unfinished, Final
  <1>8. CASE flushOutput(t)
    BY <1>0, <1>8 DEF flushOutput, Goto, JobTypeOK, Effect, RunRecord, Finishing, Unfinished
  <1>9. CASE persistCreate(t)
    BY <1>0, <1>9 DEF persistCreate, Goto, JobTypeOK, Effect, RunRecord, Finishing, Unfinished
  <1>10. CASE persistWrite(t)
    BY <1>0, <1>10 DEF persistWrite, Goto, JobTypeOK, Effect, RunRecord, Finishing, Unfinished
  <1>11. CASE CloseDone(t)
    BY <1>0, <1>11 DEF CloseDone, Goto, JobTypeOK, Effect, TaskRecord, RunRecord, Finishing, Unfinished
  <1> QED
    BY <1>1, <1>2, <1>3, <1>4, <1>5, <1>6, <1>7, <1>8, <1>9, <1>10, <1>11
    DEF RunStep, finalize

\* Such a change keeps what the invariant says of the other tasks.
LEMMA EffectKeeps ==
  ASSUME JobInv, NEW t \in Tasks, Effect(t)
  PROVE  RunHasClock' /\ AliveIsRunning' /\ RequestIsAsked' /\ CallIsKnown'
         /\ OnlyAskedRunsAreKilled'
  <1>1. RunHasClock'
    BY DEF JobInv, Effect, RunHasClock
  <1>2. AliveIsRunning'
    BY DEF JobInv, Effect, AliveIsRunning
  <1>3. RequestIsAsked'
    BY DEF JobInv, Effect, RequestIsAsked
  <1>4. CallIsKnown'
    BY DEF JobInv, Effect, CallIsKnown
  <1>5. OnlyAskedRunsAreKilled'
    BY DEF JobInv, Effect, OnlyAskedRunsAreKilled, RequestIsAsked
  <1> QED
    BY <1>1, <1>2, <1>3, <1>4, <1>5

\* Results on disk stay there while the runs of an id go on.
LEMMA RunKeepsResults ==
  ASSUME JobInv, NEW t \in Tasks, RunStep(t)
  PROVE  ResultKept'
  <1> SUFFICES ASSUME NEW v \in Tasks, (task[v].epoch > 0)', (run[v].pc \in {"close", "idle"})'
               PROVE  (\/ disk[IdOf(v)].done[run[v].clock] \in Final
                       \/ run[v].clock \in disk[IdOf(v)].lost
                       \/ \E u \in Tasks : /\ IdOf(u) = IdOf(v) /\ run[u].clock = run[v].clock
                                           /\ run[u].pc = "record")'
    BY DEF ResultKept
  <1>0. /\ IdOf(t) \in Ids /\ IdOf(v) \in Ids
        /\ run[t] \in RunRecord /\ run[v] \in RunRecord
        /\ disk[IdOf(t)] \in DirRecord /\ disk[IdOf(v)] \in DirRecord
    BY IdOfType DEF JobInv, JobTypeOK
  <1>1. Effect(t)
    BY RunStepEffect DEF JobInv
  <1>2. (task[v].epoch > 0 /\ run[v].pc \in {"close", "idle"}) =>
          \/ disk[IdOf(v)].done[run[v].clock] \in Final
          \/ run[v].clock \in disk[IdOf(v)].lost
          \/ \E u \in Tasks : /\ IdOf(u) = IdOf(v) /\ run[u].clock = run[v].clock
                              /\ run[u].pc = "record"
    BY DEF JobInv, ResultKept
  <1>3. task'[v].epoch = task[v].epoch /\ run'[v].clock = run[v].clock
    BY <1>1 DEF Effect
  <1>4. /\ run'[v].pc \in {"close", "idle"} /\ task[v].epoch > 0
        /\ v # t => run'[v].pc = run[v].pc
    BY <1>1, <1>3 DEF Effect
  <1>5. CASE /\ \A i \in Ids : disk'[i].done = disk[i].done /\ disk'[i].lost = disk[i].lost
             /\ run[t].pc # "record"
             /\ run'[t].pc \in {"close", "idle"} => run[t].pc \in {"close", "idle"}
    BY <1>0, <1>1, <1>2, <1>3, <1>4, <1>5 DEF Effect
  <1>6. CASE persistCreate(t)
    <2>1. CASE /\ disk' = [disk EXCEPT ![IdOf(t)].done[run[t].clock] = "empty"]
               /\ Goto(t, "record")
      <3>1. run'[t].pc = "record" /\ v # t /\ run[t].pc # "record"
        BY <1>0, <1>4, <1>6, <2>1 DEF Goto, JobInv, JobTypeOK, RunRecord, persistCreate
      <3>2. CASE IdOf(v) = IdOf(t) /\ run[v].clock = run[t].clock
        BY <1>1, <1>3, <3>1, <3>2 DEF Effect
      <3>3. CASE ~(IdOf(v) = IdOf(t) /\ run[v].clock = run[t].clock)
        <4>1. /\ disk'[IdOf(v)].done[run[v].clock] = disk[IdOf(v)].done[run[v].clock]
              /\ disk'[IdOf(v)].lost = disk[IdOf(v)].lost
          BY <1>0, <2>1, <3>3 DEF JobInv, JobTypeOK, DirRecord
        <4> QED
          BY <1>1, <1>2, <1>3, <1>4, <3>1, <4>1 DEF Effect
      <3> QED
        BY <3>2, <3>3
    <2>2. CASE /\ disk' = [disk EXCEPT ![IdOf(t)].lost = @ \cup {run[t].clock}]
               /\ Goto(t, "close")
      <3>1. /\ disk'[IdOf(v)].done = disk[IdOf(v)].done
            /\ disk[IdOf(v)].lost \subseteq disk'[IdOf(v)].lost
            /\ run[t].clock \in disk'[IdOf(t)].lost
        BY <1>0, <2>2 DEF JobInv, JobTypeOK, DirRecord
      <3>2. run[t].pc # "record"
        BY <1>6 DEF persistCreate
      <3> QED
        BY <1>1, <1>2, <1>3, <1>4, <3>1, <3>2 DEF Effect
    <2> QED
      BY <1>6, <2>1, <2>2 DEF persistCreate
  <1>7. CASE persistWrite(t)
    <2>0. run[t].status \in Final
      BY <1>0 DEF RunRecord
    <2>1. /\ disk[IdOf(v)].lost \subseteq disk'[IdOf(v)].lost
          /\ ~(IdOf(v) = IdOf(t) /\ run[v].clock = run[t].clock) =>
               disk'[IdOf(v)].done[run[v].clock] = disk[IdOf(v)].done[run[v].clock]
      <3>1. CASE disk' = [disk EXCEPT ![IdOf(t)].done[run[t].clock] = run[t].status]
        BY <1>0, <3>1 DEF JobInv, JobTypeOK, DirRecord
      <3>2. CASE disk' = [disk EXCEPT ![IdOf(t)].lost = @ \cup {run[t].clock}]
        BY <1>0, <3>2 DEF JobInv, JobTypeOK, DirRecord
      <3> QED
        BY <1>7, <3>1, <3>2 DEF persistWrite
    <2>2. run[t].clock \in Clocks
      BY <1>7 DEF persistWrite, JobInv, RunHasClock
    <2>3. \/ disk'[IdOf(t)].done[run[t].clock] \in Final
          \/ run[t].clock \in disk'[IdOf(t)].lost
      BY <1>0, <1>7, <2>0, <2>2 DEF persistWrite, JobInv, JobTypeOK, DirRecord
    <2>4. CASE IdOf(v) = IdOf(t) /\ run[v].clock = run[t].clock
      BY <1>3, <2>3, <2>4
    <2>5. CASE ~(IdOf(v) = IdOf(t) /\ run[v].clock = run[t].clock)
      BY <1>1, <1>2, <1>3, <1>4, <2>1, <2>5 DEF Effect
    <2> QED
      BY <2>4, <2>5
  <1>8. CASE Fail(t)
    BY <1>0, <1>5, <1>8 DEF Fail, Goto, JobInv, JobTypeOK, RunRecord
  <1>9. CASE StartProcess(t)
    <2>1. \A i \in Ids : disk'[i].done = disk[i].done /\ disk'[i].lost = disk[i].lost
      BY <1>0, <1>9 DEF StartProcess, JobInv, JobTypeOK, DirRecord
    <2> QED
      BY <1>0, <1>5, <1>9, <2>1 DEF StartProcess, Goto, JobInv, JobTypeOK, RunRecord
  <1>10. CASE Write(t)
    BY <1>5, <1>10 DEF Write
  <1>11. CASE TakeRequest(t)
    BY <1>5, <1>11 DEF TakeRequest, SetKilling
  <1>12. CASE Complete(t)
    BY <1>0, <1>5, <1>12 DEF Complete, Goto, JobInv, JobTypeOK, RunRecord
  <1>13. CASE \E s \in Final : Decide(t, s)
    BY <1>0, <1>5, <1>13 DEF Decide, Decided, JobInv, JobTypeOK, RunRecord
  <1>14. CASE SetFinalStatus(t)
    BY <1>0, <1>5, <1>14 DEF SetFinalStatus, Goto, JobInv, JobTypeOK, RunRecord
  <1>15. CASE flushOutput(t)
    <2>1. \A i \in Ids : disk'[i].done = disk[i].done /\ disk'[i].lost = disk[i].lost
      BY <1>0, <1>15 DEF flushOutput, JobInv, JobTypeOK, DirRecord
    <2> QED
      BY <1>0, <1>5, <1>15, <2>1 DEF flushOutput, Goto, JobInv, JobTypeOK, RunRecord
  <1>16. CASE CloseDone(t)
    BY <1>0, <1>5, <1>16 DEF CloseDone, Goto, JobInv, JobTypeOK, RunRecord
  <1> QED
    BY <1>6, <1>7, <1>8, <1>9, <1>10, <1>11, <1>12, <1>13, <1>14, <1>15, <1>16
    DEF RunStep, finalize

\* A step of a run keeps the invariant.
LEMMA JobInvRun ==
  ASSUME JobInv, NEW t \in Tasks, RunStep(t)
  PROVE  JobInv'
  <1>1. JobTypeOK'
    BY JobTypeRun DEF JobInv
  <1>2. Effect(t)
    BY RunStepEffect DEF JobInv
  <1> QED
    BY <1>1, <1>2, EffectKeeps, RunKeepsResults DEF JobInv

\* The two halves of requestTermination keep it: the object is marked as asked
\* for when its channel is taken, and a late send reaches only the channel of
\* the run it was taken from.
LEMMA JobInvRequest ==
  ASSUME JobInv, NEW k \in Callers, RequestLock(k) \/ RequestSend(k)
  PROVE  JobInv'
  <1>1. JobTypeOK'
    BY JobTypeRequest DEF JobInv
  <1> DEFINE t == call[k].task
  <1>2. t \in Tasks /\ task[t] \in TaskRecord /\ call[k] \in CallRecord
    BY DEF RequestLock, RequestSend, JobInv, CallIsKnown, JobTypeOK
  <1>3. /\ run' = run /\ disk' = disk
        /\ \A u \in Tasks \ {t} : task'[u] = task[u]
        /\ \A l \in Callers \ {k} : call'[l] = call[l]
        /\ task'[t].epoch = task[t].epoch /\ task'[t].alive = task[t].alive
        /\ task'[t].status = task[t].status
        /\ task[t].asked => task'[t].asked
        /\ task'[t].requests =>
             task[t].requests \/ (call[k].epoch = task[t].epoch /\ call[k].pc = "send")
    <2>1. CASE RequestLock(k)
      <3>1. CASE task[t].alive /\ ~task[t].completing
        <4>1. /\ task' = [task EXCEPT ![t].asked = TRUE]
              /\ call' = [call EXCEPT ![k] = [@ EXCEPT !.pc = "send", !.epoch = task[t].epoch]]
          BY <2>1, <3>1 DEF RequestLock
        <4> QED
          BY <1>2, <2>1, <4>1 DEF RequestLock, JobInv, JobTypeOK, TaskRecord
      <3>2. CASE ~(task[t].alive /\ ~task[t].completing)
        BY <2>1, <3>2 DEF RequestLock, JobInv, JobTypeOK
      <3> QED
        BY <3>1, <3>2
    <2>2. CASE RequestSend(k)
      BY <1>2, <2>2 DEF RequestSend, SameChannel, JobInv, JobTypeOK, TaskRecord, CallRecord
    <2> QED
      BY <2>1, <2>2
  <1>4. \/ call'[k].pc = "idle"
        \/ /\ call'[k].pc = "send" /\ call'[k].task = t
           /\ call'[k].epoch = task[t].epoch /\ task'[t].asked
    <2>1. CASE RequestLock(k)
      <3>1. CASE task[t].alive /\ ~task[t].completing
        <4>1. /\ task' = [task EXCEPT ![t].asked = TRUE]
              /\ call' = [call EXCEPT ![k] = [@ EXCEPT !.pc = "send", !.epoch = task[t].epoch]]
          BY <2>1, <3>1 DEF RequestLock
        <4>2. task'[t].asked
          BY <1>2, <4>1 DEF JobInv, JobTypeOK, TaskRecord
        <4> QED
          BY <1>2, <4>1, <4>2 DEF JobInv, JobTypeOK, CallRecord
      <3>2. CASE ~(task[t].alive /\ ~task[t].completing)
        BY <2>1, <3>2 DEF RequestLock, NoCall, JobInv, JobTypeOK
      <3> QED
        BY <3>1, <3>2
    <2>2. CASE RequestSend(k)
      BY <1>2, <2>2 DEF RequestSend, NoCall, JobInv, JobTypeOK
    <2> QED
      BY <2>1, <2>2
  <1>5. task[t].epoch \in Nat
    BY <1>2 DEF TaskRecord
  <1> HIDE DEF t
  <1>6. RunHasClock' /\ AliveIsRunning' /\ ResultKept' /\ OnlyAskedRunsAreKilled'
    BY <1>2, <1>3 DEF JobInv, RunHasClock, AliveIsRunning, ResultKept, OnlyAskedRunsAreKilled
  <1>7. RequestIsAsked'
    <2>1. call[k].pc = "send" /\ call[k].epoch = task[t].epoch => task[t].asked
      BY DEF JobInv, CallIsKnown, t
    <2> QED
      BY <1>2, <1>3, <2>1 DEF JobInv, RequestIsAsked
  <1>8. CallIsKnown'
    BY <1>2, <1>3, <1>4, <1>5 DEF JobInv, CallIsKnown
  <1> QED
    BY <1>1, <1>6, <1>7, <1>8 DEF JobInv

\* A call of kill() or stop() begins, with or without a new assignment.
LEMMA JobInvCalling ==
  ASSUME JobInv, NEW k \in Callers, NEW t \in Tasks,
         call' = Calling(k, t), UNCHANGED <<run, disk>>,
         \/ task' = task
         \/ \E c \in Clocks : task' = [task EXCEPT ![t] = SetAssignment(@, c, "kill")]
  PROVE  JobInv'
  <1>1. \A u \in Tasks :
          /\ task'[u] \in TaskRecord
          /\ task'[u].epoch = task[u].epoch /\ task'[u].alive = task[u].alive
          /\ task'[u].status = task[u].status /\ task'[u].asked = task[u].asked
          /\ task'[u].requests = task[u].requests
    <2>0. CASE task' = task
      BY <2>0 DEF JobInv, JobTypeOK
    <2> SUFFICES ASSUME NEW c \in Clocks,
                        task' = [task EXCEPT ![t] = SetAssignment(@, c, "kill")]
                 PROVE  \A u \in Tasks :
                          /\ task'[u] \in TaskRecord
                          /\ task'[u].epoch = task[u].epoch /\ task'[u].alive = task[u].alive
                          /\ task'[u].status = task[u].status /\ task'[u].asked = task[u].asked
                          /\ task'[u].requests = task[u].requests
      BY <2>0
    <2> DEFINE r == SetAssignment(task[t], c, "kill")
    <2>1. \A u \in Tasks : task[u] \in TaskRecord
      BY DEF JobInv, JobTypeOK
    <2>2. /\ r \in TaskRecord /\ r.epoch = task[t].epoch /\ r.alive = task[t].alive
          /\ r.status = task[t].status /\ r.asked = task[t].asked
          /\ r.requests = task[t].requests
      BY <2>1 DEF SetAssignment, TaskRecord, Action
    <2> HIDE DEF r
    <2>3. \A u \in Tasks : task'[u] = task[u] \/ (u = t /\ task'[u] = r)
      BY DEF JobInv, JobTypeOK, r
    <2> QED
      BY <2>1, <2>2, <2>3
  <1>2. JobTypeOK'
    <2>1. task' \in [Tasks -> TaskRecord]
      BY SetAssignmentType DEF JobInv, JobTypeOK, Action
    <2> QED
      BY <2>1, CallingType DEF JobInv, JobTypeOK
  <1>3. /\ call'[k].pc = "lock" /\ call'[k].task = t
        /\ \A l \in Callers \ {k} : call'[l] = call[l]
    BY DEF Calling, NoCall, JobInv, JobTypeOK
  <1>4. RunHasClock' /\ AliveIsRunning' /\ RequestIsAsked' /\ ResultKept'
        /\ OnlyAskedRunsAreKilled'
    BY <1>1 DEF JobInv, RunHasClock, AliveIsRunning, RequestIsAsked, ResultKept,
                OnlyAskedRunsAreKilled
  <1>5. CallIsKnown'
    <2>1. CallIsKnown
      BY DEF JobInv
    <2>2. ASSUME NEW l \in Callers \ {k}
          PROVE  /\ call'[l].pc # "idle" => call'[l].task \in Tasks
                 /\ call'[l].pc = "send" =>
                      /\ call'[l].epoch <= task'[call'[l].task].epoch
                      /\ call'[l].epoch = task'[call'[l].task].epoch => task'[call'[l].task].asked
      BY <1>1, <1>3, <2>1 DEF CallIsKnown
    <2> QED
      BY <1>3, <2>2 DEF CallIsKnown
  <1> QED
    BY <1>2, <1>4, <1>5 DEF JobInv

\* beginRun of an object that does not run keeps the invariant.
LEMMA JobInvStart ==
  ASSUME JobInv, NEW t \in Tasks, NEW c \in Clocks, ~task[t].alive,
         task' = [task EXCEPT ![t] = beginRun(SetAssignment(@, c, "start"))],
         run' = [run EXCEPT ![t] = Launched(c)], UNCHANGED <<call, disk>>
  PROVE  JobInv'
  <1>0. task[t] \in TaskRecord /\ run[t].pc = "idle" /\ task[t].epoch \in Nat
    BY DEF JobInv, JobTypeOK, AliveIsRunning, TaskRecord
  <1> DEFINE r == SetAssignment(task[t], c, "start")
  <1>1. r \in TaskRecord /\ r.epoch = task[t].epoch
    BY <1>0, SetAssignmentType DEF Action, SetAssignment, TaskRecord
  <1>2. beginRun(r) \in TaskRecord
    BY <1>1, BeginRunType
  <1>3. /\ task'[t] = beginRun(r) /\ run'[t] = Launched(c)
        /\ \A u \in Tasks \ {t} : task'[u] = task[u] /\ run'[u] = run[u]
    BY DEF JobInv, JobTypeOK
  <1>4. JobTypeOK'
    BY <1>2, LaunchedType DEF JobInv, JobTypeOK
  <1>5. /\ task'[t].alive /\ task'[t].status = "running" /\ ~task'[t].requests
        /\ task'[t].epoch = task[t].epoch + 1
    BY <1>1, <1>3, BeginRunFields
  <1>6. run'[t].pc = "begun" /\ run'[t].clock = c /\ run'[t].status = "failed"
    BY <1>3, LaunchedFields
  <1> HIDE DEF r
  <1>7. RunHasClock' /\ AliveIsRunning' /\ RequestIsAsked' /\ OnlyAskedRunsAreKilled'
    <2>1. RunHasClock'
      BY <1>3, <1>6 DEF JobInv, RunHasClock, Unfinished
    <2>2. AliveIsRunning'
      BY <1>3, <1>5, <1>6 DEF JobInv, AliveIsRunning
    <2>3. RequestIsAsked'
      BY <1>3, <1>5, <1>6 DEF JobInv, RequestIsAsked, Finishing
    <2>4. OnlyAskedRunsAreKilled'
      BY <1>3, <1>5 DEF JobInv, OnlyAskedRunsAreKilled
    <2> QED
      BY <2>1, <2>2, <2>3, <2>4
  <1>8. CallIsKnown'
    BY <1>0, <1>3, <1>5, SMTT(30) DEF JobInv, CallIsKnown, JobTypeOK, CallRecord
  <1>9. ResultKept'
    BY <1>0, <1>3, <1>6 DEF JobInv, ResultKept
  <1> QED
    BY <1>4, <1>7, <1>8, <1>9 DEF JobInv

\* After a crash only the directory is left.
LEMMA JobInvCrash ==
  ASSUME JobInv, JobCrash
  PROVE  JobInv'
  <1>1. JobTypeOK'
    BY JobTypeCrash DEF JobInv
  <1>2. \A t \in Tasks : /\ task'[t].alive = FALSE /\ task'[t].requests = FALSE
                         /\ task'[t].epoch = 0 /\ run'[t].pc = "idle"
    BY DEF JobCrash, newTask, NoRun
  <1>3. RunHasClock' /\ AliveIsRunning' /\ ResultKept'
    BY <1>2 DEF RunHasClock, AliveIsRunning, ResultKept, Unfinished
  <1>4. RequestIsAsked' /\ OnlyAskedRunsAreKilled'
    BY <1>2 DEF RequestIsAsked, OnlyAskedRunsAreKilled, Finishing
  <1>5. CallIsKnown'
    BY DEF JobCrash, NoCall, CallIsKnown
  <1> QED
    BY <1>1, <1>3, <1>4, <1>5 DEF JobInv

----------------------------------------------------------------------------
(* The theorems *)

\* The invariant holds initially ...
LEMMA JobInvInit == JobInit => JobInv
  <1> SUFFICES ASSUME JobInit PROVE JobInv
    OBVIOUS
  <1>1. JobTypeOK
    BY JobTypeInit
  <1>2. \A t \in Tasks : /\ task[t].alive = FALSE /\ task[t].requests = FALSE
                         /\ task[t].epoch = 0 /\ run[t].pc = "idle"
    BY DEF JobInit, newTask, NoRun
  <1>3. \A k \in Callers : call[k].pc = "idle"
    BY DEF JobInit, NoCall
  <1>4. RunHasClock /\ AliveIsRunning /\ ResultKept
    BY <1>2 DEF RunHasClock, AliveIsRunning, ResultKept, Unfinished
  <1>5. RequestIsAsked /\ OnlyAskedRunsAreKilled /\ CallIsKnown
    BY <1>2, <1>3 DEF RequestIsAsked, OnlyAskedRunsAreKilled, CallIsKnown, Finishing
  <1> QED
    BY <1>1, <1>4, <1>5 DEF JobInv

\* ... and every step keeps it.
LEMMA JobInvNext == JobInv /\ [JobNext]_jobVars => JobInv'
  <1> SUFFICES ASSUME JobInv, [JobNext]_jobVars PROVE JobInv'
    OBVIOUS
  <1>1. ASSUME NEW t \in Tasks, RunStep(t) PROVE JobInv'
    BY <1>1, JobInvRun
  <1>2. ASSUME NEW t \in Tasks, NEW c \in Clocks, Start(t, c) PROVE JobInv'
    <2>1. ~task[t].alive
      BY <1>2 DEF Start
    <2> QED
      BY <1>2, <2>1, JobInvStart DEF Start
  <1>3. ASSUME NEW k \in Callers, NEW t \in Tasks, NEW c \in Clocks, Kill(k, t, c) PROVE JobInv'
    BY <1>3, JobInvCalling DEF Kill
  <1>4. ASSUME NEW k \in Callers, NEW t \in Tasks, Stop(k, t) PROVE JobInv'
    BY <1>4, JobInvCalling DEF Stop
  <1>5. ASSUME NEW k \in Callers, RequestLock(k) \/ RequestSend(k) PROVE JobInv'
    BY <1>5, JobInvRequest
  <1>6. CASE JobCrash
    BY <1>6, JobInvCrash
  <1>7. CASE UNCHANGED jobVars
    BY <1>7 DEF jobVars, JobInv, JobTypeOK, RunHasClock, AliveIsRunning, RequestIsAsked,
                CallIsKnown, OnlyAskedRunsAreKilled, ResultKept
  <1> QED
    BY <1>1, <1>2, <1>3, <1>4, <1>5, <1>6, <1>7 DEF JobNext, Environment

\* The inductive invariant of the job holds for any number of tasks, objects,
\* clocks and callers, whatever fails.
THEOREM JobInvariant == JobSpec => []JobInv
  BY JobInvInit, JobInvNext, PTL DEF JobSpec

\* In every instance, a run is shown as killing or killed only if that very run
\* was asked to terminate: late requests are lost with the channel of the run
\* they were meant for.
THEOREM OnlyAskedRunsAreKilledAlways == JobSpec => []OnlyAskedRunsAreKilled
  <1>1. JobInv => OnlyAskedRunsAreKilled
    BY DEF JobInv
  <1> QED
    BY <1>1, JobInvariant, PTL

\* In every instance, when nothing of an id runs any more, the result of each
\* run is on disk or was lost to a failed write.
THEOREM DoneMeansPersistedAlways == JobSpec => []DoneMeansPersisted
  <1>1. JobInv => DoneMeansPersisted
    <2> SUFFICES ASSUME JobInv, NEW t \in Tasks, task[t].epoch > 0,
                        \A u \in Tasks : IdOf(u) = IdOf(t) => ~task[u].alive
                 PROVE  \/ disk[IdOf(t)].done[run[t].clock] \in Final
                        \/ run[t].clock \in disk[IdOf(t)].lost
      BY DEF DoneMeansPersisted
    <2>1. \A u \in Tasks : IdOf(u) = IdOf(t) => run[u].pc = "idle"
      BY DEF JobInv, AliveIsRunning
    <2> QED
      BY <2>1 DEF JobInv, ResultKept
  <1> QED
    BY <1>1, JobInvariant, PTL

----------------------------------------------------------------------------
(* Every step is a step of the abstract job, or leaves it alone *)

\* statusFor returns a final status.
LEMMA StatusForType ==
  ASSUME NEW e, NEW b \in BOOLEAN
  PROVE  statusFor(e, b) \in Final
  BY DEF statusFor, Final

\* The steps of a run.  Two of them rest on the invariant: the handler takes a
\* request only while its run waits for it, and a run is decided as killed only
\* if the handler signalled, which it does only when asked.
LEMMA TaskStepRefines ==
  ASSUME TaskInv, NEW t \in Tasks, TaskStep(t)
  PROVE  RunStep(t) \/ UNCHANGED jobVars
  <1>1. CASE Prepare(t)
    BY <1>1 DEF Prepare, PrepareAgain, PrepareLocal, PrepareRemote, MetaReturns, WriteMetaFile,
                RunFails, RunStep
  <1>2. CASE Process(t)
    BY <1>2 DEF Process, ProcessWrites, Fork, DescendantsExit, Exit, RunStep
  <1>3. CASE Wait(t)
    <2>1. CASE Join(t)
      <3> DEFINE s == statusFor(proc[t].exit, handler[t].signaled)
      <3>1. s \in Final
        BY StatusForType DEF TaskInv, TaskTypeOK, HandlerRecord
      <3>2. s = "killed" => task[t].asked
        BY DEF statusFor, TaskInv, HandlerIsOwn
      <3> QED
        BY <2>1, <3>1, <3>2 DEF Join, Decide, RunStep
    <2> QED
      BY <1>3, <2>1 DEF Wait, StartCommand, Reap, WaitReturns, RunCompletes, RunStep
  <1>4. CASE handleTermination(t)
    <2>1. CASE HandlerTakes(t)
      <3>1. run[t].pc \in {"running", "completing"}
        BY <2>1 DEF HandlerTakes, TaskInv, HandlerIsOwn
      <3> QED
        BY <2>1, <3>1 DEF HandlerTakes, TakeRequest, RunStep
    <2> QED
      BY <1>4, <2>1 DEF handleTermination, HandlerStop, HandlerSignals, HandlerFails
  <1>5. CASE finalize(t) /\ UNCHANGED innerVars
    BY <1>5 DEF RunStep
  <1> QED
    BY <1>1, <1>2, <1>3, <1>4, <1>5 DEF TaskStep

\* Every step of the detailed specification is a step of the job or a stutter.
LEMMA TaskNextRefines == TaskInv /\ [TaskNext]_taskVars => [JobNext]_jobVars
  <1> SUFFICES ASSUME TaskInv, [TaskNext]_taskVars PROVE [JobNext]_jobVars
    OBVIOUS
  <1>1. ASSUME NEW t \in Tasks, TaskStep(t) PROVE [JobNext]_jobVars
    BY <1>1, TaskStepRefines DEF JobNext
  <1>2. ASSUME NEW t \in Tasks, NEW c \in Clocks, StartTask(t, c) PROVE JobNext
    BY <1>2 DEF StartTask, JobNext
  <1>3. CASE Environment /\ UNCHANGED innerVars
    BY <1>3 DEF JobNext
  <1>4. CASE TaskCrash
    BY <1>4 DEF TaskCrash, JobNext
  <1>5. CASE UNCHANGED taskVars
    BY <1>5 DEF taskVars
  <1> QED
    BY <1>1, <1>2, <1>3, <1>4, <1>5 DEF TaskNext

----------------------------------------------------------------------------
(* The invariant *)

\* The variables that a step of prepare() leaves alone; a failure moves the run
\* to finalize.
LEMMA PrepareKeeps ==
  ASSUME TaskInv, NEW t \in Tasks, Prepare(t), JobInv'
  PROVE  TaskInv'
  <1>0. /\ IdOf(t) \in Ids /\ prep[t] \in PrepRecord /\ run[t] \in RunRecord
        /\ run \in [Tasks -> RunRecord] /\ prep \in [Tasks -> PrepRecord]
        /\ files \in [Ids -> SUBSET MetaFiles]
    BY IdOfType DEF TaskInv, TaskTypeOK, JobTypeOK
  <1>1. /\ UNCHANGED <<task, proc, handler, call, disk>>
        /\ run[t].pc = "begun"
        /\ \A u \in Tasks \ {t} : run'[u] = run[u] /\ prep'[u] = prep[u]
        /\ run'[t] = run[t] \/ (run'[t].pc = "finalize" /\ run'[t].status = run[t].status)
    BY <1>0 DEF Prepare, PrepareAgain, PrepareLocal, PrepareRemote, MetaReturns, WriteMetaFile,
                RunFails, Fail, Goto, PrepGoto, Preparing, jobVars, RunRecord
  <1>2. handler[t].pc = "none"
    BY <1>1 DEF TaskInv, HandlerIsOwn
  <1>3. HandlerIsOwn' /\ NaturalCompletionKept'
    BY <1>1, <1>2 DEF TaskInv, HandlerIsOwn, NaturalCompletionKept
  <1>4. ProcessIsOwn'
    BY <1>1 DEF TaskInv, ProcessIsOwn
  <1>5. prep' \in [Tasks -> PrepRecord]
    <2>1. CASE WriteMetaFile(t)
      <3>1. CASE prep[t].next < 5
        <4>1. prep[t].next + 1 \in 1..5
          BY <1>0, <3>1 DEF PrepRecord
        <4>2. prep' = [prep EXCEPT ![t].next = @ + 1]
          BY <2>1, <3>1 DEF WriteMetaFile
        <4> QED
          BY <1>0, <4>1, <4>2 DEF PrepRecord
      <3>2. CASE ~(prep[t].next < 5)
        <4>1. [prep[t] EXCEPT !.pc = "done", !.prepared = TRUE] \in PrepRecord
          BY <1>0 DEF PrepRecord
        <4> QED
          BY <1>0, <2>1, <3>2, <4>1 DEF WriteMetaFile
      <3> QED
        BY <3>1, <3>2
    <2>2. CASE MetaReturns(t)
      <3>0. 1 \in 1..5
        OBVIOUS
      <3>1. [prep[t] EXCEPT !.pc = "write", !.next = 1] \in PrepRecord
        BY <1>0, <3>0 DEF PrepRecord
      <3> QED
        BY <1>0, <2>2, <3>1 DEF MetaReturns
    <2>3. CASE PrepareAgain(t) \/ RunFails(t) \/ PrepareRemote(t)
      <3>1. \A pc \in {"begin", "fetch", "write", "done"} : [prep[t] EXCEPT !.pc = pc] \in PrepRecord
        BY <1>0 DEF PrepRecord
      <3> QED
        BY <1>0, <2>3, <3>1 DEF PrepareAgain, PrepareRemote, RunFails, PrepGoto
    <2>4. CASE PrepareLocal(t)
      <3>1. [prep[t] EXCEPT !.pc = "done", !.prepared = TRUE] \in PrepRecord
        BY <1>0 DEF PrepRecord
      <3> QED
        BY <1>0, <2>4, <3>1 DEF PrepareLocal
    <2> QED
      BY <2>1, <2>2, <2>3, <2>4 DEF Prepare
  <1>6. CASE ~WriteMetaFile(t)
    <2>1. UNCHANGED files
      BY <1>6 DEF Prepare, PrepareAgain, PrepareLocal, PrepareRemote, MetaReturns, RunFails
    <2>2. Preparing(t, "write")' => prep'[t].next = 1
      BY <1>0, <1>6 DEF Prepare, PrepareAgain, PrepareLocal, PrepareRemote, MetaReturns, RunFails,
                        PrepGoto, Preparing, PrepRecord
    <2>3. FilesInOrder'
      BY <1>1, <2>1, <2>2 DEF TaskInv, FilesInOrder, Preparing
    <2> QED
      BY <1>1, <1>3, <1>4, <1>5, <2>1, <2>3 DEF TaskInv, TaskTypeOK, JobInv, WriteFlagCommits
  <1>7. CASE WriteMetaFile(t)
    <2> DEFINE n == prep[t].next
    <2>1. n \in 1..5 /\ FileToWrite(n) = MetaFile[n] /\ MetaFile[n] \in MetaFiles
      BY <1>0 DEF PrepRecord, FileToWrite, MetaFile, MetaFiles
    <2>2. /\ files'[IdOf(t)] = files[IdOf(t)] \cup {MetaFile[n]}
          /\ \A i \in Ids \ {IdOf(t)} : files'[i] = files[i]
          /\ files' \in [Ids -> SUBSET MetaFiles]
      BY <1>0, <1>7, <2>1 DEF WriteMetaFile
    <2>3. Preparing(t, "write") /\ \A m \in 1..5 : m < n => MetaFile[m] \in files[IdOf(t)]
      BY <1>7 DEF WriteMetaFile, TaskInv, FilesInOrder
    <2>4. Preparing(t, "write")' => prep'[t].next = n + 1
      BY <1>0, <1>7 DEF WriteMetaFile, Preparing, PrepRecord
    <2> HIDE DEF n
    <2>5. FilesInOrder'
      <3> SUFFICES ASSUME NEW u \in Tasks, Preparing(u, "write")', NEW m \in 1..5,
                          m < prep'[u].next
                   PROVE  MetaFile[m] \in files'[IdOf(u)]
        BY DEF FilesInOrder
      <3>1. CASE u = t
        BY <2>1, <2>2, <2>3, <2>4, <3>1
      <3>2. CASE u # t
        <4>1. Preparing(u, "write") /\ m < prep[u].next
          BY <1>1, <3>2 DEF Preparing
        <4>2. MetaFile[m] \in files[IdOf(u)] /\ IdOf(u) \in Ids
          BY <4>1, IdOfType DEF TaskInv, FilesInOrder
        <4> QED
          BY <2>2, <4>2
      <3> QED
        BY <3>1, <3>2
    <2>6. WriteFlagCommits'
      <3> SUFFICES ASSUME NEW i \in Ids, ".write" \in files'[i]
                   PROVE  MetaFiles \subseteq files'[i]
        BY DEF WriteFlagCommits
      <3>1. CASE ".write" \in files[i]
        BY <1>0, <2>2, <3>1 DEF TaskInv, WriteFlagCommits
      <3>2. CASE ".write" \notin files[i]
        <4>1. i = IdOf(t) /\ MetaFile[n] = ".write"
          BY <2>2, <3>2
        <4>2. n = 5
          BY <2>1, <4>1 DEF MetaFile
        <4>3. \A m \in {1, 2, 3, 4} : MetaFile[m] \in files[IdOf(t)]
          BY <2>3, <4>2
        <4> QED
          BY <2>2, <4>1, <4>3 DEF MetaFile, MetaFiles
      <3> QED
        BY <3>1, <3>2
    <2> QED
      BY <1>1, <1>3, <1>4, <1>5, <2>2, <2>5, <2>6 DEF TaskInv, TaskTypeOK, JobInv
  <1> QED
    BY <1>6, <1>7

\* The process moves, and no more than its own state and the output change.
LEMMA ProcessKeeps ==
  ASSUME TaskInv, NEW t \in Tasks, JobInv',
         Process(t) \/ Reap(t) \/ WaitReturns(t)
  PROVE  TaskInv'
  <1>0. proc[t] \in ProcRecord /\ proc \in [Tasks -> ProcRecord] /\ task[t] \in TaskRecord
        /\ task \in [Tasks -> TaskRecord]
    BY DEF TaskInv, TaskTypeOK, JobTypeOK
  <1>1. /\ UNCHANGED <<run, prep, files, handler, call, disk>>
        /\ \A u \in Tasks : task'[u].asked = task[u].asked
    <2>1. CASE ProcessWrites(t)
      BY <1>0, <2>1 DEF ProcessWrites, Write, innerVars, TaskRecord
    <2> QED
      BY <2>1 DEF Process, Fork, DescendantsExit, Exit, Reap, WaitReturns, jobVars
  <1>2. proc' \in [Tasks -> ProcRecord]
    <2>1. CASE Fork(t)
      <3>1. [proc[t] EXCEPT !.group = TRUE] \in ProcRecord
        BY <1>0 DEF ProcRecord
      <3> QED
        BY <1>0, <2>1, <3>1 DEF Fork
    <2>2. CASE DescendantsExit(t)
      <3>1. [proc[t] EXCEPT !.group = FALSE] \in ProcRecord
        BY <1>0 DEF ProcRecord
      <3> QED
        BY <1>0, <2>2, <3>1 DEF DescendantsExit
    <2>3. CASE Exit(t)
      <3>1. \A e \in {"zero", "nonzero", "signal"} :
              [proc[t] EXCEPT !.state = "zombie", !.exit = e] \in ProcRecord
        BY <1>0 DEF ProcRecord
      <3> QED
        BY <1>0, <2>3, <3>1 DEF Exit
    <2>4. CASE Reap(t) \/ WaitReturns(t)
      <3>1. \A s \in {"reaped", "waited"} : [proc[t] EXCEPT !.state = s] \in ProcRecord
        BY <1>0 DEF ProcRecord
      <3> QED
        BY <1>0, <2>4, <3>1 DEF Reap, WaitReturns
    <2> QED
      BY <1>0, <2>1, <2>2, <2>3, <2>4 DEF Process, ProcessWrites, innerVars
  <1>3. /\ \A u \in Tasks \ {t} : proc'[u] = proc[u]
        /\ proc'[t].exit = proc[t].exit \/ proc[t].state = "running"
        /\ proc'[t].state = proc[t].state \/ proc[t].state \in {"running", "zombie", "reaped"}
    BY <1>0 DEF Process, ProcessWrites, Fork, DescendantsExit, Exit, Reap, WaitReturns, innerVars,
                ProcRecord
  <1>4. proc[t].state \in {"running", "zombie", "reaped"} => run[t].pc = "running"
    BY DEF TaskInv, ProcessIsOwn
  <1>5. ProcessIsOwn'
    BY <1>1, <1>3, <1>4 DEF TaskInv, ProcessIsOwn
  <1>6. NaturalCompletionKept'
    BY <1>1, <1>3, <1>4 DEF TaskInv, NaturalCompletionKept
  <1>7. HandlerIsOwn' /\ FilesInOrder' /\ WriteFlagCommits'
    BY <1>1 DEF TaskInv, HandlerIsOwn, FilesInOrder, WriteFlagCommits, Preparing
  <1> QED
    BY <1>1, <1>2, <1>5, <1>6, <1>7 DEF TaskInv, TaskTypeOK, JobInv

\* The process is started, and the run completes.
LEMMA WaitKeeps ==
  ASSUME TaskInv, NEW t \in Tasks, JobInv', StartCommand(t) \/ RunCompletes(t)
  PROVE  TaskInv'
  <1>0. /\ task[t] \in TaskRecord /\ task \in [Tasks -> TaskRecord]
        /\ run[t] \in RunRecord /\ run \in [Tasks -> RunRecord]
        /\ proc \in [Tasks -> ProcRecord] /\ handler \in [Tasks -> HandlerRecord]
    BY DEF TaskInv, TaskTypeOK, JobTypeOK
  <1>1. /\ UNCHANGED <<prep, files>>
        /\ \A u \in Tasks \ {t} : run'[u] = run[u] /\ proc'[u] = proc[u] /\ handler'[u] = handler[u]
        /\ \A u \in Tasks : task'[u].asked = task[u].asked
    BY <1>0 DEF StartCommand, StartProcess, RunCompletes, Complete, Goto, innerVars, TaskRecord
  <1>2. CASE StartCommand(t)
    <2>1. /\ run'[t].pc = "running" /\ proc'[t].state = "running"
          /\ handler'[t].pc = "select" /\ handler'[t].signaled = FALSE
      BY <1>0, <1>2 DEF StartCommand, StartProcess, Goto, NoProc, NoHandler, RunRecord
    <2>2. proc' \in [Tasks -> ProcRecord] /\ handler' \in [Tasks -> HandlerRecord]
      BY <1>0, <1>2 DEF StartCommand, NoProc, NoHandler, ProcRecord, HandlerRecord
    <2>3. HandlerIsOwn' /\ ProcessIsOwn'
      BY <1>1, <2>1 DEF TaskInv, HandlerIsOwn, ProcessIsOwn
    <2>4. NaturalCompletionKept'
      BY <1>1, <2>1 DEF TaskInv, NaturalCompletionKept
    <2>5. FilesInOrder' /\ WriteFlagCommits'
      BY <1>1, <2>1 DEF TaskInv, FilesInOrder, WriteFlagCommits, Preparing
    <2> QED
      BY <1>1, <2>2, <2>3, <2>4, <2>5 DEF TaskInv, TaskTypeOK, JobInv
  <1>3. CASE RunCompletes(t)
    <2>1. /\ run[t].pc = "running" /\ run'[t].pc = "completing" /\ proc[t].state = "waited"
          /\ UNCHANGED <<proc, handler>>
      BY <1>0, <1>3 DEF RunCompletes, Complete, Goto, innerVars, RunRecord
    <2>2. HandlerIsOwn' /\ ProcessIsOwn'
      BY <1>1, <2>1 DEF TaskInv, HandlerIsOwn, ProcessIsOwn
    <2>3. NaturalCompletionKept'
      BY <1>1, <2>1 DEF TaskInv, NaturalCompletionKept
    <2>4. FilesInOrder' /\ WriteFlagCommits'
      BY <1>1, <2>1 DEF TaskInv, FilesInOrder, WriteFlagCommits, Preparing
    <2> QED
      BY <1>1, <2>1, <2>2, <2>3, <2>4 DEF TaskInv, TaskTypeOK, JobInv
  <1> QED
    BY <1>2, <1>3

\* The status is decided from the exit of the process and the handler's result.
LEMMA JoinKeeps ==
  ASSUME TaskInv, NEW t \in Tasks, JobInv', Join(t)
  PROVE  TaskInv'
  <1> DEFINE s == statusFor(proc[t].exit, handler[t].signaled)
  <1>0. /\ run[t] \in RunRecord /\ run \in [Tasks -> RunRecord]
        /\ proc[t] \in ProcRecord /\ proc \in [Tasks -> ProcRecord]
    BY DEF TaskInv, TaskTypeOK, JobTypeOK
  <1>1. /\ UNCHANGED <<task, prep, files, handler>> /\ handler[t].pc = "finished"
        /\ \A u \in Tasks \ {t} : run'[u] = run[u] /\ proc'[u] = proc[u]
        /\ run[t].pc = "completing" /\ run'[t].pc = "finalize" /\ run'[t].status = s
    BY <1>0 DEF Join, Decided, RunRecord
  <1>2. /\ proc' \in [Tasks -> ProcRecord]
        /\ proc'[t].state = proc[t].state /\ proc'[t].exit = proc[t].exit
    <2> DEFINE q == [proc[t] EXCEPT !.group = FALSE]
    <2>1. q \in ProcRecord /\ q.state = proc[t].state /\ q.exit = proc[t].exit
      BY <1>0 DEF ProcRecord
    <2>2. UNCHANGED proc \/ proc' = [proc EXCEPT ![t] = q]
      BY DEF Join
    <2> HIDE DEF q
    <2> QED
      BY <1>0, <2>1, <2>2
  <1>3. /\ s = "success" <=> proc[t].exit = "zero"
        /\ s = "killed" => proc[t].exit = "signal" /\ handler[t].signaled
    BY DEF statusFor
  <1> HIDE DEF s
  <1>4. HandlerIsOwn' /\ ProcessIsOwn'
    BY <1>1, <1>2 DEF TaskInv, HandlerIsOwn, ProcessIsOwn
  <1>5. NaturalCompletionKept'
    BY <1>1, <1>2, <1>3 DEF TaskInv, NaturalCompletionKept, HandlerIsOwn
  <1>6. FilesInOrder' /\ WriteFlagCommits'
    BY <1>1 DEF TaskInv, FilesInOrder, WriteFlagCommits, Preparing
  <1> QED
    BY <1>1, <1>2, <1>4, <1>5, <1>6 DEF TaskInv, TaskTypeOK, JobInv

\* handleTermination: only the handler and its process change, and the task's
\* status and request when a request is taken.
LEMMA HandlerKeeps ==
  ASSUME TaskInv, NEW t \in Tasks, JobInv', handleTermination(t)
  PROVE  TaskInv'
  <1>0. /\ task[t] \in TaskRecord /\ task \in [Tasks -> TaskRecord]
        /\ proc[t] \in ProcRecord /\ proc \in [Tasks -> ProcRecord]
        /\ handler[t] \in HandlerRecord /\ handler \in [Tasks -> HandlerRecord]
    BY DEF TaskInv, TaskTypeOK, JobTypeOK
  <1>1. handler[t].pc \in {"select", "signal"}
    BY DEF handleTermination, HandlerStop, HandlerTakes, HandlerSignals, HandlerFails
  <1>2. run[t].pc \in {"running", "completing"}
    BY <1>1 DEF TaskInv, HandlerIsOwn
  <1>3. /\ UNCHANGED <<run, prep, files>>
        /\ \A u \in Tasks : task'[u].asked = task[u].asked
    <2>1. CASE HandlerTakes(t)
      BY <1>0, <2>1 DEF HandlerTakes, SetKilling, TaskRecord
    <2> QED
      BY <2>1 DEF handleTermination, HandlerStop, HandlerSignals, HandlerFails, jobVars
  <1>4. Killed(proc[t]) \in ProcRecord
        /\ (proc[t].state # "running" => Killed(proc[t]).state = proc[t].state)
    <2>1. CASE proc[t].state = "running"
      BY <2>1 DEF Killed, ProcRecord
    <2>2. CASE proc[t].state # "running"
      BY <1>0, <2>2 DEF Killed, ProcRecord
    <2> QED
      BY <2>1, <2>2
  <1>5. /\ proc' \in [Tasks -> ProcRecord]
        /\ \A u \in Tasks \ {t} : proc'[u] = proc[u]
        /\ proc'[t] = proc[t] \/ proc'[t] = Killed(proc[t])
    BY <1>0, <1>4 DEF handleTermination, HandlerStop, HandlerTakes, HandlerSignals, HandlerFails
  <1>6. /\ handler' \in [Tasks -> HandlerRecord]
        /\ \A u \in Tasks \ {t} : handler'[u] = handler[u]
        /\ handler'[t].signaled = handler[t].signaled \/ handler[t].pc = "signal"
        /\ handler'[t].pc = "signal" => task[t].requests
    <2>1. CASE HandlerSignals(t)
      <3>1. [handler[t] EXCEPT !.pc = "finished", !.signaled = TRUE] \in HandlerRecord
        BY <1>0 DEF HandlerRecord
      <3> QED
        BY <1>0, <2>1, <3>1 DEF HandlerSignals, HandlerRecord
    <2>2. CASE HandlerFails(t)
      <3>1. GroupExists(t) \in BOOLEAN
        BY <1>0 DEF GroupExists, ProcRecord
      <3>2. PICK f \in BOOLEAN : handler' = [handler EXCEPT ![t].pc = "select", ![t].failed = f]
        BY <1>0, <2>2, <3>1 DEF HandlerFails, HandlerRecord
      <3>3. [handler[t] EXCEPT !.pc = "select", !.failed = f] \in HandlerRecord
        BY <1>0 DEF HandlerRecord
      <3> QED
        BY <1>0, <3>2, <3>3 DEF HandlerRecord
    <2>3. CASE HandlerStop(t) \/ HandlerTakes(t)
      <3>1. PICK pc \in {"signal", "finished"} :
              HandlerGoto(t, pc) /\ (pc = "signal" => task[t].requests)
        BY <2>3 DEF HandlerStop, HandlerTakes, SetKilling
      <3>2. [handler[t] EXCEPT !.pc = pc] \in HandlerRecord
        BY <1>0 DEF HandlerRecord
      <3> QED
        BY <1>0, <3>1, <3>2 DEF HandlerGoto, HandlerRecord
    <2> QED
      BY <2>1, <2>2, <2>3 DEF handleTermination
  <1>7. ProcessIsOwn'
    <2>1. proc[t].state = "running" => run[t].pc = "running"
      BY DEF TaskInv, ProcessIsOwn
    <2> QED
      BY <1>3, <1>4, <1>5, <2>1 DEF TaskInv, ProcessIsOwn
  <1>8. HandlerIsOwn'
    <2>1. task[t].requests => task[t].asked
      BY DEF TaskInv, JobInv, RequestIsAsked
    <2> QED
      BY <1>2, <1>3, <1>6, <2>1 DEF TaskInv, HandlerIsOwn
  <1>9. NaturalCompletionKept'
    <2>1. run'[t].pc \notin {"finalize", "flush", "persist", "record", "close"}
      BY <1>2, <1>3
    <2>2. \A u \in Tasks \ {t} :
            /\ run'[u] = run[u] /\ proc'[u] = proc[u] /\ handler'[u] = handler[u]
            /\ task'[u].asked = task[u].asked
      BY <1>3, <1>5, <1>6
    <2>3. NaturalCompletionKept
      BY DEF TaskInv
    <2> QED
      BY <2>1, <2>2, <2>3 DEF NaturalCompletionKept
  <1>10. FilesInOrder' /\ WriteFlagCommits'
    BY <1>3 DEF TaskInv, FilesInOrder, WriteFlagCommits, Preparing
  <1> QED
    BY <1>3, <1>5, <1>6, <1>7, <1>8, <1>9, <1>10 DEF TaskInv, TaskTypeOK, JobInv

\* finalize and the callers: the inside of the runs does not change, nor does
\* what the run has decided.
LEMMA OutsideKeeps ==
  ASSUME TaskInv, JobInv', UNCHANGED innerVars,
         Environment \/ \E t \in Tasks : finalize(t)
  PROVE  TaskInv'
  <1>0. /\ task \in [Tasks -> TaskRecord] /\ run \in [Tasks -> RunRecord]
    BY DEF TaskInv, TaskTypeOK, JobTypeOK
  <1>1. \A u \in Tasks : task[u].asked => task'[u].asked
    <2>1. ASSUME NEW t \in Tasks, finalize(t) PROVE \A u \in Tasks : task[u].asked => task'[u].asked
      <3>1. \/ UNCHANGED task
            \/ task' = [task EXCEPT ![t].status = run[t].status]
            \/ task' = [task EXCEPT ![t].alive = FALSE]
        BY <2>1 DEF finalize, SetFinalStatus, flushOutput, persistCreate, persistWrite, CloseDone
      <3>2. CASE task' = [task EXCEPT ![t].status = run[t].status]
        BY <1>0, <3>2 DEF TaskRecord
      <3>3. CASE task' = [task EXCEPT ![t].alive = FALSE]
        BY <1>0, <3>3 DEF TaskRecord
      <3> QED
        BY <3>1, <3>2, <3>3
    <2>2. ASSUME NEW k \in Callers, NEW t \in Tasks, NEW c \in Clocks, Kill(k, t, c)
          PROVE \A u \in Tasks : task[u].asked => task'[u].asked
      BY <1>0, <2>2 DEF Kill, SetAssignment, TaskRecord
    <2>3. ASSUME NEW k \in Callers, RequestLock(k)
          PROVE \A u \in Tasks : task[u].asked => task'[u].asked
      BY <1>0, <2>3 DEF RequestLock, TaskRecord
    <2>4. ASSUME NEW k \in Callers, RequestSend(k)
          PROVE \A u \in Tasks : task[u].asked => task'[u].asked
      BY <1>0, <2>4 DEF RequestSend, TaskRecord
    <2>5. ASSUME NEW k \in Callers, NEW t \in Tasks, Stop(k, t)
          PROVE \A u \in Tasks : task[u].asked => task'[u].asked
      BY <2>5 DEF Stop
    <2> QED
      BY <2>1, <2>2, <2>3, <2>4, <2>5 DEF Environment
  <1>2. \A u \in Tasks : \/ run'[u] = run[u]
                         \/ /\ run[u].pc \in Finishing /\ run'[u].pc \in Finishing \cup {"idle"}
                            /\ run'[u].status = run[u].status
    <2>1. CASE Environment
      BY <2>1 DEF Environment, Kill, Stop, RequestLock, RequestSend
    <2>2. ASSUME NEW t \in Tasks, finalize(t)
          PROVE  /\ run[t].pc \in Finishing
                 /\ \E pc \in Finishing \cup {"idle"} : Goto(t, pc)
      BY <2>2 DEF finalize, SetFinalStatus, flushOutput, persistCreate, persistWrite, CloseDone,
                  Finishing
    <2> QED
      BY <1>0, <2>1, <2>2 DEF Goto, RunRecord
  <1>3. HandlerIsOwn' /\ ProcessIsOwn'
    BY <1>1, <1>2 DEF TaskInv, HandlerIsOwn, ProcessIsOwn, innerVars, Finishing
  <1>4. NaturalCompletionKept'
    BY <1>1, <1>2 DEF TaskInv, NaturalCompletionKept, innerVars, Finishing
  <1>5. FilesInOrder' /\ WriteFlagCommits'
    BY <1>2 DEF TaskInv, FilesInOrder, WriteFlagCommits, Preparing, innerVars, Finishing
  <1> QED
    BY <1>3, <1>4, <1>5 DEF TaskInv, TaskTypeOK, JobInv, innerVars

\* A run begins with nothing of the run before it.
LEMMA StartKeeps ==
  ASSUME TaskInv, NEW t \in Tasks, NEW c \in Clocks, JobInv', StartTask(t, c)
  PROVE  TaskInv'
  <1>0. /\ task \in [Tasks -> TaskRecord] /\ run \in [Tasks -> RunRecord]
        /\ prep[t] \in PrepRecord /\ prep \in [Tasks -> PrepRecord]
        /\ proc \in [Tasks -> ProcRecord] /\ handler \in [Tasks -> HandlerRecord]
    BY DEF TaskInv, TaskTypeOK, JobTypeOK
  <1>1. /\ run'[t].pc = "begun" /\ prep'[t].pc = "begin" /\ UNCHANGED files
        /\ proc'[t] = NoProc /\ handler'[t] = NoHandler
        /\ \A u \in Tasks \ {t} : /\ run'[u] = run[u] /\ prep'[u] = prep[u] /\ task'[u] = task[u]
                                  /\ proc'[u] = proc[u] /\ handler'[u] = handler[u]
    BY <1>0 DEF StartTask, Start, Launched, NoRun, PrepGoto, PrepRecord
  <1>2. [prep[t] EXCEPT !.pc = "begin"] \in PrepRecord
    BY <1>0 DEF PrepRecord
  <1>3. prep' \in [Tasks -> PrepRecord]
    BY <1>0, <1>2 DEF StartTask, PrepGoto
  <1>4. proc' \in [Tasks -> ProcRecord] /\ handler' \in [Tasks -> HandlerRecord]
    BY <1>0 DEF StartTask, NoProc, NoHandler, ProcRecord, HandlerRecord
  <1>5. HandlerIsOwn' /\ ProcessIsOwn'
    <2>1. HandlerIsOwn /\ ProcessIsOwn
      BY DEF TaskInv
    <2>2. /\ handler'[t].pc = "none" /\ ~handler'[t].signaled
          /\ proc'[t].state = "none"
      BY <1>1 DEF NoProc, NoHandler
    <2>3. HandlerIsOwn'
      BY <1>1, <2>1, <2>2, SMTT(30) DEF HandlerIsOwn
    <2>4. ProcessIsOwn'
      BY <1>1, <2>1, <2>2 DEF ProcessIsOwn
    <2> QED
      BY <2>3, <2>4
  <1>6. NaturalCompletionKept'
    <2>1. NaturalCompletionKept
      BY DEF TaskInv
    <2> QED
      BY <1>1, <2>1 DEF NaturalCompletionKept
  <1>7. FilesInOrder' /\ WriteFlagCommits'
    BY <1>1 DEF TaskInv, FilesInOrder, WriteFlagCommits, Preparing
  <1> QED
    BY <1>1, <1>3, <1>4, <1>5, <1>6, <1>7 DEF TaskInv, TaskTypeOK, JobInv

\* Without goroutines and processes, only the files matter.
LEMMA EmptyKeeps ==
  ASSUME JobInv, files \in [Ids -> SUBSET MetaFiles], WriteFlagCommits,
         run = [t \in Tasks |-> NoRun], prep = [t \in Tasks |-> NoPrep],
         proc = [t \in Tasks |-> NoProc], handler = [t \in Tasks |-> NoHandler]
  PROVE  TaskInv
  <1>0. 1 \in 1..5
    OBVIOUS
  <1>1. TaskTypeOK
    BY <1>0 DEF TaskTypeOK, JobInv, NoPrep, NoProc, NoHandler, PrepRecord, ProcRecord, HandlerRecord
  <1>2. HandlerIsOwn /\ ProcessIsOwn /\ FilesInOrder /\ NaturalCompletionKept
    BY DEF HandlerIsOwn, ProcessIsOwn, FilesInOrder, NaturalCompletionKept, Preparing, NoRun,
           NoPrep, NoProc, NoHandler
  <1> QED
    BY <1>1, <1>2 DEF TaskInv

\* The invariant holds initially.
LEMMA TaskInvInit == TaskInit => TaskInv
  <1> SUFFICES ASSUME TaskInit PROVE TaskInv
    OBVIOUS
  <1>1. JobInv
    BY JobInvInit DEF TaskInit
  <1>2. files \in [Ids -> SUBSET MetaFiles] /\ WriteFlagCommits
    BY DEF TaskInit, WriteFlagCommits
  <1> QED
    BY <1>1, <1>2, EmptyKeeps DEF TaskInit, JobInit

\* Every step keeps the invariant.
LEMMA TaskInvNext == TaskInv /\ [TaskNext]_taskVars => TaskInv'
  <1> SUFFICES ASSUME TaskInv, [TaskNext]_taskVars PROVE TaskInv'
    OBVIOUS
  <1>0. JobInv'
    BY TaskNextRefines, JobInvNext DEF TaskInv
  <1>1. ASSUME NEW t \in Tasks, TaskStep(t) PROVE TaskInv'
    <2>1. CASE Wait(t)
      BY <1>0, <2>1, ProcessKeeps, WaitKeeps, JoinKeeps DEF Wait
    <2> QED
      BY <1>0, <1>1, <2>1, PrepareKeeps, ProcessKeeps, HandlerKeeps, OutsideKeeps DEF TaskStep
  <1>2. ASSUME NEW t \in Tasks, NEW c \in Clocks, StartTask(t, c) PROVE TaskInv'
    BY <1>0, <1>2, StartKeeps
  <1>3. CASE Environment /\ UNCHANGED innerVars
    BY <1>0, <1>3, OutsideKeeps
  <1>4. CASE TaskCrash
    <2>1. /\ JobInv' /\ files' \in [Ids -> SUBSET MetaFiles] /\ WriteFlagCommits'
          /\ run' = [t \in Tasks |-> NoRun] /\ prep' = [t \in Tasks |-> NoPrep]
          /\ proc' = [t \in Tasks |-> NoProc] /\ handler' = [t \in Tasks |-> NoHandler]
      BY <1>0, <1>4 DEF TaskCrash, JobCrash, TaskInv, TaskTypeOK, WriteFlagCommits
    <2>2. TaskTypeOK'
      <3>0. 1 \in 1..5
        OBVIOUS
      <3> QED
        BY <2>1, <3>0 DEF TaskTypeOK, JobInv, NoPrep, NoProc, NoHandler, PrepRecord, ProcRecord,
                          HandlerRecord
    <2>3. HandlerIsOwn' /\ ProcessIsOwn' /\ FilesInOrder' /\ NaturalCompletionKept'
      BY <2>1 DEF HandlerIsOwn, ProcessIsOwn, FilesInOrder, NaturalCompletionKept, Preparing, NoRun,
                  NoPrep, NoProc, NoHandler
    <2> QED
      BY <2>1, <2>2, <2>3 DEF TaskInv
  <1>5. CASE UNCHANGED taskVars
    BY <1>0, <1>5 DEF taskVars, innerVars, jobVars, TaskInv, TaskTypeOK, JobInv, HandlerIsOwn,
                      ProcessIsOwn, FilesInOrder, NaturalCompletionKept, WriteFlagCommits, Preparing
  <1> QED
    BY <1>1, <1>2, <1>3, <1>4, <1>5 DEF TaskNext

----------------------------------------------------------------------------
(* The theorems *)

\* The inductive invariant of a run holds for any number of tasks, objects,
\* clocks and callers, whatever fails.
THEOREM TaskInvariant == TaskSpec => []TaskInv
  BY TaskInvInit, TaskInvNext, PTL DEF TaskSpec

\* Type correctness of the run.
THEOREM TaskTypeOKAlways == TaskSpec => []TaskTypeOK
  <1>1. TaskInv => TaskTypeOK
    BY DEF TaskInv
  <1> QED
    BY <1>1, TaskInvariant, PTL

\* A request never overrides the way the process really ended (statusFor, and
\* the join of the handler before it).
THEOREM NaturalCompletionKeptAlways == TaskSpec => []NaturalCompletionKept
  <1>1. TaskInv => NaturalCompletionKept
    BY DEF TaskInv
  <1> QED
    BY <1>1, TaskInvariant, PTL

\* The .write flag commits the directory, whenever the agent dies.
THEOREM WriteFlagCommitsAlways == TaskSpec => []WriteFlagCommits
  <1>1. TaskInv => WriteFlagCommits
    BY DEF TaskInv
  <1> QED
    BY <1>1, TaskInvariant, PTL

\* No handler goroutine outlives its run.
THEOREM NoHandlerAfterRunAlways == TaskSpec => []NoHandlerAfterRun
  <1>1. TaskInv => NoHandlerAfterRun
    BY DEF TaskInv, TaskTypeOK, HandlerRecord, HandlerIsOwn, JobInv, AliveIsRunning,
           NoHandlerAfterRun
  <1> QED
    BY <1>1, TaskInvariant, PTL

\* The detailed run implements the abstract job: what LocalTasksT and the
\* heartbeat see of ibex/task.go is what IbexJob allows.
THEOREM TaskImplementsJob == TaskSpec => ImplementsJob
  <1>1. TaskInit => JobInit
    BY DEF TaskInit
  <1> QED
    BY <1>1, TaskInvariant, TaskNextRefines, PTL DEF TaskSpec, ImplementsJob, JobSpec
============================================================================
