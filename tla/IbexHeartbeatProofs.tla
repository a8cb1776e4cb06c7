------------------------ MODULE IbexHeartbeatProofs ------------------------
(***************************************************************************)
(* Proofs about the ibex agent (module IbexHeartbeat): the invariant of    *)
(* the task objects, the types, the table of the tasks, the report, the    *)
(* shutdown, the order in which assignments are applied, and the theorems. *)
(*                                                                         *)
(* The inductive invariant HeartbeatInv has four parts: the table and the  *)
(* objects in it, the shutdown, the report, and the order in which         *)
(* assignments are applied.  Each part has a lemma for the steps that      *)
(* leave it alone, and one for each action that does not.                  *)
(***************************************************************************)
EXTENDS IbexHeartbeat, IbexTaskProofs

\* The provers, in the order in which they are tried.
USE ZenonT(2), SMTT(30), ZenonT(60)

----------------------------------------------------------------------------
(* The objects: what the steps of the table do to the invariant of IbexJob *)

\* An object is not NoTask, and the id of an object is an id.
LEMMA TaskFacts == \A t \in Tasks : t # NoTask /\ IdOf(t) \in Ids
  BY JobAssumption, IdOfType DEF Tasks

\* Main and the heartbeats are different callers.
LEMMA CallerFacts == Main \notin Gens /\ Main \in Callers /\ Gens \subseteq Callers
  BY HeartbeatAssumption

\* A step that leaves the objects alone keeps their invariant.
LEMMA JobSame ==
  ASSUME JobInv, UNCHANGED jobVars
  PROVE  JobInv'
  BY DEF jobVars, JobInv, JobTypeOK, RunHasClock, AliveIsRunning, RequestIsAsked,
         CallIsKnown, OnlyAskedRunsAreKilled, ResultKept

\* An object that AssignTask makes and runs.
LEMMA BegunFields ==
  ASSUME NEW c \in Clocks, NEW r, r = beginRun(newTask(c, "start"))
  PROVE  /\ r \in TaskRecord /\ r.alive /\ r.epoch = 1 /\ ~r.requests
         /\ r.clock = c /\ r.action = "start" /\ r.status = "running"
         /\ ~r.asked /\ ~r.completing
  <1> DEFINE n == newTask(c, "start")
  <1>1. n \in TaskRecord
    BY NewTaskType DEF Action
  <1>2. n.epoch = 0 /\ n.clock = c /\ n.action = "start"
    BY DEF newTask
  <1>r. r = beginRun(n)
    OBVIOUS
  <1> HIDE DEF n
  <1>3. r.clock = n.clock /\ r.action = n.action
    BY <1>1, <1>r DEF beginRun, TaskRecord
  <1>4. r.epoch = n.epoch + 1
    BY <1>1, <1>r, BeginRunFields
  <1>5. r.epoch = 1
    BY <1>2, <1>4
  <1>6. /\ r \in TaskRecord /\ r.alive /\ ~r.requests /\ r.status = "running"
        /\ ~r.asked /\ ~r.completing
    BY <1>1, <1>r, BeginRunType, BeginRunFields
  <1> QED
    BY <1>2, <1>3, <1>5, <1>6

\* The status that loadResult gives an object is a status.
LEMMA LoadedStatusType ==
  ASSUME JobTypeOK, NEW i \in Ids, NEW c \in Clocks, doneBefore(i, c)
  PROVE  LoadedStatus(i, c) \in Status
  <1>1. disk[i].done[c] \in Final \cup {"none", "empty"}
    BY DEF JobTypeOK, DirRecord
  <1> QED
    BY <1>1 DEF doneBefore, LoadedStatus, Status

\* A new object in place of one that nobody refers to.
LEMMA JobInvNew ==
  ASSUME JobInv, NEW t \in Tasks, NEW c \in Clocks, NEW r \in TaskRecord, NEW q \in RunRecord,
         run[t].pc = "idle", \A k \in Callers : call[k].task # t,
         task' = [task EXCEPT ![t] = r], run' = [run EXCEPT ![t] = q], UNCHANGED <<call, disk>>,
         ~r.requests,
         \/ ~r.alive /\ r.epoch = 0 /\ q = NoRun
         \/ r.alive /\ r.status = "running" /\ r.epoch = 1 /\ q = Launched(c)
  PROVE  JobInv'
  <1>1. /\ task'[t] = r /\ run'[t] = q
        /\ \A u \in Tasks \ {t} : task'[u] = task[u] /\ run'[u] = run[u]
    BY DEF JobInv, JobTypeOK
  <1>2. JobTypeOK'
    BY DEF JobInv, JobTypeOK
  <1>3. \/ ~r.alive /\ r.epoch = 0 /\ q.pc = "idle"
        \/ r.alive /\ r.status = "running" /\ r.epoch = 1
           /\ q.pc = "begun" /\ q.clock = c /\ q.status = "failed"
    BY LaunchedFields DEF NoRun
  <1>4. RunHasClock'
    BY <1>1, <1>3 DEF JobInv, RunHasClock, Unfinished
  <1>5. AliveIsRunning'
    BY <1>1, <1>3 DEF JobInv, AliveIsRunning
  <1>6. RequestIsAsked'
    BY <1>1, <1>3 DEF JobInv, RequestIsAsked, Finishing
  <1>7. OnlyAskedRunsAreKilled'
    BY <1>1, <1>3 DEF JobInv, OnlyAskedRunsAreKilled
  <1>8. CallIsKnown'
    BY <1>1 DEF JobInv, CallIsKnown
  <1>9. ResultKept'
    BY <1>1, <1>3 DEF JobInv, ResultKept
  <1> QED
    BY <1>2, <1>4, <1>5, <1>6, <1>7, <1>8, <1>9 DEF JobInv

\* What Clean does to the objects: it drops the output of those it forgets.
LEMMA CleanFields ==
  ASSUME JobTypeOK, NEW s, Clean(s)
  PROVE  /\ task' \in [Tasks -> TaskRecord]
         /\ \A u \in Tasks :
              /\ task'[u].alive = task[u].alive /\ task'[u].epoch = task[u].epoch
              /\ task'[u].status = task[u].status /\ task'[u].asked = task[u].asked
              /\ task'[u].requests = task[u].requests /\ task'[u].clock = task[u].clock
              /\ task'[u].action = task[u].action /\ task'[u].completing = task[u].completing
  <1> DEFINE r(u) == [task[u] EXCEPT !.stdout = 0]
  <1>1. \A u \in Tasks : task[u] \in TaskRecord
    BY DEF JobTypeOK
  <1>2. ASSUME NEW u \in Tasks
        PROVE  /\ r(u) \in TaskRecord
               /\ r(u).alive = task[u].alive /\ r(u).epoch = task[u].epoch
               /\ r(u).status = task[u].status /\ r(u).asked = task[u].asked
               /\ r(u).requests = task[u].requests /\ r(u).clock = task[u].clock
               /\ r(u).action = task[u].action /\ r(u).completing = task[u].completing
    BY <1>1 DEF TaskRecord
  <1>3. \A u \in Tasks : task'[u] = task[u] \/ task'[u] = r(u)
    BY DEF Clean
  <1> HIDE DEF r
  <1>4. \A u \in Tasks : task'[u] \in TaskRecord
    BY <1>1, <1>2, <1>3
  <1>5. task' \in [Tasks -> TaskRecord]
    BY <1>4 DEF Clean
  <1> QED
    BY <1>2, <1>3, <1>5

\* Clean keeps the invariant of the objects.
LEMMA JobInvClean ==
  ASSUME JobInv, NEW s, Clean(s)
  PROVE  JobInv'
  <1>1. /\ task' \in [Tasks -> TaskRecord] /\ run' = run /\ call' = call /\ disk' = disk
        /\ \A u \in Tasks :
              /\ task'[u].alive = task[u].alive /\ task'[u].epoch = task[u].epoch
              /\ task'[u].status = task[u].status /\ task'[u].asked = task[u].asked
              /\ task'[u].requests = task[u].requests
    BY CleanFields DEF JobInv, Clean
  <1>2. RunHasClock' /\ AliveIsRunning' /\ RequestIsAsked'
    BY <1>1 DEF JobInv, RunHasClock, AliveIsRunning, RequestIsAsked
  <1>3. CallIsKnown'
    BY <1>1 DEF JobInv, CallIsKnown
  <1>4. OnlyAskedRunsAreKilled' /\ ResultKept'
    BY <1>1 DEF JobInv, OnlyAskedRunsAreKilled, ResultKept
  <1> QED
    BY <1>1, <1>2, <1>3, <1>4 DEF JobInv, JobTypeOK

----------------------------------------------------------------------------
(* Type correctness of the agent *)

\* The part of TypeOK that is not about the objects.
AgentTypeOK ==
  /\ M \in [Ids -> Tasks \cup {NoTask}]
  /\ accepting \in BOOLEAN
  /\ stopAll \in [tasks : SUBSET Tasks, done : SUBSET (Tasks \X Nat)]
  /\ hb \in [Gens -> BeatRecord]
  /\ cancelled \subseteq Gens
  /\ main \in [pc : {"down", "up", "cancelled", "stopAll", "join"},
               gen : Gens \cup {0}, timedOut : BOOLEAN, overlap : BOOLEAN]
  /\ server \in [Ids -> [clock : Clocks \cup {0}, action : Action]]
  /\ crashes \in 0..MaxCrashes

\* A goroutine that does not run, or waits, has the type of a heartbeat.
LEMMA NoBeatType == NoBeat \in BeatRecord /\ Waiting \in BeatRecord
  BY DEF NoBeat, Waiting, BeatRecord, Status

\* So do its next states.
LEMMA BeatType ==
  ASSUME NEW b \in BeatRecord
  PROVE  /\ \A s \in SUBSET Tasks : [NoBeat EXCEPT !.pc = "report", !.snap = s] \in BeatRecord
         /\ \A t \in Tasks, x \in Status, pc \in {"report", "output"} :
              [b EXCEPT !.pc = pc, !.snap = @ \ {t}, !.cur = t, !.status = x] \in BeatRecord
         /\ [b EXCEPT !.pc = "report", !.cur = NoTask, !.status = ""] \in BeatRecord
         /\ [b EXCEPT !.pc = "call", !.cur = NoTask] \in BeatRecord
         /\ \A s \in SUBSET Assignments : [NoBeat EXCEPT !.pc = "assign", !.todo = s] \in BeatRecord
         /\ \A at \in Assignments :
              [b EXCEPT !.todo = @ \ {at}, !.assigned = @ \cup {at.id}] \in BeatRecord
  <1>0. "" \in Status
    BY DEF Status
  <1>1. ASSUME NEW s \in SUBSET Tasks
        PROVE  [NoBeat EXCEPT !.pc = "report", !.snap = s] \in BeatRecord
    BY <1>0 DEF NoBeat, BeatRecord
  <1>2. ASSUME NEW t \in Tasks, NEW x \in Status, NEW pc \in {"report", "output"}
        PROVE  [b EXCEPT !.pc = pc, !.snap = @ \ {t}, !.cur = t, !.status = x] \in BeatRecord
    BY DEF BeatRecord
  <1>3. /\ [b EXCEPT !.pc = "report", !.cur = NoTask, !.status = ""] \in BeatRecord
        /\ [b EXCEPT !.pc = "call", !.cur = NoTask] \in BeatRecord
    BY <1>0 DEF BeatRecord
  <1>4. ASSUME NEW s \in SUBSET Assignments
        PROVE  [NoBeat EXCEPT !.pc = "assign", !.todo = s] \in BeatRecord
    BY <1>0 DEF NoBeat, BeatRecord
  <1>5. ASSUME NEW at \in Assignments
        PROVE  [b EXCEPT !.todo = @ \ {at}, !.assigned = @ \cup {at.id}] \in BeatRecord
    BY DEF BeatRecord, Assignments
  <1> QED
    BY <1>1, <1>2, <1>3, <1>4, <1>5

\* The server holds assignments.
LEMMA CurrentType ==
  ASSUME AgentTypeOK
  PROVE  /\ Current \subseteq Assignments
         /\ \A at \in Current : /\ at.id \in Ids
                                /\ at.clock = server[at.id].clock
                                /\ at.action = server[at.id].action
  <1>1. ASSUME NEW i \in Ids, server[i].clock > 0
        PROVE  [id |-> i, clock |-> server[i].clock, action |-> server[i].action] \in Assignments
    <2>1. server[i].clock \in Clocks \cup {0} /\ server[i].action \in Action
      BY DEF AgentTypeOK
    <2>2. server[i].clock \in Clocks
      BY <1>1, <2>1
    <2> QED
      BY <2>1, <2>2 DEF Assignments
  <1> QED
    BY <1>1 DEF Current

\* A step of a heartbeat goroutine keeps the type of the heartbeats.
LEMMA BeatStepType ==
  ASSUME AgentTypeOK, JobTypeOK, NEW g \in Gens,
         \/ Quit(g) \/ Tick(g) \/ ReportStatus(g) \/ ReportOutput(g)
         \/ CallBegins(g) \/ CallFails(g) \/ CallReturns(g) \/ Assign(g) \/ CleanUp(g)
  PROVE  hb' \in [Gens -> BeatRecord]
  <1>0. hb \in [Gens -> BeatRecord] /\ hb[g] \in BeatRecord
    BY DEF AgentTypeOK
  <1>1. ASSUME NEW b \in BeatRecord, hb' = [hb EXCEPT ![g] = b] PROVE hb' \in [Gens -> BeatRecord]
    BY <1>0, <1>1
  <1>2. CASE Quit(g) \/ CallFails(g) \/ CleanUp(g)
    BY <1>1, <1>2, NoBeatType DEF Quit, CallFails, CleanUp
  <1>3. CASE Tick(g)
    <2>1. {t \in Tasks : Listed(t)} \in SUBSET Tasks
      OBVIOUS
    <2> QED
      BY <1>0, <1>1, <1>3, <2>1, BeatType DEF Tick
  <1>4. CASE ReportStatus(g)
    <2>1. PICK t \in hb[g].snap :
            hb' = [hb EXCEPT ![g].pc = IF task[t].status = "killing" THEN "report" ELSE "output",
                             ![g].snap = @ \ {t}, ![g].cur = t, ![g].status = task[t].status]
      BY <1>4 DEF ReportStatus
    <2>2. t \in Tasks /\ task[t].status \in Status
      BY <1>0 DEF BeatRecord, JobTypeOK, TaskRecord
    <2> DEFINE pc == IF task[t].status = "killing" THEN "report" ELSE "output"
    <2>3. pc \in {"report", "output"}
      OBVIOUS
    <2>4. hb' = [hb EXCEPT ![g] = [hb[g] EXCEPT !.pc = pc, !.snap = hb[g].snap \ {t}, !.cur = t,
                                                !.status = task[t].status]]
      BY <1>0, <2>1
    <2>5. [hb[g] EXCEPT !.pc = pc, !.snap = @ \ {t}, !.cur = t, !.status = task[t].status]
            \in BeatRecord
      BY <1>0, <2>2, <2>3, BeatType
    <2> QED
      BY <1>0, <2>4, <2>5
  <1>5. CASE ReportOutput(g)
    <2>1. [hb[g] EXCEPT !.pc = "report", !.cur = NoTask, !.status = ""] \in BeatRecord
      BY <1>0, BeatType
    <2>2. hb' = [hb EXCEPT ![g] = [@ EXCEPT !.pc = "report", !.cur = NoTask, !.status = ""]]
      BY <1>0, <1>5 DEF ReportOutput
    <2> QED
      BY <1>0, <2>1, <2>2
  <1>6. CASE CallBegins(g)
    <2>1. [hb[g] EXCEPT !.pc = "call", !.cur = NoTask] \in BeatRecord
      BY <1>0, BeatType
    <2>2. hb' = [hb EXCEPT ![g] = [@ EXCEPT !.pc = "call", !.cur = NoTask]]
      BY <1>0, <1>6 DEF CallBegins
    <2> QED
      BY <1>0, <2>1, <2>2
  <1>7. CASE CallReturns(g)
    BY <1>0, <1>1, <1>7, BeatType, CurrentType DEF CallReturns
  <1>8. CASE Assign(g)
    <2>1. PICK at \in hb[g].todo :
            hb' = [hb EXCEPT ![g].todo = @ \ {at}, ![g].assigned = @ \cup {at.id}]
      BY <1>8 DEF Assign
    <2>2. at \in Assignments
      BY <1>0 DEF BeatRecord
    <2>3. [hb[g] EXCEPT !.todo = @ \ {at}, !.assigned = @ \cup {at.id}] \in BeatRecord
      BY <1>0, <2>2, BeatType
    <2> QED
      BY <1>0, <2>1, <2>3
  <1> QED
    BY <1>2, <1>3, <1>4, <1>5, <1>6, <1>7, <1>8, Zenon

\* The critical sections on the table keep its type.
LEMMA TableStepType ==
  ASSUME AgentTypeOK,
         \/ UNCHANGED M
         \/ \E t \in Tasks, at \in Assignments : AssignNew(t, at)
         \/ \E s : Clean(s)
         \/ M' = [i \in Ids |-> NoTask]
  PROVE  M' \in [Ids -> Tasks \cup {NoTask}]
  <1>0. M \in [Ids -> Tasks \cup {NoTask}]
    BY DEF AgentTypeOK
  <1>1. ASSUME NEW t \in Tasks, NEW at \in Assignments, AssignNew(t, at)
        PROVE  M' \in [Ids -> Tasks \cup {NoTask}]
    <2>1. at.id \in Ids /\ M' = [M EXCEPT ![at.id] = t]
      BY <1>1 DEF AssignNew, Assignments
    <2> QED
      BY <1>0, <2>1
  <1>2. ASSUME NEW s, Clean(s) PROVE M' \in [Ids -> Tasks \cup {NoTask}]
    BY <1>0, <1>2 DEF Clean
  <1> QED
    BY <1>0, <1>1, <1>2

\* Every step of the agent keeps the types.
LEMMA AgentTypeNext ==
  ASSUME AgentTypeOK, JobTypeOK, CallIsKnown, BeatsAreKnown, Next
  PROVE  AgentTypeOK'
  <1>0. /\ M \in [Ids -> Tasks \cup {NoTask}] /\ accepting \in BOOLEAN
        /\ stopAll \in [tasks : SUBSET Tasks, done : SUBSET (Tasks \X Nat)]
        /\ hb \in [Gens -> BeatRecord] /\ cancelled \subseteq Gens
        /\ main \in [pc : {"down", "up", "cancelled", "stopAll", "join"},
                     gen : Gens \cup {0}, timedOut : BOOLEAN, overlap : BOOLEAN]
        /\ server \in [Ids -> [clock : Clocks \cup {0}, action : Action]]
        /\ crashes \in 0..MaxCrashes
    BY DEF AgentTypeOK
  <1>n. NoStop \in [tasks : SUBSET Tasks, done : SUBSET (Tasks \X Nat)]
    BY DEF NoStop
  <1>1. ASSUME NEW t \in Tasks, RunStep(t), UNCHANGED <<localsVars, hb, lifecycleVars>>
        PROVE  AgentTypeOK'
    BY <1>0, <1>1 DEF AgentTypeOK, localsVars, lifecycleVars
  <1>2. ASSUME NEW i \in Ids, ServerAssigns(i) PROVE AgentTypeOK'
    <2>1. server' \in [Ids -> [clock : Clocks \cup {0}, action : Action]]
      BY <1>0, <1>2 DEF ServerAssigns
    <2> QED
      BY <1>0, <1>2, <2>1 DEF AgentTypeOK, ServerAssigns, localsVars
  <1>3. ASSUME NEW g \in Gens,
               \/ Quit(g) \/ Tick(g) \/ ReportStatus(g) \/ ReportOutput(g)
               \/ CallBegins(g) \/ CallFails(g) \/ CallReturns(g)
        PROVE  AgentTypeOK'
    <2>1. UNCHANGED <<localsVars, lifecycleVars>>
      BY <1>3 DEF Quit, Tick, ReportStatus, ReportOutput, CallBegins, CallFails, CallReturns
    <2>2. hb' \in [Gens -> BeatRecord]
      BY <1>3, BeatStepType
    <2> QED
      BY <1>0, <2>1, <2>2 DEF AgentTypeOK, localsVars, lifecycleVars
  <1>4. ASSUME NEW g \in Gens, Assign(g) PROVE AgentTypeOK'
    <2>1. hb' \in [Gens -> BeatRecord]
      BY <1>4, BeatStepType
    <2>2. PICK at \in hb[g].todo :
            \/ UNCHANGED M
            \/ \E t \in Tasks : AssignNew(t, at)
      BY <1>4 DEF Assign, AssignKill, AssignStart
    <2>3. at \in Assignments
      BY <1>0 DEF BeatRecord
    <2>4. M' \in [Ids -> Tasks \cup {NoTask}]
      BY <2>2, <2>3, TableStepType
    <2> QED
      BY <1>0, <1>4, <2>1, <2>4 DEF Assign, AgentTypeOK, lifecycleVars
  <1>5. ASSUME NEW g \in Gens, AssignKills(g) PROVE AgentTypeOK'
    BY <1>0, <1>5 DEF AssignKills, AgentTypeOK, localsVars, lifecycleVars
  <1>6. ASSUME NEW g \in Gens, CleanUp(g) PROVE AgentTypeOK'
    <2>1. hb' \in [Gens -> BeatRecord]
      BY <1>6, BeatStepType
    <2>2. M' \in [Ids -> Tasks \cup {NoTask}] /\ UNCHANGED <<accepting, stopAll>>
      BY <1>6, TableStepType DEF CleanUp, Clean
    <2> QED
      BY <1>0, <1>6, <2>1, <2>2 DEF CleanUp, AgentTypeOK, lifecycleVars
  <1>7. CASE Start_
    <2>1. main.gen + 1 \in Gens
      BY <1>0, <1>7, HeartbeatAssumption DEF Start_, Gens
    <2>2. hb' \in [Gens -> BeatRecord]
      BY <1>0, <1>7, <2>1, NoBeatType DEF Start_
    <2>3. /\ main'.pc \in {"down", "up", "cancelled", "stopAll", "join"}
          /\ main'.gen \in Gens \cup {0}
      BY <1>7, <2>1 DEF Start_
    <2>4. main' \in [pc : {"down", "up", "cancelled", "stopAll", "join"},
                     gen : Gens \cup {0}, timedOut : BOOLEAN, overlap : BOOLEAN]
      BY <1>0, <1>7, <2>1 DEF Start_
    <2> QED
      BY <1>0, <1>n, <1>7, <2>2, <2>4 DEF Start_, AgentTypeOK
  <1>8. CASE StopCancels
    <2>1. main.gen \in Gens
      BY <1>8 DEF StopCancels, BeatsAreKnown
    <2> QED
      BY <1>0, <1>8, <2>1 DEF StopCancels, AgentTypeOK, localsVars
  <1>9. CASE StopLocks
    BY <1>0, <1>9 DEF StopLocks, StopAllBegin, NoStop, AgentTypeOK
  <1>10. CASE StopRequests
    <2>1. stopAll' \in [tasks : SUBSET Tasks, done : SUBSET (Tasks \X Nat)]
      <3>1. ASSUME NEW t \in Tasks, StopAllNext(t)
            PROVE  stopAll' \in [tasks : SUBSET Tasks, done : SUBSET (Tasks \X Nat)]
        BY <1>0, <3>1 DEF StopAllNext
      <3>2. CASE StopAllLock
        <4>1. call[Main].task \in Tasks /\ task[call[Main].task].epoch \in Nat
          BY <3>2, CallerFacts DEF StopAllLock, RequestLock, CallIsKnown, JobTypeOK, TaskRecord
        <4> QED
          BY <1>0, <3>2, <4>1 DEF StopAllLock
      <3>3. CASE UNCHANGED localsVars
        BY <1>0, <3>3 DEF localsVars
      <3> QED
        BY <1>10, <3>1, <3>2, <3>3 DEF StopRequests
    <2>2. UNCHANGED <<M, accepting, hb, cancelled, main, server, crashes>>
      BY <1>10 DEF StopRequests, StopAllNext, StopAllLock, localsVars
    <2> QED
      BY <1>0, <2>1, <2>2 DEF AgentTypeOK
  <1>11. CASE StopTasksDone \/ StopTasksTimeout \/ StopJoins \/ StopJoinTimeout
    <2>1. /\ main' \in [pc : {"down", "up", "cancelled", "stopAll", "join"},
                        gen : Gens \cup {0}, timedOut : BOOLEAN, overlap : BOOLEAN]
          /\ UNCHANGED <<localsVars, hb, cancelled, server, crashes>>
      BY <1>0, <1>11 DEF StopTasksDone, StopTasksTimeout, StopJoins, StopJoinTimeout
    <2> QED
      BY <1>0, <2>1 DEF AgentTypeOK, localsVars
  <1>12. CASE Crash
    <2>1. M' \in [Ids -> Tasks \cup {NoTask}] /\ hb' \in [Gens -> BeatRecord]
      BY <1>12, NoBeatType DEF Crash
    <2>2. crashes' \in 0..MaxCrashes
      BY <1>0, <1>12, HeartbeatAssumption DEF Crash
    <2> QED
      BY <1>0, <1>n, <1>12, <2>1, <2>2 DEF Crash, AgentTypeOK
  <1> QED
    BY <1>1, <1>2, <1>3, <1>4, <1>5, <1>6, <1>7, <1>8, <1>9, <1>10, <1>11, <1>12 DEF Next

----------------------------------------------------------------------------
(* What the steps change, as far as the rest of the invariant tells it *)

\* What a step of the run of t does, beyond Effect(t): to the directory ...
DirEffect(t) ==
  /\ \A j \in Ids \ {IdOf(t)} : disk'[j] = disk[j]
  /\ \/ disk'[IdOf(t)].ran = disk[IdOf(t)].ran
     \/ disk'[IdOf(t)].ran = disk[IdOf(t)].ran \cup {run[t].clock} /\ run'[t].pc = "running"
  /\ disk[IdOf(t)].lost \subseteq disk'[IdOf(t)].lost
  /\ disk[IdOf(t)].unflushed \subseteq disk'[IdOf(t)].unflushed
  /\ \/ disk'[IdOf(t)].out.clock = disk[IdOf(t)].out.clock
     \/ disk'[IdOf(t)].out.clock = run[t].clock
  /\ \A x \in Clocks :
       /\ disk[IdOf(t)].done[x] # "none" => disk'[IdOf(t)].done[x] # "none"
       /\ disk'[IdOf(t)].done[x] # "none" =>
            disk[IdOf(t)].done[x] # "none" \/ (x = run[t].clock /\ run[t].pc \in {"persist", "record"})
  /\ run'[t].pc \in {"persist", "record"} =>
       \/ disk'[IdOf(t)].out.clock = run[t].clock
       \/ run[t].clock \in disk'[IdOf(t)].unflushed
       \/ run[t].pc \in {"persist", "record"} /\ disk'[IdOf(t)].out = disk[IdOf(t)].out
  /\ run'[t].pc \in {"idle", "close"} =>
       \/ run[t].pc = "close"
       \/ disk'[IdOf(t)].done[run[t].clock] # "none"
       \/ run[t].clock \in disk'[IdOf(t)].lost

\* ... and to the object.
ObjectEffect(t) ==
  /\ run'[t].pc # "begun"
  /\ task'[t].clock = task[t].clock /\ task'[t].action = task[t].action
  /\ task[t].completing => task'[t].completing
  /\ run'[t].pc \in Unfinished => task'[t].status \in {task[t].status, "killing"}

\* Every step of the run of an object has these effects.
LEMMA RunStepMore ==
  ASSUME JobTypeOK, RunHasClock, NEW t \in Tasks, RunStep(t)
  PROVE  DirEffect(t) /\ ObjectEffect(t)
  <1>0. /\ IdOf(t) \in Ids /\ task[t] \in TaskRecord /\ run[t] \in RunRecord
        /\ disk[IdOf(t)] \in DirRecord /\ disk[IdOf(t)].done \in [Clocks -> Final \cup {"none", "empty"}]
        /\ task \in [Tasks -> TaskRecord] /\ run \in [Tasks -> RunRecord]
        /\ disk \in [Ids -> DirRecord] /\ run[t].status \in Final
    BY IdOfType DEF JobTypeOK, DirRecord, RunRecord
  <1>c. run[t].pc # "idle" => run[t].clock \in Clocks
    BY DEF RunHasClock
  <1>1. CASE Fail(t)
    BY <1>0, <1>1 DEF Fail, Goto, DirEffect, ObjectEffect, RunRecord, Unfinished
  <1>2. CASE StartProcess(t)
    <2>1. /\ disk' = [disk EXCEPT ![IdOf(t)].ran = @ \cup {run[t].clock}] /\ task' = task
          /\ run'[t].pc = "running" /\ run[t].pc = "begun"
      BY <1>0, <1>2 DEF StartProcess, Goto, RunRecord
    <2> QED
      BY <1>0, <2>1 DEF DirEffect, ObjectEffect, DirRecord
  <1>3. CASE Write(t)
    BY <1>0, <1>3 DEF Write, DirEffect, ObjectEffect, TaskRecord, Unfinished
  <1>4. CASE TakeRequest(t)
    BY <1>0, <1>4 DEF TakeRequest, SetKilling, DirEffect, ObjectEffect, TaskRecord, Unfinished
  <1>5. CASE Complete(t)
    BY <1>0, <1>5 DEF Complete, Goto, DirEffect, ObjectEffect, TaskRecord, RunRecord, Unfinished
  <1>6. CASE \E s \in Final : Decide(t, s)
    BY <1>0, <1>6 DEF Decide, Decided, DirEffect, ObjectEffect, RunRecord, Unfinished
  <1>7. CASE SetFinalStatus(t)
    BY <1>0, <1>7 DEF SetFinalStatus, Goto, DirEffect, ObjectEffect, TaskRecord, RunRecord, Unfinished
  <1>8. CASE flushOutput(t)
    <2>1. run'[t].pc = "persist" /\ run[t].pc = "flush" /\ task' = task
      BY <1>0, <1>8 DEF flushOutput, Goto, RunRecord
    <2>2. CASE disk' = [disk EXCEPT ![IdOf(t)].out =
                          [clock |-> run[t].clock, len |-> task[t].stdout]]
      <3>1. /\ disk'[IdOf(t)].done = disk[IdOf(t)].done /\ disk'[IdOf(t)].ran = disk[IdOf(t)].ran
            /\ disk'[IdOf(t)].lost = disk[IdOf(t)].lost
            /\ disk'[IdOf(t)].unflushed = disk[IdOf(t)].unflushed
            /\ disk'[IdOf(t)].out.clock = run[t].clock
            /\ \A j \in Ids \ {IdOf(t)} : disk'[j] = disk[j]
        BY <1>0, <2>2 DEF DirRecord
      <3> QED
        BY <1>0, <2>1, <3>1 DEF DirEffect, ObjectEffect, Unfinished
    <2>3. CASE disk' = [disk EXCEPT ![IdOf(t)].unflushed = @ \cup {run[t].clock}]
      BY <1>0, <2>1, <2>3 DEF DirEffect, ObjectEffect, DirRecord, Unfinished
    <2> QED
      BY <1>8, <2>2, <2>3 DEF flushOutput
  <1>9. CASE persistCreate(t)
    <2>1. run[t].pc = "persist" /\ task' = task /\ run[t].clock \in Clocks
      BY <1>c, <1>9 DEF persistCreate
    <2>2. CASE disk' = [disk EXCEPT ![IdOf(t)].done[run[t].clock] = "empty"] /\ Goto(t, "record")
      <3>1. /\ run'[t].pc = "record"
            /\ disk'[IdOf(t)].done = [disk[IdOf(t)].done EXCEPT ![run[t].clock] = "empty"]
            /\ disk'[IdOf(t)].ran = disk[IdOf(t)].ran /\ disk'[IdOf(t)].out = disk[IdOf(t)].out
            /\ disk'[IdOf(t)].lost = disk[IdOf(t)].lost
            /\ disk'[IdOf(t)].unflushed = disk[IdOf(t)].unflushed
            /\ \A j \in Ids \ {IdOf(t)} : disk'[j] = disk[j]
        BY <1>0, <2>2 DEF Goto, RunRecord, DirRecord
      <3> QED
        BY <1>0, <2>1, <3>1 DEF DirEffect, ObjectEffect, Unfinished
    <2>3. CASE disk' = [disk EXCEPT ![IdOf(t)].lost = @ \cup {run[t].clock}] /\ Goto(t, "close")
      <3>1. run'[t].pc = "close"
        BY <1>0, <2>3 DEF Goto, RunRecord
      <3> QED
        BY <1>0, <2>1, <2>3, <3>1 DEF DirEffect, ObjectEffect, DirRecord, Unfinished
    <2> QED
      BY <1>9, <2>2, <2>3 DEF persistCreate
  <1>10. CASE persistWrite(t)
    <2>1. /\ run[t].pc = "record" /\ run'[t].pc = "close" /\ task' = task
          /\ run[t].clock \in Clocks /\ run[t].status # "none"
      BY <1>0, <1>c, <1>10 DEF persistWrite, Goto, RunRecord, Final
    <2>2. CASE disk' = [disk EXCEPT ![IdOf(t)].done[run[t].clock] = run[t].status]
      <3>1. /\ disk'[IdOf(t)].done = [disk[IdOf(t)].done EXCEPT ![run[t].clock] = run[t].status]
            /\ disk'[IdOf(t)].ran = disk[IdOf(t)].ran /\ disk'[IdOf(t)].out = disk[IdOf(t)].out
            /\ disk'[IdOf(t)].lost = disk[IdOf(t)].lost
            /\ disk'[IdOf(t)].unflushed = disk[IdOf(t)].unflushed
            /\ \A j \in Ids \ {IdOf(t)} : disk'[j] = disk[j]
        BY <1>0, <2>2 DEF DirRecord
      <3> QED
        BY <1>0, <2>1, <3>1 DEF DirEffect, ObjectEffect, Unfinished
    <2>3. CASE disk' = [disk EXCEPT ![IdOf(t)].lost = @ \cup {run[t].clock}]
      BY <1>0, <2>1, <2>3 DEF DirEffect, ObjectEffect, DirRecord, Unfinished
    <2> QED
      BY <1>10, <2>2, <2>3 DEF persistWrite
  <1>11. CASE CloseDone(t)
    BY <1>0, <1>11 DEF CloseDone, Goto, DirEffect, ObjectEffect, TaskRecord, RunRecord, Unfinished
  <1> QED
    BY <1>1, <1>2, <1>3, <1>4, <1>5, <1>6, <1>7, <1>8, <1>9, <1>10, <1>11
    DEF RunStep, finalize

\* A step that changes of the objects no more than requests and output.
SameObjects ==
  /\ run' = run /\ disk' = disk
  /\ \A u \in Tasks :
       /\ task'[u].alive = task[u].alive /\ task'[u].epoch = task[u].epoch
       /\ task'[u].status = task[u].status /\ task'[u].clock = task[u].clock
       /\ task'[u].action = task[u].action /\ task'[u].completing = task[u].completing
       /\ task[u].asked => task'[u].asked

\* requestTermination is such a step, and a run that still goes on is asked for.
LEMMA RequestKeeps ==
  ASSUME JobInv, NEW k \in Callers, RequestLock(k) \/ RequestSend(k)
  PROVE  /\ SameObjects
         /\ \A l \in Callers \ {k} : call'[l] = call[l]
         /\ call'[k].pc \in {"idle", "send"}
         /\ call[k].task \in Tasks
         /\ RequestLock(k) => \/ ~task[call[k].task].alive
                              \/ task[call[k].task].completing
                              \/ task'[call[k].task].asked
  <1> DEFINE t == call[k].task
  <1>1. /\ t \in Tasks /\ task[t] \in TaskRecord /\ call[k] \in CallRecord
        /\ task \in [Tasks -> TaskRecord] /\ call \in [Callers -> CallRecord]
    BY DEF RequestLock, RequestSend, JobInv, CallIsKnown, JobTypeOK
  <1>2. CASE RequestLock(k)
    <2>1. CASE task[t].alive /\ ~task[t].completing
      <3>1. /\ task' = [task EXCEPT ![t].asked = TRUE] /\ run' = run /\ disk' = disk
            /\ call' = [call EXCEPT ![k] = [@ EXCEPT !.pc = "send", !.epoch = task[t].epoch]]
        BY <1>2, <2>1 DEF RequestLock
      <3>2. SameObjects /\ task'[t].asked
        BY <1>1, <3>1 DEF SameObjects, TaskRecord
      <3>3. call'[k].pc = "send" /\ \A l \in Callers \ {k} : call'[l] = call[l]
        BY <1>1, <3>1 DEF CallRecord
      <3> QED
        BY <1>1, <3>2, <3>3
    <2>2. CASE ~(task[t].alive /\ ~task[t].completing)
      <3>1. task' = task /\ run' = run /\ disk' = disk /\ call' = [call EXCEPT ![k] = NoCall]
        BY <1>2, <2>2 DEF RequestLock
      <3> QED
        BY <1>1, <2>2, <3>1 DEF SameObjects, NoCall
    <2> QED
      BY <2>1, <2>2
  <1>3. CASE RequestSend(k)
    <2>1. SameObjects
      BY <1>1, <1>3 DEF RequestSend, SameObjects, TaskRecord
    <2>2. call'[k].pc = "idle" /\ \A l \in Callers \ {k} : call'[l] = call[l]
      BY <1>1, <1>3 DEF RequestSend, NoCall
    <2>3. ~RequestLock(k)
      BY <1>3 DEF RequestSend, RequestLock
    <2> QED
      BY <1>1, <2>1, <2>2, <2>3
  <1> QED
    BY <1>2, <1>3

\* Object t begins a run with clock c ...
Begins(t, c) ==
  /\ call' = call /\ disk' = disk
  /\ ~task[t].alive /\ run[t].pc = "idle"
  /\ \A u \in Tasks \ {t} : task'[u] = task[u] /\ run'[u] = run[u]
  /\ task'[t].alive /\ task'[t].epoch > 0 /\ task'[t].status = "running"
  /\ task'[t].clock = c /\ task'[t].action = "start"
  /\ run'[t].pc = "begun" /\ run'[t].clock = c

\* ... or is made from the result with clock c.
Loads(t, c) ==
  /\ call' = call /\ disk' = disk
  /\ ~task[t].alive /\ run[t].pc = "idle"
  /\ \A u \in Tasks \ {t} : task'[u] = task[u] /\ run'[u] = run[u]
  /\ ~task'[t].alive /\ task'[t].status = LoadedStatus(IdOf(t), c)
  /\ task'[t].clock = c /\ task'[t].action = "start"
  /\ run'[t].pc = "idle"

\* The outcomes of an assignment that is not ignored.
KillOutcome(g, at) ==
  /\ accepting /\ M' = M /\ M[at.id] \in Tasks /\ at.action = "kill"
  /\ run' = run /\ disk' = disk
  /\ call'[g].pc = "lock" /\ \A l \in Callers \ {g} : call'[l] = call[l]
  /\ \A u \in Tasks \ {M[at.id]} : task'[u] = task[u]
  /\ \A u \in Tasks :
       /\ task'[u].alive = task[u].alive /\ task'[u].epoch = task[u].epoch
       /\ task'[u].status = task[u].status /\ task'[u].completing = task[u].completing
       /\ task'[u].asked = task[u].asked
  /\ task'[M[at.id]].clock = at.clock /\ task'[M[at.id]].action = "kill"

StartOutcome(at) ==
  /\ accepting /\ M' = M /\ M[at.id] \in Tasks /\ at.action = "start"
  /\ task[M[at.id]].clock # at.clock \/ task[M[at.id]].action # "start"
  /\ Begins(M[at.id], at.clock)

NewOutcome(at) ==
  /\ accepting /\ M[at.id] = NoTask /\ at.action = "start"
  /\ \E t \in Tasks :
       /\ IdOf(t) = at.id /\ M' = [M EXCEPT ![at.id] = t]
       /\ \A g \in Gens : t # hb[g].cur
       /\ IF doneBefore(at.id, at.clock) THEN Loads(t, at.clock) ELSE Begins(t, at.clock)

\* A round of the loop over the assignments takes one of them and has one of
\* these outcomes.
Round(g, at) ==
  /\ hb[g].pc = "assign" /\ call[g].pc = "idle"
  /\ at \in hb[g].todo /\ at \in Assignments
  /\ hb'[g].pc = "assign" /\ hb'[g].todo = hb[g].todo \ {at}
  /\ \A h \in Gens \ {g} : hb'[h] = hb[h]
  /\ UNCHANGED <<accepting, stopAll, lifecycleVars>>
  /\ \/ UNCHANGED <<jobVars, M>>
     \/ KillOutcome(g, at)
     \/ StartOutcome(at)
     \/ NewOutcome(at)

\* An assignment to kill a listed task.
LEMMA KillAssigned ==
  ASSUME JobInv, AgentTypeOK, NEW g \in Gens, NEW at \in Assignments, AssignKill(g, at)
  PROVE  JobInv' /\ KillOutcome(g, at)
  <1> DEFINE t == M[at.id]
  <1>1. /\ at.id \in Ids /\ at.clock \in Clocks /\ t \in Tasks /\ accepting /\ at.action = "kill"
        /\ g \in Callers
    BY CallerFacts DEF AssignKill, Ignored, Found, Assignments, AgentTypeOK
  <1>2. /\ task' = [task EXCEPT ![t] = SetAssignment(@, at.clock, "kill")]
        /\ call' = Calling(g, t) /\ UNCHANGED <<run, disk, M>>
    BY DEF AssignKill
  <1>3. JobInv'
    BY <1>1, <1>2, JobInvCalling
  <1>4. call'[g].pc = "lock" /\ \A l \in Callers \ {g} : call'[l] = call[l]
    BY <1>1, <1>2 DEF Calling, NoCall, JobInv, JobTypeOK
  <1>5. task \in [Tasks -> TaskRecord] /\ task[t] \in TaskRecord
    BY <1>1 DEF JobInv, JobTypeOK
  <1>6. task' = [task EXCEPT ![t] = [task[t] EXCEPT !.clock = at.clock, !.action = "kill"]]
    BY <1>2 DEF SetAssignment
  <1>7. /\ \A u \in Tasks \ {t} : task'[u] = task[u]
        /\ task'[t].alive = task[t].alive /\ task'[t].epoch = task[t].epoch
        /\ task'[t].status = task[t].status /\ task'[t].completing = task[t].completing
        /\ task'[t].asked = task[t].asked
        /\ task'[t].clock = at.clock /\ task'[t].action = "kill"
    BY <1>1, <1>5, <1>6 DEF TaskRecord
  <1> QED
    BY <1>1, <1>2, <1>3, <1>4, <1>7 DEF KillOutcome

\* An assignment to start a listed task that does not run.
LEMMA StartAssigned ==
  ASSUME JobInv, AgentTypeOK, NEW at \in Assignments, AssignStart(at)
  PROVE  JobInv' /\ StartOutcome(at)
  <1> DEFINE t == M[at.id]
  <1>1. /\ at.id \in Ids /\ at.clock \in Clocks /\ t \in Tasks /\ accepting /\ at.action = "start"
        /\ ~task[t].alive /\ (task[t].clock # at.clock \/ task[t].action # "start")
    BY DEF AssignStart, Ignored, Found, Assignments, AgentTypeOK
  <1>2. /\ task' = [task EXCEPT ![t] = beginRun(SetAssignment(@, at.clock, "start"))]
        /\ run' = [run EXCEPT ![t] = Launched(at.clock)] /\ UNCHANGED <<call, disk, M>>
    BY DEF AssignStart
  <1>3. JobInv'
    BY <1>1, <1>2, JobInvStart
  <1>4. /\ task \in [Tasks -> TaskRecord] /\ task[t] \in TaskRecord /\ run \in [Tasks -> RunRecord]
        /\ run[t].pc = "idle"
    BY <1>1 DEF JobInv, JobTypeOK, AliveIsRunning
  <1> DEFINE r == SetAssignment(task[t], at.clock, "start")
  <1>5. r \in TaskRecord /\ r.clock = at.clock /\ r.action = "start"
    BY <1>1, <1>4, SetAssignmentType DEF SetAssignment, TaskRecord, Action
  <1>6. task' = [task EXCEPT ![t] = beginRun(r)]
    BY <1>2
  <1> HIDE DEF r, t
  <1>7. beginRun(r).clock = r.clock /\ beginRun(r).action = r.action
    BY <1>5 DEF beginRun, TaskRecord
  <1>8. beginRun(r).epoch > 0
    <2>1. r.epoch \in Nat /\ beginRun(r).epoch = r.epoch + 1
      BY <1>5, BeginRunFields DEF TaskRecord
    <2> QED
      BY <2>1
  <1>9. beginRun(r).alive /\ beginRun(r).status = "running"
    BY <1>5, BeginRunFields
  <1>10. /\ task'[t] = beginRun(r) /\ run'[t].pc = "begun" /\ run'[t].clock = at.clock
         /\ \A u \in Tasks \ {t} : task'[u] = task[u] /\ run'[u] = run[u]
    BY <1>1, <1>2, <1>4, <1>6, LaunchedFields
  <1>11. Begins(t, at.clock)
    BY <1>1, <1>2, <1>4, <1>5, <1>7, <1>8, <1>9, <1>10 DEF Begins
  <1> QED
    BY <1>1, <1>2, <1>3, <1>11 DEF StartOutcome, t

\* A first assignment to start a task.
LEMMA NewAssigned ==
  ASSUME JobInv, AgentTypeOK, NEW at \in Assignments, NEW t \in Tasks,
         Unreferenced(t), AssignNew(t, at)
  PROVE  JobInv' /\ NewOutcome(at)
  <1>1. /\ at.id \in Ids /\ at.clock \in Clocks /\ accepting /\ at.action = "start"
        /\ M[at.id] = NoTask /\ IdOf(t) = at.id /\ M' = [M EXCEPT ![at.id] = t]
        /\ UNCHANGED <<call, disk>>
    BY DEF AssignNew, Ignored, Found, Assignments
  <1>2. /\ run[t].pc = "idle" /\ \A k \in Callers : call[k].task # t
        /\ \A g \in Gens : t # hb[g].cur
    BY DEF Unreferenced
  <1>3. /\ task \in [Tasks -> TaskRecord] /\ run \in [Tasks -> RunRecord] /\ ~task[t].alive
        /\ JobTypeOK
    BY <1>2 DEF JobInv, JobTypeOK, AliveIsRunning
  <1>4. CASE doneBefore(at.id, at.clock)
    <2> DEFINE s == LoadedStatus(at.id, at.clock)
               n == disk[at.id].out.len
               r == [newTask(at.clock, "start") EXCEPT !.status = s, !.stdout = n]
    <2>1. task' = [task EXCEPT ![t] = r] /\ run' = [run EXCEPT ![t] = NoRun]
      BY <1>4 DEF AssignNew
    <2>2. s \in Status
      BY <1>1, <1>3, <1>4, LoadedStatusType
    <2>3. n \in Nat
      BY <1>1, <1>3 DEF JobTypeOK, DirRecord
    <2>r. r = [newTask(at.clock, "start") EXCEPT !.status = s, !.stdout = n]
      OBVIOUS
    <2>s. s = LoadedStatus(IdOf(t), at.clock)
      BY <1>1
    <2> HIDE DEF r, s, n
    <2>4. /\ r \in TaskRecord /\ ~r.alive /\ r.epoch = 0 /\ ~r.requests
          /\ r.clock = at.clock /\ r.action = "start" /\ r.status = s
      BY <1>1, <2>2, <2>3, <2>r DEF newTask, TaskRecord, Action
    <2>5. /\ task'[t] = r /\ run'[t] = NoRun
          /\ \A u \in Tasks \ {t} : task'[u] = task[u] /\ run'[u] = run[u]
      BY <1>3, <2>1
    <2>6. Loads(t, at.clock)
      BY <1>1, <1>2, <1>3, <2>4, <2>5, <2>s DEF Loads, NoRun
    <2>7. JobInv'
      BY <1>1, <1>2, <2>1, <2>4, NoRunType, JobInvNew
    <2> QED
      BY <1>1, <1>2, <1>4, <2>6, <2>7 DEF NewOutcome
  <1>5. CASE ~doneBefore(at.id, at.clock)
    <2> DEFINE r == beginRun(newTask(at.clock, "start"))
    <2>1. task' = [task EXCEPT ![t] = r] /\ run' = [run EXCEPT ![t] = Launched(at.clock)]
      BY <1>5 DEF AssignNew
    <2>r. r = beginRun(newTask(at.clock, "start"))
      OBVIOUS
    <2> HIDE DEF r
    <2>2. /\ r \in TaskRecord /\ r.alive /\ r.epoch = 1 /\ ~r.requests
          /\ r.clock = at.clock /\ r.action = "start" /\ r.status = "running"
      BY <1>1, <2>r, BegunFields
    <2>3. /\ task'[t] = r /\ run'[t].pc = "begun" /\ run'[t].clock = at.clock
          /\ \A u \in Tasks \ {t} : task'[u] = task[u] /\ run'[u] = run[u]
      BY <1>1, <1>3, <2>1, LaunchedFields
    <2>4. Begins(t, at.clock)
      BY <1>1, <1>2, <1>3, <2>2, <2>3 DEF Begins
    <2>5. JobInv'
      BY <1>1, <1>2, <2>1, <2>2, LaunchedType, JobInvNew
    <2> QED
      BY <1>1, <1>2, <1>5, <2>4, <2>5 DEF NewOutcome
  <1> QED
    BY <1>4, <1>5

\* A round keeps the invariant of the objects and is a Round.
LEMMA AssignRound ==
  ASSUME JobInv, AgentTypeOK, NEW g \in Gens, Assign(g)
  PROVE  JobInv' /\ \E at \in Assignments : Round(g, at)
  <1>0. hb \in [Gens -> BeatRecord] /\ hb[g] \in BeatRecord
    BY DEF AgentTypeOK
  <1>1. PICK at \in hb[g].todo :
          /\ hb' = [hb EXCEPT ![g].todo = @ \ {at}, ![g].assigned = @ \cup {at.id}]
          /\ \/ Ignored(at) /\ UNCHANGED <<jobVars, M>>
             \/ AssignKill(g, at)
             \/ AssignStart(at)
             \/ \E t \in Tasks : Unreferenced(t) /\ AssignNew(t, at)
    BY DEF Assign
  <1>2. at \in Assignments
    BY <1>0 DEF BeatRecord
  <1>3. /\ JobInv'
        /\ \/ UNCHANGED <<jobVars, M>>
           \/ KillOutcome(g, at) \/ StartOutcome(at) \/ NewOutcome(at)
    BY <1>1, <1>2, JobSame, KillAssigned, StartAssigned, NewAssigned
  <1>4. /\ hb'[g].pc = hb[g].pc /\ hb'[g].todo = hb[g].todo \ {at}
        /\ \A h \in Gens \ {g} : hb'[h] = hb[h]
    BY <1>0, <1>1 DEF BeatRecord
  <1>5. /\ hb[g].pc = "assign" /\ call[g].pc = "idle"
        /\ UNCHANGED <<accepting, stopAll, lifecycleVars>>
    BY DEF Assign
  <1> QED
    BY <1>1, <1>2, <1>3, <1>4, <1>5 DEF Round

\* Steps that leave the objects alone but for requests and output, forget at
\* most objects that do not run, and bring no assignment.
TableShrinks ==
  \A i \in Ids : M'[i] = M[i] \/ (M'[i] = NoTask /\ (M[i] # NoTask => ~task[M[i]].alive))

Quiet ==
  /\ SameObjects /\ TableShrinks /\ server' = server
  /\ main.overlap => main'.overlap
  /\ \A g \in Gens : hb'[g].todo \subseteq hb[g].todo

QuietBeat(g) == \/ Quit(g) \/ Tick(g) \/ ReportStatus(g) \/ ReportOutput(g)
                \/ CallBegins(g) \/ CallFails(g) \/ AssignKills(g) \/ CleanUp(g)

QuietMain == \/ Start_ \/ StopCancels \/ StopLocks \/ StopRequests
             \/ StopTasksDone \/ StopTasksTimeout \/ StopJoins \/ StopJoinTimeout

\* A step that leaves the objects and the table alone.
LEMMA UnchangedIsSame ==
  ASSUME UNCHANGED <<jobVars, M>>
  PROVE  SameObjects /\ TableShrinks
  BY DEF jobVars, SameObjects, TableShrinks

\* The steps of a heartbeat that applies no assignment are quiet.
LEMMA QuietBeatStep ==
  ASSUME JobInv, AgentTypeOK, NEW g \in Gens, QuietBeat(g)
  PROVE  JobInv' /\ Quiet
  <1>0. hb \in [Gens -> BeatRecord] /\ hb[g] \in BeatRecord /\ g \in Callers
    BY CallerFacts DEF AgentTypeOK
  <1>1. CASE \/ Quit(g) \/ Tick(g) \/ ReportStatus(g) \/ ReportOutput(g)
             \/ CallBegins(g) \/ CallFails(g)
    <2>1. UNCHANGED <<jobVars, localsVars, lifecycleVars>>
      BY <1>1 DEF Quit, Tick, ReportStatus, ReportOutput, CallBegins, CallFails
    <2>2. \A h \in Gens : hb'[h].todo \subseteq hb[h].todo
      <3>1. CASE Quit(g) \/ Tick(g) \/ CallFails(g)
        <4> DEFINE snap == {t \in Tasks : Listed(t)}
        <4>1. \/ hb' = [hb EXCEPT ![g] = NoBeat]
              \/ hb' = [hb EXCEPT ![g] = Waiting]
              \/ hb' = [hb EXCEPT ![g] = [NoBeat EXCEPT !.pc = "report", !.snap = snap]]
          BY <3>1 DEF Quit, Tick, CallFails
        <4> HIDE DEF snap
        <4>2. /\ NoBeat.todo = {} /\ Waiting.todo = {}
              /\ [NoBeat EXCEPT !.pc = "report", !.snap = snap].todo = {}
          BY DEF NoBeat, Waiting
        <4>3. PICK b : hb' = [hb EXCEPT ![g] = b] /\ b.todo = {}
          BY <4>1, <4>2
        <4> QED
          BY <1>0, <4>3
      <3>2. CASE ReportStatus(g)
        <4>1. PICK t \in hb[g].snap :
                hb' = [hb EXCEPT ![g].pc = IF task[t].status = "killing" THEN "report" ELSE "output",
                                 ![g].snap = @ \ {t}, ![g].cur = t, ![g].status = task[t].status]
          BY <3>2 DEF ReportStatus
        <4> QED
          BY <1>0, <4>1 DEF BeatRecord
      <3>3. CASE ReportOutput(g)
        BY <1>0, <3>3 DEF ReportOutput, BeatRecord
      <3>4. CASE CallBegins(g)
        BY <1>0, <3>4 DEF CallBegins, BeatRecord
      <3> QED
        BY <1>1, <3>1, <3>2, <3>3, <3>4
    <2>3. UNCHANGED <<jobVars, M>> /\ server' = server /\ main' = main
      BY <2>1 DEF localsVars, lifecycleVars
    <2> QED
      BY <2>2, <2>3, UnchangedIsSame, JobSame DEF Quiet
  <1>2. CASE AssignKills(g)
    <2>1. RequestLock(g) \/ RequestSend(g)
      BY <1>2 DEF AssignKills
    <2>2. M' = M /\ hb' = hb /\ server' = server /\ main' = main
      BY <1>2 DEF AssignKills, localsVars, lifecycleVars
    <2>3. TableShrinks
      BY <2>2 DEF TableShrinks
    <2> QED
      BY <1>0, <2>1, <2>2, <2>3, RequestKeeps, JobInvRequest DEF Quiet
  <1>3. CASE CleanUp(g)
    <2>1. /\ Clean(hb[g].assigned) /\ server' = server /\ main' = main
          /\ hb' = [hb EXCEPT ![g] = Waiting]
      BY <1>3 DEF CleanUp, lifecycleVars
    <2>2. \A h \in Gens : hb'[h].todo \subseteq hb[h].todo
      BY <1>0, <2>1 DEF Waiting, NoBeat
    <2>3. TableShrinks
      BY <2>1 DEF Clean, Cleaned, TableShrinks
    <2>4. SameObjects
      <3>1. run' = run /\ disk' = disk /\ JobTypeOK
        BY <2>1 DEF Clean, JobInv
      <3> QED
        BY <2>1, <3>1, CleanFields DEF SameObjects
    <2> QED
      BY <2>1, <2>2, <2>3, <2>4, JobInvClean DEF Quiet
  <1> QED
    BY <1>1, <1>2, <1>3 DEF QuietBeat

\* So are the steps of Start and Stop.
LEMMA QuietMainStep ==
  ASSUME JobInv, AgentTypeOK, QuietMain
  PROVE  JobInv' /\ Quiet
  <1>0. /\ hb \in [Gens -> BeatRecord] /\ Main \in Callers
        /\ main \in [pc : {"down", "up", "cancelled", "stopAll", "join"},
                     gen : Gens \cup {0}, timedOut : BOOLEAN, overlap : BOOLEAN]
        /\ stopAll \in [tasks : SUBSET Tasks, done : SUBSET (Tasks \X Nat)]
    BY CallerFacts DEF AgentTypeOK
  <1>1. CASE Start_
    <2>1. /\ UNCHANGED <<jobVars, M>> /\ server' = server
          /\ hb' = [hb EXCEPT ![main.gen + 1] = Waiting]
          /\ main' = [pc |-> "up", gen |-> main.gen + 1, timedOut |-> FALSE,
                      overlap |-> main.overlap \/ \E g \in Gens : hb[g].pc # "off"]
      BY <1>1 DEF Start_
    <2>2. \A h \in Gens : hb'[h].todo \subseteq hb[h].todo
      BY <1>0, <2>1 DEF Waiting, NoBeat
    <2>3. main.overlap => main'.overlap
      BY <2>1
    <2> QED
      BY <2>1, <2>2, <2>3, UnchangedIsSame, JobSame DEF Quiet
  <1>2. CASE \/ StopCancels \/ StopLocks
             \/ StopTasksDone \/ StopTasksTimeout \/ StopJoins \/ StopJoinTimeout
    <2>1. UNCHANGED <<jobVars, M>> /\ hb' = hb /\ server' = server
      BY <1>2 DEF StopCancels, StopLocks, StopAllBegin, StopTasksDone, StopTasksTimeout,
                  StopJoins, StopJoinTimeout, localsVars
    <2>2. main'.overlap = main.overlap
      BY <1>0, <1>2 DEF StopCancels, StopLocks, StopTasksDone, StopTasksTimeout,
                        StopJoins, StopJoinTimeout
    <2> QED
      BY <2>1, <2>2, UnchangedIsSame, JobSame DEF Quiet
  <1>3. CASE StopRequests
    <2>1. M' = M /\ hb' = hb /\ server' = server /\ main' = main
      BY <1>3 DEF StopRequests, StopAllNext, StopAllLock, localsVars
    <2>2. TableShrinks
      BY <2>1 DEF TableShrinks
    <2>3. CASE RequestLock(Main) \/ RequestSend(Main)
      BY <1>0, <2>1, <2>2, <2>3, RequestKeeps, JobInvRequest DEF Quiet
    <2>4. ASSUME NEW t \in Tasks, StopAllNext(t) PROVE JobInv' /\ Quiet
      <3>1. UNCHANGED <<task, run, disk>> /\ call' = Calling(Main, t)
        BY <2>4 DEF StopAllNext
      <3>2. SameObjects
        BY <3>1 DEF SameObjects
      <3>3. JobInv'
        BY <1>0, <3>1, JobInvCalling
      <3> QED
        BY <2>1, <2>2, <3>2, <3>3 DEF Quiet
    <2> QED
      BY <1>3, <2>3, <2>4 DEF StopRequests, StopAllLock
  <1> QED
    BY <1>1, <1>2, <1>3 DEF QuietMain

----------------------------------------------------------------------------
(* The table *)

TableRest == TableIsKeyed /\ AliveHasRun /\ StatusShowsRun /\ RunsAreListed

\* Quiet steps keep the table: Clean forgets nothing that runs.
LEMMA TableQuiet ==
  ASSUME AgentTypeOK, TableRest, SameObjects, TableShrinks
  PROVE  TableRest'
  <1>1. TableIsKeyed'
    BY DEF TableRest, TableIsKeyed, TableShrinks
  <1>2. AliveHasRun' /\ StatusShowsRun'
    BY DEF TableRest, AliveHasRun, StatusShowsRun, SameObjects
  <1>3. RunsAreListed'
    <2> SUFFICES ASSUME NEW t \in Tasks, task'[t].alive PROVE M'[IdOf(t)] = t
      BY DEF RunsAreListed, Listed
    <2>1. task[t].alive /\ M[IdOf(t)] = t /\ t # NoTask /\ IdOf(t) \in Ids
      BY TaskFacts DEF SameObjects, TableRest, RunsAreListed, Listed
    <2> QED
      BY <2>1 DEF TableShrinks
  <1> QED
    BY <1>1, <1>2, <1>3 DEF TableRest

\* So does a step of a run.
LEMMA TableRun ==
  ASSUME TableRest, NEW t \in Tasks, Effect(t), ObjectEffect(t), M' = M
  PROVE  TableRest'
  <1>1. TableIsKeyed'
    BY DEF TableRest, TableIsKeyed
  <1>2. AliveHasRun'
    BY DEF TableRest, AliveHasRun, Effect
  <1>3. StatusShowsRun'
    BY DEF TableRest, StatusShowsRun, Effect, ObjectEffect
  <1>4. RunsAreListed'
    BY DEF TableRest, RunsAreListed, Listed, Effect
  <1> QED
    BY <1>1, <1>2, <1>3, <1>4 DEF TableRest

\* Where nothing is listed, nothing runs.
LEMMA UnlistedIsDead ==
  ASSUME RunsAreListed, NEW i \in Ids, M[i] = NoTask, NEW u \in Tasks, IdOf(u) = i
  PROVE  ~task[u].alive
  BY TaskFacts DEF RunsAreListed, Listed

\* A round keeps the table: a new object is made only for an id without one.
LEMMA TableRound ==
  ASSUME AgentTypeOK, TableRest, NEW g \in Gens, NEW at \in Assignments, Round(g, at)
  PROVE  TableRest'
  <1>0. at.id \in Ids /\ M \in [Ids -> Tasks \cup {NoTask}]
    BY DEF Assignments, AgentTypeOK
  <1>1. CASE UNCHANGED <<jobVars, M>>
    BY <1>1, UnchangedIsSame, TableQuiet
  <1>2. CASE KillOutcome(g, at)
    BY <1>2 DEF KillOutcome, TableRest, TableIsKeyed, AliveHasRun, StatusShowsRun, RunsAreListed,
                Listed
  <1>3. ASSUME NEW t \in Tasks, Begins(t, at.clock) \/ Loads(t, at.clock),
               M'[IdOf(t)] = t, \A i \in Ids \ {IdOf(t)} : M'[i] = M[i],
               M[IdOf(t)] \in {t, NoTask}
        PROVE  TableRest'
    <2>1. TableIsKeyed'
      BY <1>3 DEF TableRest, TableIsKeyed
    <2>2. AliveHasRun'
      BY <1>3 DEF TableRest, AliveHasRun, Begins, Loads
    <2>3. StatusShowsRun'
      BY <1>3 DEF TableRest, StatusShowsRun, Begins, Loads, Unfinished
    <2>4. RunsAreListed'
      <3> SUFFICES ASSUME NEW u \in Tasks \ {t}, task'[u].alive PROVE M'[IdOf(u)] = u
        BY <1>3 DEF RunsAreListed, Listed
      <3>1. task[u].alive
        BY <1>3 DEF Begins, Loads
      <3>2. M[IdOf(u)] = u /\ IdOf(u) \in Ids /\ u # NoTask
        BY <3>1, TaskFacts DEF TableRest, RunsAreListed, Listed
      <3> QED
        BY <1>3, <3>2
    <2> QED
      BY <2>1, <2>2, <2>3, <2>4 DEF TableRest
  <1>4. CASE StartOutcome(at)
    <2>1. M[at.id] \in Tasks /\ IdOf(M[at.id]) = at.id /\ M' = M /\ Begins(M[at.id], at.clock)
      BY <1>0, <1>4, TaskFacts DEF StartOutcome, TableRest, TableIsKeyed
    <2> QED
      BY <1>3, <2>1
  <1>5. CASE NewOutcome(at)
    <2>1. PICK t \in Tasks :
            /\ IdOf(t) = at.id /\ M' = [M EXCEPT ![at.id] = t] /\ M[at.id] = NoTask
            /\ Begins(t, at.clock) \/ Loads(t, at.clock)
      BY <1>5 DEF NewOutcome
    <2> QED
      BY <1>0, <1>3, <2>1
  <1> QED
    BY <1>1, <1>2, <1>4, <1>5 DEF Round

\* After a crash there is neither a table nor a run.
LEMMA TableCrash ==
  ASSUME Crash
  PROVE  TableRest'
  <1>1. M' = [i \in Ids |-> NoTask] /\ \A t \in Tasks : ~task'[t].alive /\ run'[t].pc = "idle"
    BY DEF Crash, JobCrash, newTask, NoRun
  <1> QED
    BY <1>1 DEF TableRest, TableIsKeyed, AliveHasRun, StatusShowsRun, RunsAreListed, Unfinished

----------------------------------------------------------------------------
(* The heartbeats and the report *)

BeatStep(g) == QuietBeat(g) \/ CallReturns(g)

\* What a step of heartbeat g that applies no assignment does to the heartbeats.
BeatMove(g) ==
  /\ \A h \in Gens \ {g} : hb'[h] = hb[h]
  /\ hb[g].pc # "off"
  /\ hb'[g].pc # "assign" => hb'[g].todo = {} /\ call'[g].pc = "idle"
  /\ hb'[g].pc = "output" =>
       hb'[g].cur \in Tasks /\ hb'[g].status = task[hb'[g].cur].status
  /\ \A l \in Callers \ {g} : call'[l] = call[l]
  /\ SameObjects
  /\ UNCHANGED <<accepting, stopAll, main>>

\* Every such step is such a move.
LEMMA BeatMoves ==
  ASSUME JobInv, AgentTypeOK, BeatsAreKnown, NEW g \in Gens, BeatStep(g)
  PROVE  BeatMove(g)
  <1>0. hb \in [Gens -> BeatRecord] /\ hb[g] \in BeatRecord /\ g \in Callers
    BY CallerFacts DEF AgentTypeOK
  <1>k. /\ call[g].pc # "idle" => hb[g].pc = "assign"
        /\ hb[g].pc # "assign" => hb[g].todo = {}
    BY DEF BeatsAreKnown
  <1>s. SameObjects
    <2>1. CASE QuietBeat(g)
      BY <2>1, QuietBeatStep DEF Quiet
    <2>2. CASE CallReturns(g)
      BY <2>2 DEF CallReturns, SameObjects, jobVars
    <2> QED
      BY <2>1, <2>2 DEF BeatStep
  <1>1. ASSUME NEW b, hb' = [hb EXCEPT ![g] = b], call' = call, UNCHANGED <<accepting, stopAll, main>>,
               hb[g].pc # "off",
               b.pc # "assign" => b.todo = {} /\ call[g].pc = "idle",
               b.pc = "output" => b.cur \in Tasks /\ b.status = task[b.cur].status
        PROVE  BeatMove(g)
    BY <1>0, <1>1, <1>s DEF BeatMove
  <1>2. CASE Quit(g)
    BY <1>1, <1>2, <1>k DEF Quit, NoBeat, jobVars, localsVars, lifecycleVars
  <1>3. CASE Tick(g)
    <2> DEFINE snap == {t \in Tasks : Listed(t)}
               b == [NoBeat EXCEPT !.pc = "report", !.snap = snap]
    <2>1. hb' = [hb EXCEPT ![g] = b] /\ call' = call /\ UNCHANGED <<accepting, stopAll, main>>
          /\ hb[g].pc = "wait"
      BY <1>3 DEF Tick, jobVars, localsVars, lifecycleVars
    <2> HIDE DEF snap
    <2>2. b.pc = "report" /\ b.todo = {}
      BY DEF NoBeat
    <2> HIDE DEF b
    <2> QED
      BY <1>1, <1>k, <2>1, <2>2
  <1>4. CASE ReportStatus(g)
    <2>1. PICK t \in hb[g].snap :
            hb' = [hb EXCEPT ![g].pc = IF task[t].status = "killing" THEN "report" ELSE "output",
                             ![g].snap = @ \ {t}, ![g].cur = t, ![g].status = task[t].status]
      BY <1>4 DEF ReportStatus
    <2>2. /\ hb[g].pc = "report" /\ call' = call /\ UNCHANGED <<accepting, stopAll, main>>
          /\ t \in Tasks
      BY <1>0, <1>4 DEF ReportStatus, jobVars, localsVars, lifecycleVars, BeatRecord
    <2> DEFINE pc == IF task[t].status = "killing" THEN "report" ELSE "output"
               b == [hb[g] EXCEPT !.pc = pc, !.snap = hb[g].snap \ {t}, !.cur = t,
                                  !.status = task[t].status]
    <2>3. hb' = [hb EXCEPT ![g] = b] /\ pc # "assign"
      BY <1>0, <2>1
    <2> HIDE DEF pc
    <2>4. b.pc = pc /\ b.todo = hb[g].todo /\ b.cur = t /\ b.status = task[t].status
      BY <1>0 DEF BeatRecord
    <2> HIDE DEF b
    <2> QED
      BY <1>1, <1>k, <2>2, <2>3, <2>4
  <1>5. CASE ReportOutput(g) \/ CallBegins(g)
    <2>1. /\ hb[g].pc \in {"output", "report"} /\ call' = call
          /\ UNCHANGED <<accepting, stopAll, main>>
      BY <1>5 DEF ReportOutput, CallBegins, jobVars, localsVars, lifecycleVars
    <2>2. /\ hb'[g].pc \in {"report", "call"} /\ hb'[g].todo = hb[g].todo
          /\ \A h \in Gens \ {g} : hb'[h] = hb[h]
      <3>1. CASE ReportOutput(g)
        BY <1>0, <3>1 DEF ReportOutput, BeatRecord
      <3>2. CASE CallBegins(g)
        BY <1>0, <3>2 DEF CallBegins, BeatRecord
      <3> QED
        BY <1>5, <3>1, <3>2
    <2> QED
      BY <1>k, <1>s, <2>1, <2>2 DEF BeatMove
  <1>6. CASE CallFails(g) \/ CleanUp(g)
    <2>1. /\ hb' = [hb EXCEPT ![g] = Waiting] /\ call' = call
          /\ UNCHANGED <<accepting, stopAll, main>> /\ hb[g].pc # "off" /\ call[g].pc = "idle"
      BY <1>6, <1>k DEF CallFails, CleanUp, Clean, jobVars, localsVars, lifecycleVars
    <2>2. Waiting.pc = "wait" /\ Waiting.todo = {}
      BY DEF Waiting, NoBeat
    <2> QED
      BY <1>1, <2>1, <2>2
  <1>7. CASE CallReturns(g)
    <2>1. PICK answer \in SUBSET Current :
            hb' = [hb EXCEPT ![g] = [NoBeat EXCEPT !.pc = "assign", !.todo = answer]]
      BY <1>7 DEF CallReturns
    <2> DEFINE b == [NoBeat EXCEPT !.pc = "assign", !.todo = answer]
    <2>2. b.pc = "assign" /\ hb' = [hb EXCEPT ![g] = b]
      BY <2>1 DEF NoBeat
    <2>3. call' = call /\ UNCHANGED <<accepting, stopAll, main>> /\ hb[g].pc = "call"
      BY <1>7 DEF CallReturns, jobVars, localsVars, lifecycleVars
    <2> HIDE DEF b
    <2> QED
      BY <1>1, <2>2, <2>3
  <1>8. CASE AssignKills(g)
    <2>1. (RequestLock(g) \/ RequestSend(g)) /\ hb' = hb /\ UNCHANGED <<accepting, stopAll, main>>
      BY <1>8 DEF AssignKills, localsVars, lifecycleVars
    <2>2. hb[g].pc = "assign"
      BY <1>k, <2>1 DEF RequestLock, RequestSend
    <2>3. \A l \in Callers \ {g} : call'[l] = call[l]
      BY <1>0, <2>1, RequestKeeps
    <2> QED
      BY <1>s, <2>1, <2>2, <2>3 DEF BeatMove
  <1> QED
    BY <1>2, <1>3, <1>4, <1>5, <1>6, <1>7, <1>8 DEF BeatStep, QuietBeat

\* Start makes a heartbeat; the other steps of the main goroutine leave them alone.
LEMMA MainBeats ==
  ASSUME AgentTypeOK, QuietMain
  PROVE  /\ ~Start_ => hb' = hb /\ main'.overlap = main.overlap /\ main'.gen = main.gen
         /\ Start_ => /\ main.gen + 1 \in Gens /\ hb'[main.gen + 1] = Waiting
                      /\ \A h \in Gens \ {main.gen + 1} : hb'[h] = hb[h]
                      /\ ~main'.overlap => \A g \in Gens : hb[g].pc = "off"
  <1>0. /\ hb \in [Gens -> BeatRecord]
        /\ main \in [pc : {"down", "up", "cancelled", "stopAll", "join"},
                     gen : Gens \cup {0}, timedOut : BOOLEAN, overlap : BOOLEAN]
    BY DEF AgentTypeOK
  <1>1. ASSUME Start_
        PROVE  /\ main.gen + 1 \in Gens /\ hb'[main.gen + 1] = Waiting
               /\ \A h \in Gens \ {main.gen + 1} : hb'[h] = hb[h]
               /\ ~main'.overlap => \A g \in Gens : hb[g].pc = "off"
    <2>1. main.gen + 1 \in Gens
      BY <1>0, <1>1, HeartbeatAssumption DEF Start_, Gens
    <2>2. hb' = [hb EXCEPT ![main.gen + 1] = Waiting]
      BY <1>1 DEF Start_
    <2>3. main'.overlap = (main.overlap \/ \E g \in Gens : hb[g].pc # "off")
      BY <1>1 DEF Start_
    <2> QED
      BY <1>0, <2>1, <2>2, <2>3
  <1>2. ASSUME ~Start_
        PROVE  hb' = hb /\ main'.overlap = main.overlap /\ main'.gen = main.gen
    BY <1>0, <1>2 DEF QuietMain, StopCancels, StopLocks, StopRequests, StopTasksDone,
                      StopTasksTimeout, StopJoins, StopJoinTimeout
  <1> QED
    BY <1>1, <1>2

\* A run that is decided stays so.
LEMMA ReportRun ==
  ASSUME ReportInv, BeatsAreKnown, NEW t \in Tasks, Effect(t), UNCHANGED <<hb, main>>
  PROVE  ReportInv'
  <1>1. OneBeat'
    BY DEF ReportInv, OneBeat
  <1>2. FinalReportIsComplete'
    BY DEF ReportInv, FinalReportIsComplete, BeatsAreKnown, Effect, Unfinished
  <1> QED
    BY <1>1, <1>2 DEF ReportInv

\* A heartbeat that reads a final status reads it of a run that is decided.
LEMMA ReportBeat ==
  ASSUME ReportInv, BeatsAreKnown, StatusShowsRun, NEW g \in Gens, BeatMove(g)
  PROVE  ReportInv'
  <1>1. OneBeat'
    BY DEF ReportInv, OneBeat, BeatMove
  <1>2. ASSUME NEW h \in Gens, hb'[h].pc = "output", hb'[h].status \in Final, ~main'.overlap
        PROVE  run'[hb'[h].cur].pc \notin {"begun", "running", "completing"}
    <2>1. run' = run /\ main' = main
      BY DEF BeatMove, SameObjects
    <2>2. CASE h = g
      <3>1. hb'[g].cur \in Tasks /\ hb'[g].status = task[hb'[g].cur].status
        BY <1>2, <2>2 DEF BeatMove
      <3> QED
        BY <1>2, <2>1, <2>2, <3>1 DEF StatusShowsRun, Unfinished, Final
    <2>3. CASE h # g
      <3>1. hb'[h] = hb[h]
        BY <2>3 DEF BeatMove
      <3> QED
        BY <1>2, <2>1, <3>1 DEF ReportInv, FinalReportIsComplete
    <2> QED
      BY <2>2, <2>3
  <1>3. FinalReportIsComplete'
    BY <1>2 DEF FinalReportIsComplete
  <1> QED
    BY <1>1, <1>3 DEF ReportInv

\* While one heartbeat applies assignments there is no other that reports.
LEMMA ReportRound ==
  ASSUME ReportInv, NEW g \in Gens, NEW at \in Assignments, Round(g, at)
  PROVE  ReportInv'
  <1>1. /\ hb[g].pc = "assign" /\ hb'[g].pc = "assign" /\ main' = main
        /\ \A h \in Gens \ {g} : hb'[h] = hb[h]
    BY DEF Round, lifecycleVars
  <1>2. OneBeat'
    BY <1>1 DEF ReportInv, OneBeat
  <1>3. ~main'.overlap => \A h \in Gens : hb'[h].pc # "output"
    BY <1>1 DEF ReportInv, OneBeat
  <1>4. FinalReportIsComplete'
    BY <1>3 DEF FinalReportIsComplete
  <1> QED
    BY <1>2, <1>4 DEF ReportInv

\* Start and Stop do not read.
LEMMA ReportMain ==
  ASSUME ReportInv, AgentTypeOK, JobInv, QuietMain
  PROVE  ReportInv'
  <1>0. run' = run
    BY QuietMainStep DEF Quiet, SameObjects
  <1>w. Waiting.pc = "wait"
    BY DEF Waiting, NoBeat
  <1>1. CASE ~Start_
    <2>1. hb' = hb /\ main'.overlap = main.overlap
      BY <1>1, MainBeats
    <2> QED
      BY <1>0, <2>1 DEF ReportInv, OneBeat, FinalReportIsComplete
  <1>2. CASE Start_
    <2>1. /\ main.gen + 1 \in Gens /\ hb'[main.gen + 1] = Waiting
          /\ \A h \in Gens \ {main.gen + 1} : hb'[h] = hb[h]
          /\ ~main'.overlap => \A g \in Gens : hb[g].pc = "off"
      BY <1>2, MainBeats
    <2>2. ~main'.overlap => \A h \in Gens \ {main.gen + 1} : hb'[h].pc = "off"
      BY <2>1
    <2>3. OneBeat'
      BY <2>1, <2>2 DEF OneBeat
    <2>4. FinalReportIsComplete'
      BY <1>w, <2>1, <2>2 DEF FinalReportIsComplete
    <2> QED
      BY <2>3, <2>4 DEF ReportInv
  <1> QED
    BY <1>1, <1>2

\* After a crash there is no heartbeat.
LEMMA ReportCrash ==
  ASSUME Crash
  PROVE  ReportInv'
  <1>1. \A g \in Gens : hb'[g].pc = "off"
    BY DEF Crash, NoBeat
  <1> QED
    BY <1>1 DEF ReportInv, OneBeat, FinalReportIsComplete

----------------------------------------------------------------------------
(* The shutdown *)

\* A step of a run keeps the run on StopAll's list, or ends it.
LEMMA StopRun ==
  ASSUME StopInv, NEW t \in Tasks, Effect(t), ObjectEffect(t), UNCHANGED <<localsVars, hb, main>>
  PROVE  StopInv'
  <1>1. BeatsAreKnown'
    BY DEF StopInv, BeatsAreKnown, Effect, localsVars
  <1>2. StopCovers'
    <2>1. main'.pc \in {"stopAll", "join"} => ~accepting'
      BY DEF StopInv, StopCovers, localsVars
    <2>2. ASSUME ~accepting', NEW u \in Tasks, task'[u].alive
          PROVE  \/ u \in stopAll'.tasks
                 \/ call'[Main].pc = "lock" /\ call'[Main].task = u
                 \/ <<u, task'[u].epoch>> \in stopAll'.done /\ (task'[u].asked \/ task'[u].completing)
      <3>1. /\ task[u].alive /\ task'[u].epoch = task[u].epoch /\ task'[u].asked = task[u].asked
            /\ task[u].completing => task'[u].completing
            /\ ~accepting /\ stopAll' = stopAll /\ call' = call
        BY <2>2 DEF Effect, ObjectEffect, localsVars
      <3> QED
        BY <3>1 DEF StopInv, StopCovers
    <2> QED
      BY <2>1, <2>2 DEF StopCovers
  <1>3. StopHasEnded'
    BY DEF StopInv, StopHasEnded, Effect, localsVars
  <1> QED
    BY <1>1, <1>2, <1>3 DEF StopInv

\* A heartbeat that applies no assignment does not disturb the shutdown ...
LEMMA StopBeat ==
  ASSUME StopInv, NEW g \in Gens, BeatMove(g)
  PROVE  StopInv'
  <1>0. /\ call'[Main] = call[Main] /\ Main \notin Gens
        /\ UNCHANGED <<accepting, stopAll, main>>
        /\ \A h \in Gens \ {g} : hb'[h] = hb[h] /\ call'[h] = call[h]
    BY CallerFacts DEF BeatMove
  <1>1. BeatsAreKnown'
    BY <1>0 DEF StopInv, BeatsAreKnown, BeatMove
  <1>2. StopCovers'
    BY <1>0 DEF StopInv, StopCovers, BeatMove, SameObjects
  <1>3. StopHasEnded'
    <2>1. ASSUME ~accepting, main.pc = "down", hb[main.gen].pc = "off"
          PROVE  hb'[main.gen].pc = "off"
      <3>1. main.gen \in Gens
        BY <2>1 DEF StopInv, BeatsAreKnown
      <3>2. main.gen # g
        BY <2>1 DEF BeatMove
      <3> QED
        BY <1>0, <2>1, <3>1, <3>2
    <2> QED
      BY <1>0, <2>1 DEF StopInv, StopHasEnded, BeatMove, SameObjects
  <1> QED
    BY <1>1, <1>2, <1>3 DEF StopInv

\* ... nor does one that applies them: after the snapshot they are refused.
LEMMA StopRound ==
  ASSUME StopInv, NEW g \in Gens, NEW at \in Assignments, Round(g, at)
  PROVE  StopInv'
  <1>0. /\ UNCHANGED <<accepting, stopAll, main>> /\ hb[g].pc = "assign" /\ hb'[g].pc = "assign"
        /\ \A h \in Gens \ {g} : hb'[h] = hb[h]
        /\ Main \notin Gens /\ Main \in Callers /\ Gens \subseteq Callers
    BY CallerFacts DEF Round, lifecycleVars
  <1>1. accepting \/ UNCHANGED jobVars
    BY DEF Round, KillOutcome, StartOutcome, NewOutcome
  <1>2. \A l \in Callers \ {g} : call'[l] = call[l]
    BY DEF Round, KillOutcome, StartOutcome, NewOutcome, Begins, Loads, jobVars
  <1>3. BeatsAreKnown'
    BY <1>0, <1>2 DEF StopInv, BeatsAreKnown
  <1>4. StopCovers'
    <2>1. CASE accepting
      BY <1>0, <2>1 DEF StopInv, StopCovers
    <2>2. CASE UNCHANGED jobVars
      BY <1>0, <2>2 DEF StopInv, StopCovers, jobVars
    <2> QED
      BY <1>1, <2>1, <2>2
  <1>5. StopHasEnded'
    <2>1. ASSUME ~accepting, main.pc = "down", hb[main.gen].pc = "off"
          PROVE  hb'[main.gen].pc = "off"
      <3>1. main.gen \in Gens
        BY <2>1 DEF StopInv, BeatsAreKnown
      <3> QED
        BY <1>0, <2>1, <3>1
    <2> QED
      BY <1>0, <1>1, <2>1 DEF StopInv, StopHasEnded, jobVars
  <1> QED
    BY <1>3, <1>4, <1>5 DEF StopInv

\* After a crash the agent accepts, and nobody is inside.
LEMMA StopCrash ==
  ASSUME AgentTypeOK, Crash
  PROVE  StopInv'
  <1>1. /\ accepting' = TRUE /\ \A g \in Gens : hb'[g] = NoBeat
        /\ \A k \in Callers : call'[k] = NoCall
    BY DEF Crash, JobCrash
  <1>2. main'.pc = "down"
    BY DEF Crash, AgentTypeOK
  <1>3. BeatsAreKnown'
    <2>0. NoBeat.pc = "off" /\ NoBeat.todo = {}
      BY DEF NoBeat
    <2>1. \A g \in Gens : hb'[g].pc = "off" /\ hb'[g].todo = {}
      BY <1>1, <2>0
    <2>2. \A k \in Callers : call'[k].pc = "idle"
      BY <1>1 DEF NoCall
    <2> QED
      BY <1>1, <1>2, <2>1, <2>2, CallerFacts DEF BeatsAreKnown
  <1> QED
    BY <1>1, <1>2, <1>3 DEF StopInv, StopCovers, StopHasEnded

\* The steps of Start and Stop: Start accepts again, StopAll refuses and takes
\* its list in one critical section, and asks the runs of the list one by one.
LEMMA StopMain ==
  ASSUME StopInv, AgentTypeOK, JobInv, RunsAreListed, QuietMain
  PROVE  StopInv'
  <1>0. /\ main \in [pc : {"down", "up", "cancelled", "stopAll", "join"},
                     gen : Gens \cup {0}, timedOut : BOOLEAN, overlap : BOOLEAN]
        /\ stopAll \in [tasks : SUBSET Tasks, done : SUBSET (Tasks \X Nat)]
        /\ Main \notin Gens /\ Main \in Callers /\ Gens \subseteq Callers
    BY CallerFacts DEF AgentTypeOK
  <1>k. /\ \A g \in Gens :
             /\ call[g].pc # "idle" => hb[g].pc = "assign"
             /\ hb[g].pc # "assign" => hb[g].todo = {}
             /\ hb[g].pc = "output" => hb[g].cur \in Tasks
             /\ hb[g].pc # "off" => g <= main.gen
        /\ call[Main].pc # "idle" => main.pc = "stopAll"
        /\ main.pc # "down" \/ ~accepting => main.gen \in Gens
        /\ main.pc \in {"stopAll", "join"} => ~accepting
    BY DEF StopInv, BeatsAreKnown, StopCovers
  <1>b. ASSUME hb' = hb, call' = call, main'.gen = main.gen, main'.pc # "stopAll" => call[Main].pc = "idle",
               main'.pc # "down" \/ ~accepting' => main.gen \in Gens
        PROVE  BeatsAreKnown'
    BY <1>b, <1>k DEF BeatsAreKnown
  <1>1. CASE Start_
    <2>1. /\ main.gen + 1 \in Gens /\ hb'[main.gen + 1] = Waiting
          /\ \A h \in Gens \ {main.gen + 1} : hb'[h] = hb[h]
      BY <1>1, MainBeats
    <2>2. /\ main.pc = "down" /\ accepting' = TRUE /\ call' = call
          /\ main'.pc = "up" /\ main'.gen = main.gen + 1
      BY <1>1 DEF Start_, jobVars
    <2>3. hb[main.gen + 1].pc = "off" /\ call[main.gen + 1].pc = "idle"
      <3>1. main.gen \in Nat
        BY <1>0 DEF Gens
      <3>2. ~(main.gen + 1 <= main.gen)
        BY <3>1
      <3> QED
        BY <1>k, <2>1, <3>2
    <2>4. Waiting.pc = "wait" /\ Waiting.todo = {}
      BY DEF Waiting, NoBeat
    <2>5. \A h \in Gens : h <= main.gen => h <= main.gen + 1
      BY <1>0 DEF Gens
    <2>6. BeatsAreKnown'
      <3>1. ASSUME NEW h \in Gens
            PROVE  /\ call'[h].pc # "idle" => hb'[h].pc = "assign"
                   /\ hb'[h].pc # "assign" => hb'[h].todo = {}
                   /\ hb'[h].pc = "output" => hb'[h].cur \in Tasks
                   /\ hb'[h].pc # "off" => h <= main'.gen
        <4>1. CASE h = main.gen + 1
          BY <2>1, <2>2, <2>3, <2>4, <4>1 DEF Gens
        <4>2. CASE h # main.gen + 1
          BY <1>k, <2>1, <2>2, <2>5, <4>2
        <4> QED
          BY <4>1, <4>2
      <3> QED
        BY <1>k, <2>1, <2>2, <3>1 DEF BeatsAreKnown
    <2> QED
      BY <2>2, <2>6 DEF StopInv, StopCovers, StopHasEnded
  <1>2. CASE StopCancels
    <2>1. /\ main.pc = "up" /\ main'.pc = "cancelled" /\ main'.gen = main.gen /\ call' = call
          /\ hb' = hb /\ UNCHANGED <<task, accepting, stopAll>>
      BY <1>0, <1>2 DEF StopCancels, jobVars, localsVars
    <2>2. BeatsAreKnown'
      BY <1>b, <1>k, <2>1
    <2> QED
      BY <2>1, <2>2 DEF StopInv, StopCovers, StopHasEnded
  <1>3. CASE StopLocks
    <2>1. /\ main.pc = "cancelled" /\ main'.pc = "stopAll" /\ main'.gen = main.gen /\ call' = call
          /\ hb' = hb /\ task' = task /\ accepting' = FALSE
          /\ stopAll'.tasks = {t \in Tasks : Listed(t) /\ task[t].alive}
      BY <1>0, <1>3 DEF StopLocks, StopAllBegin, NoStop, jobVars
    <2>2. BeatsAreKnown'
      BY <1>b, <1>k, <2>1
    <2>3. StopCovers'
      BY <2>1 DEF StopCovers, RunsAreListed
    <2> QED
      BY <2>1, <2>2, <2>3 DEF StopInv, StopHasEnded
  <1>c. ~accepting => \A t \in Tasks : task[t].alive =>
          \/ t \in stopAll.tasks
          \/ call[Main].pc = "lock" /\ call[Main].task = t
          \/ <<t, task[t].epoch>> \in stopAll.done /\ (task[t].asked \/ task[t].completing)
    BY DEF StopInv, StopCovers
  <1>4. CASE StopRequests
    <2>0. /\ main.pc = "stopAll" /\ ~accepting /\ hb' = hb /\ main' = main /\ accepting' = accepting
          /\ main.gen \in Gens
      BY <1>4, <1>k DEF StopRequests, StopAllNext, StopAllLock, localsVars
    <2>1. ASSUME \A l \in Callers \ {Main} : call'[l] = call[l] PROVE BeatsAreKnown'
      BY <1>0, <1>k, <2>0, <2>1 DEF BeatsAreKnown
    <2>2. ASSUME StopCovers', BeatsAreKnown' PROVE StopInv'
      BY <2>0, <2>2 DEF StopInv, StopHasEnded
    <2>3. ASSUME NEW t \in Tasks, StopAllNext(t) PROVE StopInv'
      <3>1. /\ task' = task /\ call[Main].pc = "idle" /\ call'[Main].pc = "lock" /\ call'[Main].task = t
            /\ \A l \in Callers \ {Main} : call'[l] = call[l]
            /\ stopAll'.tasks = stopAll.tasks \ {t} /\ stopAll'.done = stopAll.done
        BY <1>0, <2>3 DEF StopAllNext, Calling, NoCall, JobInv, JobTypeOK
      <3>2. StopCovers'
        BY <1>c, <2>0, <3>1 DEF StopCovers
      <3> QED
        BY <2>1, <2>2, <3>1, <3>2
    <2>4. CASE StopAllLock
      <3> DEFINE t == call[Main].task
      <3>1. RequestLock(Main) /\ call[Main].pc = "lock"
        BY <2>4 DEF StopAllLock, RequestLock
      <3>2. /\ SameObjects /\ t \in Tasks /\ \A l \in Callers \ {Main} : call'[l] = call[l]
            /\ ~task[t].alive \/ task[t].completing \/ task'[t].asked
        BY <1>0, <3>1, RequestKeeps
      <3>3. /\ stopAll'.tasks = stopAll.tasks /\ stopAll.done \subseteq stopAll'.done
            /\ task[t].alive => <<t, task[t].epoch>> \in stopAll'.done
        BY <1>0, <2>4 DEF StopAllLock
      <3>4. StopCovers'
        <4>1. ASSUME NEW u \in Tasks, task'[u].alive
              PROVE  \/ u \in stopAll'.tasks
                     \/ /\ <<u, task'[u].epoch>> \in stopAll'.done
                        /\ task'[u].asked \/ task'[u].completing
          <5>1. /\ task[u].alive /\ task'[u].epoch = task[u].epoch
                /\ task'[u].completing = task[u].completing /\ (task[u].asked => task'[u].asked)
            BY <3>2, <4>1 DEF SameObjects
          <5>2. CASE u = t
            BY <3>2, <3>3, <5>1, <5>2
          <5>3. CASE u # t
            BY <1>c, <2>0, <3>3, <5>1, <5>3
          <5> QED
            BY <5>2, <5>3
        <4> QED
          BY <2>0, <4>1 DEF StopCovers
      <3> QED
        BY <2>1, <2>2, <3>2, <3>4
    <2>5. CASE RequestSend(Main) /\ UNCHANGED localsVars
      <3>1. /\ SameObjects /\ \A l \in Callers \ {Main} : call'[l] = call[l]
            /\ call[Main].pc = "send" /\ stopAll' = stopAll
        BY <1>0, <2>5, RequestKeeps DEF RequestSend, localsVars
      <3>2. StopCovers'
        BY <1>c, <2>0, <3>1 DEF StopCovers, SameObjects
      <3> QED
        BY <2>1, <2>2, <3>1, <3>2
    <2> QED
      BY <1>4, <2>3, <2>4, <2>5 DEF StopRequests
  <1>5. CASE StopTasksDone
    <2>1. /\ main.pc = "stopAll" /\ main'.pc = "join" /\ main'.gen = main.gen
          /\ call' = call /\ hb' = hb /\ UNCHANGED <<task, accepting, stopAll>>
          /\ stopAll.tasks = {} /\ call[Main].pc = "idle"
      BY <1>0, <1>5 DEF StopTasksDone, StopLoopOver, jobVars, localsVars
    <2>2. BeatsAreKnown'
      BY <1>b, <1>k, <2>1
    <2>3. ASSUME NEW t \in Tasks, task[t].alive PROVE FALSE
      <3>1. <<t, task[t].epoch>> \in stopAll.done
        BY <1>c, <1>k, <2>1, <2>3
      <3>2. ~(task[<<t, task[t].epoch>>[1]].alive /\
              task[<<t, task[t].epoch>>[1]].epoch = <<t, task[t].epoch>>[2])
        BY <1>5, <3>1 DEF StopTasksDone, Closed
      <3> QED
        BY <2>3, <3>2
    <2> QED
      BY <1>k, <2>1, <2>2, <2>3 DEF StopInv, StopCovers, StopHasEnded
  <1>6. CASE StopTasksTimeout \/ StopJoinTimeout
    <2>1. /\ main'.pc = "down" /\ main'.gen = main.gen /\ main'.timedOut = TRUE
          /\ call' = call /\ hb' = hb /\ UNCHANGED <<task, accepting, stopAll>>
          /\ main.pc \in {"stopAll", "join"} /\ call[Main].pc = "idle"
      BY <1>0, <1>6, <1>k DEF StopTasksTimeout, StopJoinTimeout, StopLoopOver, jobVars, localsVars
    <2>2. BeatsAreKnown'
      BY <1>b, <1>k, <2>1
    <2> QED
      BY <1>c, <1>k, <2>1, <2>2 DEF StopInv, StopCovers, StopHasEnded
  <1>7. CASE StopJoins
    <2>1. /\ main'.pc = "down" /\ main'.gen = main.gen /\ main'.timedOut = main.timedOut
          /\ call' = call /\ hb' = hb /\ UNCHANGED <<task, accepting, stopAll>>
          /\ main.pc = "join" /\ call[Main].pc = "idle" /\ hb[main.gen].pc = "off"
      BY <1>0, <1>7, <1>k DEF StopJoins, jobVars, localsVars
    <2>2. BeatsAreKnown'
      BY <1>b, <1>k, <2>1
    <2> QED
      BY <1>c, <1>k, <2>1, <2>2 DEF StopInv, StopCovers, StopHasEnded
  <1> QED
    BY <1>1, <1>2, <1>3, <1>4, <1>5, <1>6, <1>7 DEF QuietMain

----------------------------------------------------------------------------
(* The order in which assignments are applied *)

\* What is in the past of an id, before and after a step.
LEMMA PastMember ==
  ASSUME NEW i \in Ids, NEW d
  PROVE  /\ d \in PastClocks(i) <=>
              \/ d \in disk[i].ran
              \/ d \in Clocks /\ disk[i].done[d] # "none"
              \/ d = disk[i].out.clock
              \/ \E t \in Tasks : IdOf(t) = i /\ task[t].alive /\ d = run[t].clock
         /\ d \in PastClocks(i)' <=>
              \/ d \in disk'[i].ran
              \/ d \in Clocks /\ disk'[i].done[d] # "none"
              \/ d = disk'[i].out.clock
              \/ \E t \in Tasks : IdOf(t) = i /\ task'[t].alive /\ d = run'[t].clock
  BY DEF PastClocks

\* Clocks are numbers.
LEMMA ClockFacts ==
  ASSUME JobInv, AgentTypeOK
  PROVE  /\ \A i \in Ids : /\ PastClocks(i) \subseteq Nat /\ server[i].clock \in Nat
                           /\ disk[i].out.clock \in Nat /\ disk[i].ran \subseteq Clocks
         /\ \A t \in Tasks : task[t].clock \in Nat /\ run[t].clock \in Nat
         /\ Clocks \subseteq Nat
  <1>1. Clocks \subseteq Nat
    BY JobAssumption
  <1>0. Clocks \cup {0} \subseteq Nat
    BY <1>1
  <1>2. ASSUME NEW t \in Tasks PROVE task[t].clock \in Nat /\ run[t].clock \in Nat
    <2>1. task[t].clock \in Clocks \cup {0} /\ run[t].clock \in Clocks \cup {0}
      BY DEF JobInv, JobTypeOK, TaskRecord, RunRecord
    <2> QED
      BY <1>0, <2>1
  <1>3. ASSUME NEW i \in Ids
        PROVE  /\ server[i].clock \in Nat /\ disk[i].out.clock \in Nat
               /\ disk[i].ran \subseteq Clocks
    <2>1. disk[i].out.clock \in Clocks \cup {0} /\ disk[i].ran \subseteq Clocks
      BY DEF JobInv, JobTypeOK, DirRecord
    <2>2. server[i].clock \in Clocks \cup {0}
      BY DEF AgentTypeOK
    <2> QED
      BY <1>0, <2>1, <2>2
  <1>4. ASSUME NEW i \in Ids, NEW d \in PastClocks(i) PROVE d \in Nat
    <2>1. \/ d \in disk[i].ran \/ d \in Clocks \/ d = disk[i].out.clock
          \/ \E t \in Tasks : d = run[t].clock
      BY PastMember
    <2> QED
      BY <1>1, <1>2, <1>3, <2>1
  <1> QED
    BY <1>1, <1>2, <1>3, <1>4

\* A listed object is an object of its id.
LEMMA ListedFacts ==
  ASSUME AgentTypeOK, TableIsKeyed, NEW i \in Ids, M[i] # NoTask
  PROVE  M[i] \in Tasks /\ IdOf(M[i]) = i
  BY DEF AgentTypeOK, TableIsKeyed

\* At most one object of an id runs.
LEMMA OneRun ==
  ASSUME RunsAreListed, NEW t \in Tasks, NEW u \in Tasks, IdOf(t) = IdOf(u),
         task[t].alive, task[u].alive \/ Listed(u)
  PROVE  t = u
  BY DEF RunsAreListed, Listed

\* Quiet steps keep the order.
LEMMA OrderQuiet ==
  ASSUME JobInv, AgentTypeOK, TableRest, OrderInv, Quiet
  PROVE  OrderInv'
  <1>0. /\ run' = run /\ disk' = disk /\ server' = server
        /\ \A i \in Ids : M'[i] = M[i] \/ M'[i] = NoTask
        /\ main.overlap => main'.overlap
        /\ \A g \in Gens : hb'[g].todo \subseteq hb[g].todo
        /\ \A u \in Tasks : /\ task'[u].alive = task[u].alive /\ task'[u].epoch = task[u].epoch
                            /\ task'[u].status = task[u].status /\ task'[u].clock = task[u].clock
                            /\ task'[u].action = task[u].action
    BY DEF Quiet, SameObjects, TableShrinks
  <1>1. ASSUME NEW i \in Ids PROVE PastClocks(i)' = PastClocks(i)
    <2>1. ASSUME NEW d PROVE d \in PastClocks(i)' <=> d \in PastClocks(i)
      BY <1>0, PastMember
    <2> QED
      BY <2>1
  <1>2. ASSUME NEW i \in Ids, NEW c, NEW a, ListedIsUpTo(i, c, a)
        PROVE  M'[i] # NoTask => /\ task'[M'[i]].clock <= c
                                 /\ task'[M'[i]].clock = c => task'[M'[i]].action = a
    BY <1>0, <1>2, ListedFacts DEF ListedIsUpTo, TableRest
  <1>a. \A g \in Gens : \A at \in hb[g].todo : at.id \in Ids
    BY DEF AgentTypeOK, BeatRecord, Assignments
  <1>3. ServerIsAhead'
    <2>1. ASSUME NEW i \in Ids
          PROVE  /\ \A d \in PastClocks(i)' : d <= server'[i].clock
                 /\ M'[i] # NoTask =>
                      /\ task'[M'[i]].clock <= server'[i].clock
                      /\ task'[M'[i]].clock = server'[i].clock => task'[M'[i]].action = server'[i].action
      BY <1>0, <1>1, <1>2 DEF OrderInv, ServerIsAhead, PastIsUpTo
    <2>2. ASSUME NEW g \in Gens, NEW at \in hb'[g].todo
          PROVE  /\ at.clock <= server'[at.id].clock
                 /\ at.clock = server'[at.id].clock => at.action = server'[at.id].action
                 /\ \A other \in hb'[g].todo : other.id = at.id => other = at
      BY <1>0 DEF OrderInv, ServerIsAhead
    <2> QED
      BY <2>1, <2>2 DEF ServerIsAhead, PastIsUpTo, ListedIsUpTo
  <1>4. AppliedInOrder'
    <2> SUFFICES ASSUME ~main'.overlap
                 PROVE  /\ \A g \in Gens : \A at \in hb'[g].todo :
                             /\ \A d \in PastClocks(at.id)' : d <= at.clock
                             /\ M'[at.id] # NoTask =>
                                  /\ task'[M'[at.id]].clock <= at.clock
                                  /\ task'[M'[at.id]].clock = at.clock =>
                                       task'[M'[at.id]].action = at.action
                        /\ \A i \in Ids : M'[i] # NoTask =>
                             \A d \in PastClocks(i)' : d <= task'[M'[i]].clock
                        /\ \A t \in Tasks : task'[t].alive =>
                             \A d \in Clocks : disk'[IdOf(t)].done[d] # "none" => d <= run'[t].clock
      BY DEF AppliedInOrder, PastIsUpTo, ListedIsUpTo
    <2>0. ~main.overlap
      BY <1>0
    <2>1. ASSUME NEW g \in Gens, NEW at \in hb'[g].todo
          PROVE  /\ \A d \in PastClocks(at.id)' : d <= at.clock
                 /\ M'[at.id] # NoTask =>
                      /\ task'[M'[at.id]].clock <= at.clock
                      /\ task'[M'[at.id]].clock = at.clock => task'[M'[at.id]].action = at.action
      <3>1. at \in hb[g].todo /\ at.id \in Ids
        BY <1>0, <1>a
      <3>2. ListedIsUpTo(at.id, at.clock, at.action) /\ \A d \in PastClocks(at.id) : d <= at.clock
        BY <2>0, <3>1 DEF OrderInv, AppliedInOrder, PastIsUpTo
      <3> QED
        BY <1>1, <1>2, <3>1, <3>2
    <2>2. ASSUME NEW i \in Ids, M'[i] # NoTask
          PROVE  \A d \in PastClocks(i)' : d <= task'[M'[i]].clock
      <3>1. M'[i] = M[i] /\ M[i] \in Tasks
        BY <1>0, <2>2, ListedFacts DEF TableRest
      <3>2. \A d \in PastClocks(i) : d <= task[M[i]].clock
        BY <2>0, <2>2, <3>1 DEF OrderInv, AppliedInOrder, PastIsUpTo
      <3> QED
        BY <1>0, <1>1, <3>1, <3>2
    <2>3. ASSUME NEW t \in Tasks, task'[t].alive
          PROVE  \A d \in Clocks : disk'[IdOf(t)].done[d] # "none" => d <= run'[t].clock
      BY <1>0, <2>0, <2>3 DEF OrderInv, AppliedInOrder
    <2> QED
      BY <2>1, <2>2, <2>3
  <1>5. RanIsRecorded'
    BY <1>0 DEF OrderInv, RanIsRecorded
  <1>6. OutputIsFlushed'
    BY <1>0 DEF OrderInv, OutputIsFlushed
  <1>7. NoSecondRun'
    BY <1>0 DEF OrderInv, NoSecondRun
  <1>8. LoadedOutputIsOwn'
    <2>1. ASSUME NEW t \in Tasks, M'[IdOf(t)] = t PROVE M[IdOf(t)] = t
      BY <1>0, <2>1, TaskFacts
    <2> QED
      BY <1>0, <2>1 DEF OrderInv, LoadedOutputIsOwn, Listed
  <1> QED
    BY <1>3, <1>4, <1>5, <1>6, <1>7, <1>8 DEF OrderInv

\* A larger clock of the server is ahead of everything.
LEMMA OrderServer ==
  ASSUME JobInv, AgentTypeOK, TableRest, OrderInv, NEW i \in Ids, ServerAssigns(i)
  PROVE  OrderInv'
  <1>0. UNCHANGED <<task, run, disk, M, hb, main>>
    BY DEF ServerAssigns, jobVars, localsVars
  <1>1. PICK c \in Clocks, a \in Action :
          c > server[i].clock /\ server' = [server EXCEPT ![i] = [clock |-> c, action |-> a]]
    BY DEF ServerAssigns
  <1>2. /\ server'[i].clock = c /\ server[i].clock < server'[i].clock /\ server'[i].clock \in Nat
        /\ server[i].clock \in Nat
        /\ \A j \in Ids \ {i} : server'[j] = server[j]
    BY <1>1, ClockFacts DEF AgentTypeOK
  <1>3. \A j \in Ids : PastClocks(j)' = PastClocks(j)
    BY <1>0 DEF PastClocks
  <1>f. /\ \A j \in Ids : PastClocks(j) \subseteq Nat
        /\ \A t \in Tasks : task[t].clock \in Nat
    BY ClockFacts
  <1>g. \A g \in Gens : \A at \in hb[g].todo : at.id \in Ids /\ at.clock \in Nat
    <2>1. \A g \in Gens : \A at \in hb[g].todo : at.id \in Ids /\ at.clock \in Clocks
      BY DEF AgentTypeOK, BeatRecord, Assignments
    <2> QED
      BY <2>1, JobAssumption
  <1>4. ServerIsAhead'
    <2>1. ASSUME NEW j \in Ids
          PROVE  /\ \A d \in PastClocks(j)' : d <= server'[j].clock
                 /\ M'[j] # NoTask =>
                      /\ task'[M'[j]].clock <= server'[j].clock
                      /\ task'[M'[j]].clock = server'[j].clock => task'[M'[j]].action = server'[j].action
      <3>1. /\ \A d \in PastClocks(j) : d <= server[j].clock
            /\ M[j] # NoTask =>
                 /\ task[M[j]].clock <= server[j].clock
                 /\ task[M[j]].clock = server[j].clock => task[M[j]].action = server[j].action
        BY DEF OrderInv, ServerIsAhead, PastIsUpTo, ListedIsUpTo
      <3>2. M[j] # NoTask => M[j] \in Tasks
        BY ListedFacts DEF TableRest
      <3>3. CASE j = i
        BY <1>0, <1>2, <1>3, <1>f, <3>1, <3>2, <3>3
      <3>4. CASE j # i
        BY <1>0, <1>2, <1>3, <3>1, <3>4
      <3> QED
        BY <3>3, <3>4
    <2>2. ASSUME NEW g \in Gens, NEW at \in hb'[g].todo
          PROVE  /\ at.clock <= server'[at.id].clock
                 /\ at.clock = server'[at.id].clock => at.action = server'[at.id].action
                 /\ \A other \in hb'[g].todo : other.id = at.id => other = at
      <3>1. /\ at \in hb[g].todo /\ at.id \in Ids /\ at.clock \in Nat
            /\ at.clock <= server[at.id].clock
            /\ at.clock = server[at.id].clock => at.action = server[at.id].action
            /\ \A other \in hb'[g].todo : other.id = at.id => other = at
        BY <1>0, <1>g DEF OrderInv, ServerIsAhead
      <3>2. CASE at.id = i
        BY <1>2, <3>1, <3>2
      <3>3. CASE at.id # i
        BY <1>2, <3>1, <3>3
      <3> QED
        BY <3>2, <3>3
    <2> QED
      BY <2>1, <2>2 DEF ServerIsAhead, PastIsUpTo, ListedIsUpTo
  <1>5. AppliedInOrder'
    BY <1>0, <1>3, <1>g DEF OrderInv, AppliedInOrder, PastIsUpTo, ListedIsUpTo
  <1>6. RanIsRecorded' /\ OutputIsFlushed' /\ NoSecondRun'
    BY <1>0 DEF OrderInv, RanIsRecorded, OutputIsFlushed, NoSecondRun
  <1>7. LoadedOutputIsOwn'
    BY <1>0 DEF OrderInv, LoadedOutputIsOwn, Listed
  <1> QED
    BY <1>4, <1>5, <1>6, <1>7 DEF OrderInv

\* An answer holds what the server has at that moment.
LEMMA OrderAnswer ==
  ASSUME JobInv, AgentTypeOK, TableRest, OrderInv, NEW g \in Gens, CallReturns(g)
  PROVE  OrderInv'
  <1>0. UNCHANGED <<task, run, disk, M, main, server>>
    BY DEF CallReturns, jobVars, localsVars, lifecycleVars
  <1>1. PICK answer \in SUBSET Current :
          hb' = [hb EXCEPT ![g] = [NoBeat EXCEPT !.pc = "assign", !.todo = answer]]
    BY DEF CallReturns
  <1>2. hb'[g].todo = answer /\ \A h \in Gens \ {g} : hb'[h] = hb[h]
    BY <1>1 DEF NoBeat, AgentTypeOK
  <1>3. /\ \A at \in answer : /\ at.id \in Ids /\ at.clock = server[at.id].clock
                              /\ at.action = server[at.id].action
                              /\ at \in Assignments
    BY CurrentType
  <1>4. \A at, other \in answer : other.id = at.id => other = at
    BY DEF Current
  <1>5. \A j \in Ids : PastClocks(j)' = PastClocks(j)
    BY <1>0 DEF PastClocks
  <1>6. ServerIsAhead'
    <2>1. ASSUME NEW h \in Gens, NEW at \in hb'[h].todo
          PROVE  /\ at.clock <= server'[at.id].clock
                 /\ at.clock = server'[at.id].clock => at.action = server'[at.id].action
                 /\ \A other \in hb'[h].todo : other.id = at.id => other = at
      <3>1. CASE h = g
        <4>1. at \in answer /\ at.clock = server'[at.id].clock /\ at.clock \in Nat
          BY <1>0, <1>2, <1>3, <3>1, ClockFacts
        <4> QED
          BY <1>0, <1>2, <1>3, <1>4, <3>1, <4>1
      <3>2. CASE h # g
        BY <1>0, <1>2, <3>2 DEF OrderInv, ServerIsAhead
      <3> QED
        BY <3>1, <3>2
    <2> QED
      BY <1>0, <1>5, <2>1 DEF OrderInv, ServerIsAhead, PastIsUpTo, ListedIsUpTo
  <1>7. AppliedInOrder'
    <2> SUFFICES ASSUME ~main'.overlap, NEW h \in Gens, NEW at \in hb'[h].todo
                 PROVE  /\ \A d \in PastClocks(at.id)' : d <= at.clock
                        /\ M'[at.id] # NoTask =>
                             /\ task'[M'[at.id]].clock <= at.clock
                             /\ task'[M'[at.id]].clock = at.clock =>
                                  task'[M'[at.id]].action = at.action
      BY <1>0, <1>5 DEF OrderInv, AppliedInOrder, PastIsUpTo, ListedIsUpTo
    <2>1. CASE h = g
      <3>1. at.id \in Ids /\ at.clock = server[at.id].clock /\ at.action = server[at.id].action
        BY <1>2, <1>3, <2>1
      <3> QED
        BY <1>0, <1>5, <3>1 DEF OrderInv, ServerIsAhead, PastIsUpTo, ListedIsUpTo
    <2>2. CASE h # g
      <3>1. at \in hb[h].todo /\ at.id \in Ids
        BY <1>2, <2>2 DEF AgentTypeOK, BeatRecord, Assignments
      <3> QED
        BY <1>0, <1>5, <3>1 DEF OrderInv, AppliedInOrder, PastIsUpTo, ListedIsUpTo
    <2> QED
      BY <2>1, <2>2
  <1>8. RanIsRecorded' /\ OutputIsFlushed' /\ NoSecondRun'
    BY <1>0 DEF OrderInv, RanIsRecorded, OutputIsFlushed, NoSecondRun
  <1>9. LoadedOutputIsOwn'
    BY <1>0 DEF OrderInv, LoadedOutputIsOwn, Listed
  <1> QED
    BY <1>6, <1>7, <1>8, <1>9 DEF OrderInv

\* A crash loses the results of the runs it ends, and nothing else of the past.
LEMMA OrderCrash ==
  ASSUME JobInv, AgentTypeOK, OrderInv, Crash
  PROVE  OrderInv'
  <1>1. /\ \A i \in Ids : M'[i] = NoTask
        /\ \A g \in Gens : hb'[g].todo = {}
        /\ server' = server
    <2>1. NoBeat.todo = {}
      BY DEF NoBeat
    <2> QED
      BY <2>1 DEF Crash
  <1>2. \A t \in Tasks : ~task'[t].alive /\ run'[t].pc = "idle"
    BY DEF Crash, JobCrash, newTask, NoRun
  <1>m. main'.overlap = main.overlap
    BY DEF Crash, AgentTypeOK
  <1>3. ASSUME NEW i \in Ids
        PROVE  /\ disk'[i].ran = disk[i].ran /\ disk'[i].done = disk[i].done
               /\ disk'[i].out = disk[i].out /\ disk'[i].unflushed = disk[i].unflushed
               /\ disk[i].lost \subseteq disk'[i].lost
               /\ \A t \in Tasks : IdOf(t) = i /\ run[t].pc \notin {"idle", "close"} =>
                    run[t].clock \in disk'[i].lost
    <2> DEFINE L == {run[t].clock : t \in {u \in Tasks : IdOf(u) = i /\ run[u].pc \notin {"idle", "close"}}}
    <2>1. disk'[i] = [disk[i] EXCEPT !.lost = @ \cup L] /\ disk[i] \in DirRecord
      BY DEF Crash, JobCrash, JobInv, JobTypeOK
    <2>2. \A t \in Tasks : IdOf(t) = i /\ run[t].pc \notin {"idle", "close"} => run[t].clock \in L
      OBVIOUS
    <2> HIDE DEF L
    <2> QED
      BY <2>1, <2>2 DEF DirRecord
  <1>4. ASSUME NEW i \in Ids, NEW d \in PastClocks(i)' PROVE d \in PastClocks(i)
    BY <1>2, <1>3, PastMember
  <1>5. ServerIsAhead'
    BY <1>1, <1>4 DEF OrderInv, ServerIsAhead, PastIsUpTo, ListedIsUpTo
  <1>6. AppliedInOrder'
    BY <1>1, <1>2 DEF AppliedInOrder
  <1>7. RanIsRecorded'
    <2> SUFFICES ASSUME NEW i \in Ids, NEW c \in disk'[i].ran
                 PROVE  disk'[i].done[c] # "none" \/ c \in disk'[i].lost
      BY DEF RanIsRecorded
    <2>1. c \in disk[i].ran
      BY <1>3
    <2>2. \/ disk[i].done[c] # "none"
          \/ c \in disk[i].lost
          \/ \E t \in Tasks : /\ IdOf(t) = i /\ run[t].clock = c
                              /\ run[t].pc \notin {"idle", "close"}
      BY <2>1 DEF OrderInv, RanIsRecorded
    <2> QED
      BY <1>3, <2>2
  <1>8. OutputIsFlushed'
    BY <1>2, <1>3, <1>m DEF OrderInv, OutputIsFlushed
  <1>9. NoSecondRun' /\ LoadedOutputIsOwn'
    <2>1. \A t \in Tasks : M'[IdOf(t)] # t
      BY <1>1, TaskFacts
    <2> QED
      BY <1>2, <2>1 DEF NoSecondRun, LoadedOutputIsOwn, Listed
  <1> QED
    BY <1>5, <1>6, <1>7, <1>8, <1>9 DEF OrderInv


\* A step of a run adds its own clock to the past of its id, where it already is.
LEMMA OrderRun ==
  ASSUME JobInv, AgentTypeOK, TableRest, OrderInv, NEW t \in Tasks,
         Effect(t), DirEffect(t), ObjectEffect(t), UNCHANGED <<localsVars, hb, lifecycleVars>>
  PROVE  OrderInv'
  <1>0. /\ M' = M /\ hb' = hb /\ main' = main /\ server' = server
        /\ IdOf(t) \in Ids /\ task[t].alive /\ run[t].clock \in Clocks
    BY TaskFacts DEF localsVars, lifecycleVars, JobInv, AliveIsRunning, RunHasClock, Effect
  <1>1. /\ \A u \in Tasks \ {t} : task'[u] = task[u] /\ run'[u] = run[u]
        /\ run'[t].clock = run[t].clock /\ task'[t].clock = task[t].clock
        /\ task'[t].action = task[t].action /\ task'[t].epoch = task[t].epoch
        /\ run'[t].pc # "begun" /\ (task'[t].alive => task[t].alive)
        /\ \A j \in Ids \ {IdOf(t)} : disk'[j] = disk[j]
    BY DEF Effect, ObjectEffect, DirEffect
  <1>2. \A u \in Tasks \ {t} : task[u].alive \/ Listed(u) => IdOf(u) # IdOf(t)
    BY <1>0, OneRun DEF TableRest
  <1>a. \A u \in Tasks : run[u].pc # "idle" => task[u].alive
    BY DEF JobInv, AliveIsRunning
  <1>f. /\ \A i \in Ids : /\ PastClocks(i) \subseteq Nat
                          /\ disk[i].out.clock \in Nat /\ disk[i].ran \subseteq Clocks
        /\ run[t].clock \in Nat /\ Clocks \subseteq Nat
    BY ClockFacts
  <1>3. ASSUME NEW i \in Ids, NEW d \in PastClocks(i)' PROVE d \in PastClocks(i)
    <2>1. CASE i # IdOf(t)
      <3>1. disk'[i] = disk[i]
        BY <1>1, <2>1
      <3>2. ASSUME NEW u \in Tasks, IdOf(u) = i PROVE task'[u] = task[u] /\ run'[u] = run[u]
        BY <1>1, <2>1, <3>2
      <3> QED
        BY <3>1, <3>2, PastMember
    <2>2. CASE i = IdOf(t)
      <3>1. run[t].clock \in PastClocks(i)
        BY <1>0, <2>2, PastMember
      <3>2. CASE d \in disk'[i].ran
        <4>1. d \in disk[i].ran \/ d = run[t].clock
          BY <2>2, <3>2 DEF DirEffect
        <4> QED
          BY <3>1, <4>1, PastMember
      <3>3. CASE d \in Clocks /\ disk'[i].done[d] # "none"
        <4>1. disk[i].done[d] # "none" \/ d = run[t].clock
          BY <2>2, <3>3 DEF DirEffect
        <4> QED
          BY <3>1, <3>3, <4>1, PastMember
      <3>4. CASE d = disk'[i].out.clock
        <4>1. d = disk[i].out.clock \/ d = run[t].clock
          BY <2>2, <3>4 DEF DirEffect
        <4> QED
          BY <3>1, <4>1, PastMember
      <3>5. ASSUME NEW u \in Tasks, IdOf(u) = i, task'[u].alive, d = run'[u].clock
            PROVE  d \in PastClocks(i)
        <4>1. task[u].alive /\ d = run[u].clock
          BY <1>1, <3>5
        <4> QED
          BY <3>5, <4>1, PastMember
      <3> QED
        BY <3>2, <3>3, <3>4, <3>5, PastMember
    <2> QED
      BY <2>1, <2>2
  <1>4. \A u \in Tasks : task'[u].clock = task[u].clock /\ task'[u].action = task[u].action
    BY <1>1
  <1>l. \A i \in Ids : M[i] # NoTask => M[i] \in Tasks
    BY ListedFacts DEF TableRest
  <1>5. ServerIsAhead'
    BY <1>0, <1>3, <1>4, <1>l DEF OrderInv, ServerIsAhead, PastIsUpTo, ListedIsUpTo
  <1>g. \A g \in Gens : \A at \in hb[g].todo : at.id \in Ids
    BY DEF AgentTypeOK, BeatRecord, Assignments
  <1>o. ~main.overlap => \A u \in Tasks : task[u].alive =>
          \A d \in Clocks : disk[IdOf(u)].done[d] # "none" => d <= run[u].clock
    BY DEF OrderInv, AppliedInOrder
  <1>6. AppliedInOrder'
    <2> SUFFICES ASSUME ~main.overlap
                 PROVE  /\ \A g \in Gens : \A at \in hb[g].todo :
                             /\ \A d \in PastClocks(at.id)' : d <= at.clock
                             /\ M[at.id] # NoTask =>
                                  /\ task'[M[at.id]].clock <= at.clock
                                  /\ task'[M[at.id]].clock = at.clock =>
                                       task'[M[at.id]].action = at.action
                        /\ \A i \in Ids : M[i] # NoTask =>
                             \A d \in PastClocks(i)' : d <= task'[M[i]].clock
                        /\ \A u \in Tasks : task'[u].alive =>
                             \A d \in Clocks : disk'[IdOf(u)].done[d] # "none" => d <= run'[u].clock
      BY <1>0 DEF AppliedInOrder, PastIsUpTo, ListedIsUpTo
    <2>1. ASSUME NEW g \in Gens, NEW at \in hb[g].todo
          PROVE  /\ \A d \in PastClocks(at.id)' : d <= at.clock
                 /\ M[at.id] # NoTask =>
                      /\ task'[M[at.id]].clock <= at.clock
                      /\ task'[M[at.id]].clock = at.clock => task'[M[at.id]].action = at.action
      BY <1>3, <1>4, <1>g, <1>l DEF OrderInv, AppliedInOrder, PastIsUpTo, ListedIsUpTo
    <2>2. ASSUME NEW i \in Ids, M[i] # NoTask
          PROVE  \A d \in PastClocks(i)' : d <= task'[M[i]].clock
      BY <1>3, <1>4, <1>l, <2>2 DEF OrderInv, AppliedInOrder, PastIsUpTo
    <2>3. ASSUME NEW u \in Tasks, task'[u].alive, NEW d \in Clocks, disk'[IdOf(u)].done[d] # "none"
          PROVE  d <= run'[u].clock
      <3>1. CASE u = t
        <4>1. disk[IdOf(t)].done[d] # "none" \/ d = run[t].clock
          BY <2>3, <3>1 DEF DirEffect
        <4> QED
          BY <1>0, <1>1, <1>f, <1>o, <3>1, <4>1
      <3>2. CASE u # t
        <4>1. task[u].alive /\ run'[u] = run[u]
          BY <1>1, <2>3, <3>2
        <4>2. disk'[IdOf(u)] = disk[IdOf(u)]
          BY <1>1, <1>2, <3>2, <4>1, TaskFacts
        <4> QED
          BY <1>o, <2>3, <4>1, <4>2
      <3> QED
        BY <3>1, <3>2
    <2> QED
      BY <2>1, <2>2, <2>3
  <1>7. RanIsRecorded'
    <2> SUFFICES ASSUME NEW i \in Ids, NEW c \in disk'[i].ran
                 PROVE  \/ disk'[i].done[c] # "none"
                        \/ c \in disk'[i].lost
                        \/ \E u \in Tasks : /\ IdOf(u) = i /\ run'[u].clock = c
                                            /\ run'[u].pc \notin {"idle", "close"}
      BY DEF RanIsRecorded
    <2>1. CASE i # IdOf(t)
      <3>1. disk'[i] = disk[i] /\ \A u \in Tasks : IdOf(u) = i => run'[u] = run[u]
        BY <1>1, <2>1
      <3> QED
        BY <3>1 DEF OrderInv, RanIsRecorded
    <2>2. CASE i = IdOf(t)
      <3>1. CASE c \in disk[i].ran
        <4>0. c \in Clocks
          BY <1>f, <3>1
        <4>1. CASE disk[i].done[c] # "none" \/ c \in disk[i].lost
          BY <2>2, <4>0, <4>1 DEF DirEffect
        <4>2. ASSUME NEW u \in Tasks, IdOf(u) = i, run[u].clock = c,
                     run[u].pc \notin {"idle", "close"}
              PROVE  \/ disk'[i].done[c] # "none"
                     \/ c \in disk'[i].lost
                     \/ run'[u].clock = c /\ run'[u].pc \notin {"idle", "close"}
          <5>1. u = t
            BY <1>2, <1>a, <2>2, <4>2
          <5> QED
            BY <1>1, <2>2, <4>2, <5>1 DEF DirEffect
        <4> QED
          BY <3>1, <4>1, <4>2 DEF OrderInv, RanIsRecorded
      <3>2. CASE c \notin disk[i].ran
        BY <1>1, <2>2, <3>2 DEF DirEffect
      <3> QED
        BY <3>1, <3>2
    <2> QED
      BY <2>1, <2>2
  <1>8. OutputIsFlushed'
    <2>o. /\ \A u \in Tasks : run[u].pc \in {"persist", "record"} =>
               disk[IdOf(u)].out.clock = run[u].clock \/ run[u].clock \in disk[IdOf(u)].unflushed
          /\ ~main.overlap => \A i \in Ids : \A c \in Clocks :
               disk[i].done[c] # "none" => disk[i].out.clock >= c \/ c \in disk[i].unflushed
      BY DEF OrderInv, OutputIsFlushed
    <2>1. ASSUME NEW u \in Tasks, run'[u].pc \in {"persist", "record"}
          PROVE  disk'[IdOf(u)].out.clock = run'[u].clock \/ run'[u].clock \in disk'[IdOf(u)].unflushed
      <3>1. CASE u = t
        <4>1. \/ disk'[IdOf(t)].out.clock = run[t].clock
              \/ run[t].clock \in disk'[IdOf(t)].unflushed
              \/ run[t].pc \in {"persist", "record"} /\ disk'[IdOf(t)].out = disk[IdOf(t)].out
          BY <2>1, <3>1 DEF DirEffect
        <4>2. disk[IdOf(t)].unflushed \subseteq disk'[IdOf(t)].unflushed
          BY DEF DirEffect
        <4> QED
          BY <1>1, <2>o, <3>1, <4>1, <4>2
      <3>2. CASE u # t
        <4>1. run'[u] = run[u] /\ task[u].alive
          BY <1>1, <1>a, <2>1, <3>2
        <4>2. disk'[IdOf(u)] = disk[IdOf(u)]
          BY <1>1, <1>2, <3>2, <4>1, TaskFacts
        <4> QED
          BY <2>1, <2>o, <4>1, <4>2
      <3> QED
        BY <3>1, <3>2
    <2>2. ASSUME ~main.overlap, NEW i \in Ids, NEW c \in Clocks, disk'[i].done[c] # "none"
          PROVE  disk'[i].out.clock >= c \/ c \in disk'[i].unflushed
      <3>1. CASE i # IdOf(t)
        BY <1>1, <2>2, <2>o, <3>1
      <3>2. CASE i = IdOf(t)
        <4>0. c \in Nat /\ disk[i].unflushed \subseteq disk'[i].unflushed
          BY <1>f, <3>2 DEF DirEffect
        <4>1. disk'[i].out.clock = disk[i].out.clock \/ disk'[i].out.clock = run[t].clock
          BY <3>2 DEF DirEffect
        <4>2. CASE disk[i].done[c] # "none"
          <5>1. c <= run[t].clock
            BY <1>0, <1>o, <2>2, <3>2, <4>2
          <5>2. disk[i].out.clock >= c \/ c \in disk[i].unflushed
            BY <2>2, <2>o, <4>2
          <5> QED
            BY <1>f, <4>0, <4>1, <5>1, <5>2
        <4>3. CASE disk[i].done[c] = "none"
          <5>1. c = run[t].clock /\ run[t].pc \in {"persist", "record"}
            BY <2>2, <3>2, <4>3 DEF DirEffect
          <5>2. disk[i].out.clock = c \/ c \in disk[i].unflushed
            BY <2>o, <3>2, <5>1
          <5> QED
            BY <1>f, <4>0, <4>1, <5>1, <5>2
        <4> QED
          BY <4>2, <4>3
      <3> QED
        BY <3>1, <3>2
    <2> QED
      BY <1>0, <2>1, <2>2 DEF OutputIsFlushed
  <1>9. NoSecondRun'
    <2> SUFFICES ASSUME NEW u \in Tasks, run'[u].pc = "begun", ~main.overlap,
                        run'[u].clock \in disk'[IdOf(u)].ran
                 PROVE  run'[u].clock \in disk'[IdOf(u)].lost
      BY <1>0 DEF NoSecondRun
    <2>1. u # t /\ run'[u] = run[u] /\ task[u].alive
      BY <1>1, <1>a
    <2>2. disk'[IdOf(u)] = disk[IdOf(u)]
      BY <1>1, <1>2, <2>1, TaskFacts
    <2> QED
      BY <2>1, <2>2 DEF OrderInv, NoSecondRun
  <1>10. LoadedOutputIsOwn'
    <2> SUFFICES ASSUME NEW u \in Tasks, M[IdOf(u)] = u, task'[u].epoch = 0,
                        task'[u].action = "start", task'[u].status \in Final, ~main.overlap
                 PROVE  \/ disk'[IdOf(u)].out.clock = task'[u].clock
                        \/ task'[u].clock \in disk'[IdOf(u)].unflushed
      BY <1>0 DEF LoadedOutputIsOwn, Listed
    <2>1. u # t
      <3>1. task[t].epoch > 0
        BY <1>0 DEF TableRest, AliveHasRun
      <3> QED
        BY <1>1, <3>1
    <2>2. task'[u] = task[u] /\ disk'[IdOf(u)] = disk[IdOf(u)]
      BY <1>1, <1>2, <2>1, TaskFacts DEF Listed
    <2> QED
      BY <2>2 DEF OrderInv, LoadedOutputIsOwn, Listed
  <1> QED
    BY <1>5, <1>6, <1>7, <1>8, <1>9, <1>10 DEF OrderInv

\* Heartbeat g has applied assignment at to object t, which is now listed: it
\* runs with the clock of the assignment, or as before, or not at all.
Applied(g, at, t) ==
  /\ hb[g].pc = "assign" /\ at \in hb[g].todo /\ hb'[g].todo = hb[g].todo \ {at}
  /\ \A h \in Gens \ {g} : hb'[h] = hb[h]
  /\ disk' = disk /\ main' = main /\ server' = server
  /\ IdOf(t) = at.id /\ M'[at.id] = t /\ \A i \in Ids \ {at.id} : M'[i] = M[i]
  /\ \A u \in Tasks \ {t} : task'[u] = task[u] /\ run'[u] = run[u]
  /\ task'[t].clock = at.clock /\ task'[t].action = at.action
  /\ task'[t].alive => \/ task[t].alive /\ run'[t].clock = run[t].clock
                       \/ run'[t].clock = at.clock
  /\ run'[t] = run[t] \/ (run[t].pc = "idle" /\ run'[t].pc \in {"idle", "begun"})

\* An assignment that is applied keeps the order: it is not behind the past of
\* its id, and what is still to be applied is for other ids.
LEMMA OrderApplied ==
  ASSUME JobInv, AgentTypeOK, TableRest, BeatsAreKnown, OneBeat, ServerIsAhead, AppliedInOrder,
         NEW g \in Gens, NEW at \in Assignments, NEW t \in Tasks, Applied(g, at, t)
  PROVE  ServerIsAhead' /\ AppliedInOrder'
  <1>0. /\ at.id \in Ids /\ at.clock \in Clocks /\ at.clock \in Nat
        /\ \A h \in Gens : \A other \in hb[h].todo : other.id \in Ids
        /\ \A h \in Gens : hb'[h].todo \subseteq hb[h].todo
    BY ClockFacts DEF Assignments, AgentTypeOK, BeatRecord, Applied
  <1>1. ASSUME NEW i \in Ids, NEW d \in PastClocks(i)'
        PROVE  d \in PastClocks(i) \/ (i = at.id /\ d = at.clock)
    <2>1. CASE d \in disk[i].ran \/ (d \in Clocks /\ disk[i].done[d] # "none") \/ d = disk[i].out.clock
      BY <2>1, PastMember
    <2>2. ASSUME NEW u \in Tasks, IdOf(u) = i, task'[u].alive, d = run'[u].clock
          PROVE  \/ task[u].alive /\ d = run[u].clock
                 \/ i = at.id /\ d = at.clock
      BY <2>2 DEF Applied
    <2>3. disk' = disk
      BY DEF Applied
    <2> QED
      BY <2>1, <2>2, <2>3, PastMember
  <1>2. ASSUME NEW i \in Ids, i # at.id, M'[i] # NoTask
        PROVE  M'[i] = M[i] /\ M[i] \in Tasks /\ task'[M[i]] = task[M[i]]
    <2>1. M'[i] = M[i] /\ M[i] \in Tasks /\ IdOf(M[i]) = i
      BY <1>2, ListedFacts DEF Applied, TableRest
    <2> QED
      BY <1>2, <2>1 DEF Applied
  <1>3. M'[at.id] = t /\ task'[t].clock = at.clock /\ task'[t].action = at.action
    BY DEF Applied
  <1>4. ServerIsAhead'
    <2>s. /\ server' = server /\ at.clock <= server[at.id].clock
          /\ at.clock = server[at.id].clock => at.action = server[at.id].action
      BY DEF Applied, ServerIsAhead
    <2>1. ASSUME NEW i \in Ids
          PROVE  /\ \A d \in PastClocks(i)' : d <= server'[i].clock
                 /\ M'[i] # NoTask =>
                      /\ task'[M'[i]].clock <= server'[i].clock
                      /\ task'[M'[i]].clock = server'[i].clock => task'[M'[i]].action = server'[i].action
      <3>1. \A d \in PastClocks(i) : d <= server[i].clock
        BY DEF ServerIsAhead, PastIsUpTo
      <3>2. CASE i = at.id
        BY <1>1, <1>3, <2>s, <3>1, <3>2
      <3>3. CASE i # at.id
        <4>1. M[i] # NoTask =>
                /\ task[M[i]].clock <= server[i].clock
                /\ task[M[i]].clock = server[i].clock => task[M[i]].action = server[i].action
          BY DEF ServerIsAhead, ListedIsUpTo
        <4> QED
          BY <1>1, <1>2, <2>s, <3>1, <3>3, <4>1
      <3> QED
        BY <3>2, <3>3
    <2>2. ASSUME NEW h \in Gens, NEW a \in hb'[h].todo
          PROVE  /\ a.clock <= server'[a.id].clock
                 /\ a.clock = server'[a.id].clock => a.action = server'[a.id].action
                 /\ \A other \in hb'[h].todo : other.id = a.id => other = a
      BY <1>0, <2>s DEF ServerIsAhead
    <2> QED
      BY <2>1, <2>2 DEF ServerIsAhead, PastIsUpTo, ListedIsUpTo
  <1>5. AppliedInOrder'
    <2> SUFFICES ASSUME ~main'.overlap
                 PROVE  /\ \A h \in Gens : \A a \in hb'[h].todo :
                             /\ \A d \in PastClocks(a.id)' : d <= a.clock
                             /\ M'[a.id] # NoTask =>
                                  /\ task'[M'[a.id]].clock <= a.clock
                                  /\ task'[M'[a.id]].clock = a.clock =>
                                       task'[M'[a.id]].action = a.action
                        /\ \A i \in Ids : M'[i] # NoTask =>
                             \A d \in PastClocks(i)' : d <= task'[M'[i]].clock
                        /\ \A u \in Tasks : task'[u].alive =>
                             \A d \in Clocks : disk'[IdOf(u)].done[d] # "none" => d <= run'[u].clock
      BY DEF AppliedInOrder, PastIsUpTo, ListedIsUpTo
    <2>0. ~main.overlap
      BY DEF Applied
    <2>p. \A d \in PastClocks(at.id) : d <= at.clock
      BY <2>0 DEF Applied, AppliedInOrder, PastIsUpTo
    <2>1. ASSUME NEW h \in Gens, NEW a \in hb'[h].todo
          PROVE  /\ \A d \in PastClocks(a.id)' : d <= a.clock
                 /\ M'[a.id] # NoTask =>
                      /\ task'[M'[a.id]].clock <= a.clock
                      /\ task'[M'[a.id]].clock = a.clock => task'[M'[a.id]].action = a.action
      <3>1. a \in hb[h].todo /\ hb[h].pc = "assign"
        BY <1>0 DEF BeatsAreKnown
      <3>2. h = g
        BY <2>0, <3>1 DEF Applied, OneBeat
      <3>3. a # at /\ a.id # at.id
        BY <3>1, <3>2 DEF Applied, ServerIsAhead
      <3>4. /\ \A d \in PastClocks(a.id) : d <= a.clock
            /\ M[a.id] # NoTask =>
                 /\ task[M[a.id]].clock <= a.clock
                 /\ task[M[a.id]].clock = a.clock => task[M[a.id]].action = a.action
        BY <2>0, <3>1 DEF AppliedInOrder, PastIsUpTo, ListedIsUpTo
      <3> QED
        BY <1>0, <1>1, <1>2, <3>1, <3>3, <3>4
    <2>2. ASSUME NEW i \in Ids, M'[i] # NoTask
          PROVE  \A d \in PastClocks(i)' : d <= task'[M'[i]].clock
      <3>1. CASE i = at.id
        BY <1>0, <1>1, <1>3, <2>p, <3>1
      <3>2. CASE i # at.id
        <4>1. M[i] # NoTask => \A d \in PastClocks(i) : d <= task[M[i]].clock
          BY <2>0 DEF AppliedInOrder, PastIsUpTo
        <4> QED
          BY <1>1, <1>2, <2>2, <3>2, <4>1
      <3> QED
        BY <3>1, <3>2
    <2>3. ASSUME NEW u \in Tasks, task'[u].alive, NEW d \in Clocks, disk'[IdOf(u)].done[d] # "none"
          PROVE  d <= run'[u].clock
      <3>1. disk[IdOf(u)].done[d] # "none" /\ (task[u].alive => d <= run[u].clock)
        BY <2>0, <2>3 DEF Applied, AppliedInOrder
      <3>2. CASE u # t
        BY <2>3, <3>1, <3>2 DEF Applied
      <3>3. CASE u = t
        <4>1. d <= at.clock
          BY <1>0, <2>p, <3>1, <3>3, PastMember DEF Applied
        <4> QED
          BY <2>3, <3>1, <3>3, <4>1 DEF Applied
      <3> QED
        BY <3>2, <3>3
    <2> QED
      BY <2>1, <2>2, <2>3
  <1> QED
    BY <1>4, <1>5

\* What an assignment that is applied leaves to be shown: that a run it begins
\* is not a second one, and that a result it loads has its own output.
LEMMA OrderPlaced ==
  ASSUME JobInv, AgentTypeOK, TableRest, BeatsAreKnown, OneBeat, OrderInv,
         NEW g \in Gens, NEW at \in Assignments, NEW t \in Tasks, Applied(g, at, t),
         run'[t] # run[t] /\ run'[t].pc = "begun" => run'[t].clock = at.clock,
         run'[t] # run[t] /\ run'[t].pc = "begun" /\ ~main.overlap /\ at.clock \in disk[at.id].ran =>
           at.clock \in disk[at.id].lost,
         task'[t].epoch = 0 /\ at.action = "start" /\ task'[t].status \in Final /\ ~main.overlap =>
           disk[at.id].out.clock = at.clock \/ at.clock \in disk[at.id].unflushed
  PROVE  OrderInv'
  <1>0. /\ disk' = disk /\ main' = main /\ IdOf(t) = at.id
        /\ \A u \in Tasks \ {t} : task'[u] = task[u] /\ run'[u] = run[u]
        /\ task'[t].clock = at.clock /\ task'[t].action = at.action
        /\ run'[t] = run[t] \/ (run[t].pc = "idle" /\ run'[t].pc \in {"idle", "begun"})
    BY DEF Applied
  <1>1. ServerIsAhead' /\ AppliedInOrder'
    BY OrderApplied DEF OrderInv
  <1>2. RanIsRecorded'
    BY <1>0 DEF OrderInv, RanIsRecorded
  <1>3. OutputIsFlushed'
    BY <1>0 DEF OrderInv, OutputIsFlushed
  <1>4. NoSecondRun'
    <2> SUFFICES ASSUME NEW u \in Tasks, run'[u].pc = "begun", ~main.overlap,
                        run'[u].clock \in disk[IdOf(u)].ran
                 PROVE  run'[u].clock \in disk[IdOf(u)].lost
      BY <1>0 DEF NoSecondRun
    <2>1. CASE run'[u] = run[u]
      BY <2>1 DEF OrderInv, NoSecondRun
    <2>2. CASE run'[u] # run[u]
      <3>1. u = t
        BY <1>0, <2>2
      <3> QED
        BY <1>0, <2>2, <3>1
    <2> QED
      BY <2>1, <2>2
  <1>5. LoadedOutputIsOwn'
    <2> SUFFICES ASSUME NEW u \in Tasks, M'[IdOf(u)] = u, task'[u].epoch = 0,
                        task'[u].action = "start", task'[u].status \in Final, ~main.overlap
                 PROVE  \/ disk[IdOf(u)].out.clock = task'[u].clock
                        \/ task'[u].clock \in disk[IdOf(u)].unflushed
      BY <1>0 DEF LoadedOutputIsOwn, Listed
    <2>1. CASE u = t
      BY <1>0, <2>1
    <2>2. CASE u # t
      <3>1. IdOf(u) # at.id /\ IdOf(u) \in Ids
        BY <2>2, TaskFacts DEF Applied
      <3>2. M[IdOf(u)] = u /\ task'[u] = task[u]
        BY <2>2, <3>1 DEF Applied
      <3> QED
        BY <3>2 DEF OrderInv, LoadedOutputIsOwn, Listed
    <2> QED
      BY <2>1, <2>2
  <1> QED
    BY <1>1, <1>2, <1>3, <1>4, <1>5 DEF OrderInv

\* A round of the loop over the assignments keeps the order.
LEMMA OrderRound ==
  ASSUME JobInv, AgentTypeOK, TableRest, BeatsAreKnown, OneBeat, OrderInv,
         NEW g \in Gens, NEW at \in Assignments, Round(g, at)
  PROVE  OrderInv'
  <1>0. /\ at.id \in Ids /\ at.clock \in Clocks /\ at.clock \in Nat
        /\ M \in [Ids -> Tasks \cup {NoTask}]
        /\ hb[g].pc = "assign" /\ at \in hb[g].todo /\ hb'[g].todo = hb[g].todo \ {at}
        /\ \A h \in Gens \ {g} : hb'[h] = hb[h]
        /\ main' = main /\ server' = server
    BY ClockFacts DEF Assignments, AgentTypeOK, Round, lifecycleVars
  <1>1. CASE UNCHANGED <<jobVars, M>>
    <2>1. SameObjects /\ TableShrinks
      BY <1>1, UnchangedIsSame
    <2>2. Quiet
      BY <1>0, <2>1 DEF Quiet
    <2> QED
      BY <2>2, OrderQuiet
  <1>2. CASE KillOutcome(g, at)
    <2> DEFINE t == M[at.id]
    <2>1. /\ t \in Tasks /\ M' = M /\ at.action = "kill" /\ run' = run /\ disk' = disk
          /\ \A u \in Tasks \ {t} : task'[u] = task[u]
          /\ task'[t].alive = task[t].alive
          /\ task'[t].clock = at.clock /\ task'[t].action = "kill"
      BY <1>2 DEF KillOutcome
    <2>2. IdOf(t) = at.id
      BY <1>0, <2>1, TaskFacts, ListedFacts DEF TableRest
    <2>a. (task'[t].alive => task[t].alive) /\ M'[at.id] = t
      BY <2>1
    <2> HIDE DEF t
    <2>3. Applied(g, at, t)
      BY <1>0, <2>1, <2>2, <2>a DEF Applied
    <2> QED
      BY <2>1, <2>3, OrderPlaced
  <1>3. CASE StartOutcome(at)
    <2> DEFINE t == M[at.id]
    <2>1. /\ t \in Tasks /\ M' = M /\ at.action = "start" /\ Begins(t, at.clock)
          /\ task[t].clock # at.clock \/ task[t].action # "start"
      BY <1>3 DEF StartOutcome
    <2>2. IdOf(t) = at.id /\ t # NoTask /\ M[at.id] = t
      BY <1>0, <2>1, TaskFacts, ListedFacts DEF TableRest
    <2>3. ASSUME ~main.overlap, at.clock \in disk[at.id].ran PROVE FALSE
      <3>1. at.clock \in PastClocks(at.id)
        BY <1>0, <2>3, PastMember
      <3>2. at.clock <= task[t].clock
        BY <1>0, <2>2, <2>3, <3>1 DEF OrderInv, AppliedInOrder, PastIsUpTo
      <3>3. task[t].clock <= at.clock /\ (task[t].clock = at.clock => task[t].action = at.action)
        BY <1>0, <2>2, <2>3 DEF OrderInv, AppliedInOrder, ListedIsUpTo
      <3>4. task[t].clock \in Nat
        BY <2>1, ClockFacts
      <3> QED
        BY <1>0, <2>1, <3>2, <3>3, <3>4
    <2> HIDE DEF t
    <2>4. Applied(g, at, t)
      BY <1>0, <2>1, <2>2 DEF Applied, Begins
    <2>5. run'[t].clock = at.clock /\ task'[t].epoch > 0
      BY <2>1 DEF Begins
    <2> QED
      BY <2>1, <2>3, <2>4, <2>5, OrderPlaced
  <1>4. CASE NewOutcome(at)
    <2>1. PICK t \in Tasks :
            /\ IdOf(t) = at.id /\ M' = [M EXCEPT ![at.id] = t]
            /\ IF doneBefore(at.id, at.clock) THEN Loads(t, at.clock) ELSE Begins(t, at.clock)
      BY <1>4 DEF NewOutcome
    <2>2. at.action = "start" /\ M[at.id] = NoTask
      BY <1>4 DEF NewOutcome
    <2>3. M'[at.id] = t /\ \A i \in Ids \ {at.id} : M'[i] = M[i]
      BY <1>0, <2>1
    <2>4. CASE ~doneBefore(at.id, at.clock)
      <3>1. Begins(t, at.clock)
        BY <2>1, <2>4
      <3>2. Applied(g, at, t)
        BY <1>0, <2>1, <2>2, <2>3, <3>1 DEF Applied, Begins
      <3>3. run'[t].clock = at.clock /\ task'[t].epoch > 0
        BY <3>1 DEF Begins
      <3>4. ASSUME at.clock \in disk[at.id].ran PROVE at.clock \in disk[at.id].lost
        <4>1. disk[at.id].done[at.clock] = "none"
          BY <2>4 DEF doneBefore
        <4>2. \A u \in Tasks : IdOf(u) = at.id => run[u].pc = "idle"
          BY <1>0, <2>2, UnlistedIsDead DEF TableRest, JobInv, AliveIsRunning
        <4> QED
          BY <1>0, <3>4, <4>1, <4>2 DEF OrderInv, RanIsRecorded
      <3> QED
        BY <3>2, <3>3, <3>4, OrderPlaced
    <2>5. CASE doneBefore(at.id, at.clock)
      <3>1. Loads(t, at.clock)
        BY <2>1, <2>5
      <3>2. Applied(g, at, t)
        BY <1>0, <2>1, <2>2, <2>3, <3>1 DEF Applied, Loads
      <3>3. run'[t].pc = "idle"
        BY <3>1 DEF Loads
      <3>4. ASSUME ~main.overlap
            PROVE  disk[at.id].out.clock = at.clock \/ at.clock \in disk[at.id].unflushed
        <4>1. disk[at.id].out.clock >= at.clock \/ at.clock \in disk[at.id].unflushed
          BY <1>0, <2>5, <3>4 DEF doneBefore, OrderInv, OutputIsFlushed
        <4>2. disk[at.id].out.clock <= at.clock
          BY <1>0, <3>4, PastMember DEF OrderInv, AppliedInOrder, PastIsUpTo
        <4>3. disk[at.id].out.clock \in Nat
          BY <1>0, ClockFacts
        <4> QED
          BY <1>0, <4>1, <4>2, <4>3
      <3> QED
        BY <3>2, <3>3, <3>4, OrderPlaced
    <2> QED
      BY <2>4, <2>5
  <1> QED
    BY <1>1, <1>2, <1>3, <1>4 DEF Round

----------------------------------------------------------------------------
(* The invariant *)

\* The parts of HeartbeatInv.
LEMMA InvParts ==
  /\ HeartbeatInv <=> JobInv /\ AgentTypeOK /\ TableRest /\ StopInv /\ ReportInv /\ OrderInv
  /\ HeartbeatInv' <=> JobInv' /\ AgentTypeOK' /\ TableRest' /\ StopInv' /\ ReportInv' /\ OrderInv'
  BY DEF HeartbeatInv, TableInv, TypeOK, AgentTypeOK, TableRest, JobInv

\* Nothing runs and nothing is assigned at first.
LEMMA HeartbeatInvInit == Init => HeartbeatInv
  <1> SUFFICES ASSUME Init PROVE HeartbeatInv
    OBVIOUS
  <1>0. /\ JobInit /\ M = [i \in Ids |-> NoTask] /\ accepting = TRUE
        /\ stopAll = NoStop /\ hb = [g \in Gens |-> NoBeat] /\ cancelled = {}
        /\ main = [pc |-> "down", gen |-> 0, timedOut |-> FALSE, overlap |-> FALSE]
        /\ server = [i \in Ids |-> [clock |-> 0, action |-> "start"]] /\ crashes = 0
    BY DEF Init, LocalsInit
  <1>1. JobInv
    BY <1>0, JobInvInit
  <1>2. AgentTypeOK
    <2>1. hb \in [Gens -> BeatRecord]
      BY <1>0, NoBeatType
    <2>2. stopAll \in [tasks : SUBSET Tasks, done : SUBSET (Tasks \X Nat)]
      BY <1>0 DEF NoStop
    <2>3. crashes \in 0..MaxCrashes
      BY <1>0, HeartbeatAssumption
    <2> QED
      BY <1>0, <2>1, <2>2, <2>3 DEF AgentTypeOK, Action
  <1>3. /\ \A t \in Tasks : ~task[t].alive /\ run[t].pc = "idle"
        /\ \A k \in Callers : call[k].pc = "idle"
        /\ \A i \in Ids : /\ disk[i].ran = {} /\ disk[i].out.clock = 0
                          /\ \A c \in Clocks : disk[i].done[c] = "none"
    BY <1>0 DEF JobInit, newTask, NoRun, NoCall, EmptyDir
  <1>4. TableRest
    BY <1>0, <1>3 DEF TableRest, TableIsKeyed, AliveHasRun, StatusShowsRun, RunsAreListed, Unfinished
  <1>5. \A g \in Gens : hb[g].pc = "off" /\ hb[g].todo = {}
    BY <1>0 DEF NoBeat
  <1>6. StopInv
    BY <1>0, <1>3, <1>5, CallerFacts DEF StopInv, BeatsAreKnown, StopCovers, StopHasEnded
  <1>7. ReportInv
    BY <1>5 DEF ReportInv, OneBeat, FinalReportIsComplete
  <1>8. \A i \in Ids : M[i] = NoTask /\ server[i].clock = 0 /\ \A d \in PastClocks(i) : d = 0
    BY <1>0, <1>3, PastMember
  <1>9. ServerIsAhead /\ AppliedInOrder
    BY <1>3, <1>5, <1>8 DEF ServerIsAhead, AppliedInOrder, PastIsUpTo, ListedIsUpTo
  <1>10. RanIsRecorded /\ OutputIsFlushed /\ NoSecondRun
    BY <1>3 DEF RanIsRecorded, OutputIsFlushed, NoSecondRun
  <1>11. LoadedOutputIsOwn
    <2>1. \A t \in Tasks : M[IdOf(t)] # t
      BY <1>8, TaskFacts
    <2> QED
      BY <2>1 DEF LoadedOutputIsOwn, Listed
  <1> QED
    BY <1>1, <1>2, <1>4, <1>6, <1>7, <1>9, <1>10, <1>11, InvParts DEF OrderInv

\* Every step of the agent keeps the invariant.
LEMMA HeartbeatInvNext == HeartbeatInv /\ [Next]_vars => HeartbeatInv'
  <1> SUFFICES ASSUME HeartbeatInv, [Next]_vars PROVE HeartbeatInv'
    OBVIOUS
  <1>0. JobInv /\ AgentTypeOK /\ TableRest /\ StopInv /\ ReportInv /\ OrderInv
    BY InvParts
  <1>i. /\ JobTypeOK /\ RunHasClock /\ AliveIsRunning /\ CallIsKnown /\ BeatsAreKnown /\ OneBeat
        /\ StatusShowsRun /\ RunsAreListed
    BY <1>0 DEF JobInv, StopInv, ReportInv, TableRest
  <1>t. ASSUME Next PROVE AgentTypeOK'
    BY <1>0, <1>i, <1>t, AgentTypeNext
  <1>1. ASSUME NEW t \in Tasks, RunStep(t), UNCHANGED <<localsVars, hb, lifecycleVars>>
        PROVE  JobInv' /\ TableRest' /\ StopInv' /\ ReportInv' /\ OrderInv'
    <2>1. JobInv' /\ Effect(t) /\ DirEffect(t) /\ ObjectEffect(t)
      BY <1>0, <1>1, <1>i, JobInvRun, RunStepEffect, RunStepMore
    <2>2. M' = M /\ UNCHANGED <<localsVars, hb, main>>
      BY <1>1 DEF localsVars, lifecycleVars
    <2>3. TableRest' /\ StopInv' /\ ReportInv'
      BY <1>0, <1>i, <2>1, <2>2, TableRun, StopRun, ReportRun
    <2>4. OrderInv'
      BY <1>0, <1>1, <2>1, OrderRun
    <2> QED
      BY <2>1, <2>3, <2>4
  <1>2. ASSUME NEW i \in Ids, ServerAssigns(i)
        PROVE  JobInv' /\ TableRest' /\ StopInv' /\ ReportInv' /\ OrderInv'
    <2>1. UNCHANGED <<jobVars, localsVars, hb, main>>
      BY <1>2 DEF ServerAssigns
    <2>2. JobInv' /\ SameObjects /\ TableShrinks
      BY <1>0, <2>1, JobSame, UnchangedIsSame DEF localsVars
    <2>3. TableRest' /\ OrderInv'
      BY <1>0, <1>2, <2>2, TableQuiet, OrderServer
    <2>4. StopInv' /\ ReportInv'
      BY <1>0, <2>1 DEF jobVars, localsVars, StopInv, BeatsAreKnown, StopCovers, StopHasEnded,
                        ReportInv, OneBeat, FinalReportIsComplete
    <2> QED
      BY <2>2, <2>3, <2>4
  <1>3. ASSUME NEW g \in Gens, BeatStep(g)
        PROVE  JobInv' /\ TableRest' /\ StopInv' /\ ReportInv' /\ OrderInv'
    <2>1. BeatMove(g)
      BY <1>0, <1>3, <1>i, BeatMoves
    <2>2. StopInv' /\ ReportInv'
      BY <1>0, <1>i, <2>1, StopBeat, ReportBeat
    <2>3. CASE QuietBeat(g)
      <3>1. JobInv' /\ Quiet
        BY <1>0, <2>3, QuietBeatStep
      <3>2. SameObjects /\ TableShrinks
        BY <3>1 DEF Quiet
      <3> QED
        BY <1>0, <2>2, <3>1, <3>2, TableQuiet, OrderQuiet
    <2>4. CASE CallReturns(g)
      <3>1. UNCHANGED jobVars /\ UNCHANGED <<jobVars, M>>
        BY <2>4 DEF CallReturns, localsVars
      <3>2. JobInv' /\ SameObjects /\ TableShrinks
        BY <1>0, <3>1, JobSame, UnchangedIsSame
      <3> QED
        BY <1>0, <2>2, <2>4, <3>2, TableQuiet, OrderAnswer
    <2> QED
      BY <1>3, <2>3, <2>4 DEF BeatStep
  <1>4. ASSUME NEW g \in Gens, Assign(g)
        PROVE  JobInv' /\ TableRest' /\ StopInv' /\ ReportInv' /\ OrderInv'
    <2>1. JobInv' /\ \E at \in Assignments : Round(g, at)
      BY <1>0, <1>4, AssignRound
    <2>2. PICK at \in Assignments : Round(g, at)
      BY <2>1
    <2> QED
      BY <1>0, <1>i, <2>1, <2>2, TableRound, StopRound, ReportRound, OrderRound
  <1>5. ASSUME QuietMain
        PROVE  JobInv' /\ TableRest' /\ StopInv' /\ ReportInv' /\ OrderInv'
    <2>1. JobInv' /\ Quiet
      BY <1>0, <1>5, QuietMainStep
    <2>2. SameObjects /\ TableShrinks
      BY <2>1 DEF Quiet
    <2>3. TableRest' /\ OrderInv'
      BY <1>0, <2>1, <2>2, TableQuiet, OrderQuiet
    <2> QED
      BY <1>0, <1>5, <1>i, <2>1, <2>3, StopMain, ReportMain
  <1>6. ASSUME Crash
        PROVE  JobInv' /\ TableRest' /\ StopInv' /\ ReportInv' /\ OrderInv'
    <2>1. JobCrash
      BY <1>6 DEF Crash
    <2> QED
      BY <1>0, <1>6, <2>1, JobInvCrash, TableCrash, StopCrash, ReportCrash, OrderCrash
  <1>7. ASSUME Next
        PROVE  JobInv' /\ TableRest' /\ StopInv' /\ ReportInv' /\ OrderInv'
    <2>1. \/ \E t \in Tasks : RunStep(t) /\ UNCHANGED <<localsVars, hb, lifecycleVars>>
          \/ \E i \in Ids : ServerAssigns(i)
          \/ \E g \in Gens : BeatStep(g) \/ Assign(g)
          \/ QuietMain \/ Crash
      BY <1>7 DEF Next, BeatStep, QuietBeat, QuietMain
    <2> QED
      BY <1>1, <1>2, <1>3, <1>4, <1>5, <1>6, <2>1
  <1>8. CASE UNCHANGED vars
    <2>1. UNCHANGED <<jobVars, localsVars, hb, cancelled, main, server, crashes>>
      BY <1>8 DEF vars
    <2>2. JobInv' /\ SameObjects /\ TableShrinks
      BY <1>0, <2>1, JobSame, UnchangedIsSame DEF localsVars
    <2>3. Quiet
      BY <2>1, <2>2 DEF Quiet
    <2>4. AgentTypeOK'
      BY <1>0, <2>1 DEF localsVars, AgentTypeOK
    <2>5. TableRest' /\ OrderInv'
      BY <1>0, <2>2, <2>3, TableQuiet, OrderQuiet
    <2>6. StopInv' /\ ReportInv'
      BY <1>0, <2>1 DEF jobVars, localsVars, StopInv, BeatsAreKnown, StopCovers, StopHasEnded,
                        ReportInv, OneBeat, FinalReportIsComplete
    <2> QED
      BY <2>2, <2>4, <2>5, <2>6, InvParts
  <1> QED
    BY <1>7, <1>8, <1>t, InvParts

\* In every instance the agent keeps the inductive invariant.
THEOREM HeartbeatInvariant == Spec => []HeartbeatInv
  BY HeartbeatInvInit, HeartbeatInvNext, PTL DEF Spec

\* In every instance, every variable of the agent has its type.
THEOREM AgentTypes == Spec => []TypeOK
  <1>1. HeartbeatInv => TypeOK
    BY DEF HeartbeatInv, TableInv
  <1> QED
    BY <1>1, HeartbeatInvariant, PTL

\* In every instance, a run in progress is one that the table lists for its id:
\* neither AssignTask nor Clean nor a second heartbeat makes two runs of an id
\* or one that StopAll cannot see.
THEOREM RunsAreListedAlways == Spec => []RunsAreListed
  <1>1. HeartbeatInv => RunsAreListed
    BY DEF HeartbeatInv, TableInv
  <1> QED
    BY <1>1, HeartbeatInvariant, PTL

\* In every instance, no run escapes a shutdown: when StopAll has been through
\* its list, what is alive was asked to terminate or is completing.
THEOREM NoRunEscapesStopAlways == Spec => []NoRunEscapesStop
  <1>1. HeartbeatInv => NoRunEscapesStop
    <2> SUFFICES ASSUME StopCovers, ~accepting, StopLoopOver, NEW t \in Tasks, task[t].alive
                 PROVE  task[t].asked \/ task[t].completing
      BY DEF HeartbeatInv, StopInv, NoRunEscapesStop
    <2>1. t \notin stopAll.tasks /\ call[Main].pc # "lock"
      BY DEF StopLoopOver
    <2> QED
      BY <2>1 DEF StopCovers
  <1> QED
    BY <1>1, HeartbeatInvariant, PTL

\* In every instance, a Stop that returned in time leaves no run, no heartbeat
\* and no half-made kill behind.
THEOREM StopLeavesNothingAlways == Spec => []StopLeavesNothing
  <1>1. HeartbeatInv => StopLeavesNothing
    <2> SUFFICES ASSUME HeartbeatInv, ~accepting, main.pc = "down", ~main.timedOut
                 PROVE  /\ \A t \in Tasks : ~task[t].alive
                        /\ hb[main.gen].pc = "off"
                        /\ \A k \in {Main, main.gen} : call[k].pc = "idle"
      BY DEF StopLeavesNothing
    <2>1. (\A t \in Tasks : ~task[t].alive) /\ hb[main.gen].pc = "off"
      BY DEF HeartbeatInv, StopInv, StopHasEnded
    <2>2. call[Main].pc = "idle" /\ call[main.gen].pc = "idle"
      BY <2>1 DEF HeartbeatInv, StopInv, BeatsAreKnown
    <2> QED
      BY <2>1, <2>2
  <1> QED
    BY <1>1, HeartbeatInvariant, PTL

\* In every instance, with one heartbeat at a time, an assignment whose process
\* was started is not run again unless its result was lost: doneBefore, the
\* same-assignment test and the server's increasing clocks provide this.
THEOREM NoSecondRunAlways == Spec => []NoSecondRun
  <1>1. HeartbeatInv => NoSecondRun
    BY DEF HeartbeatInv, OrderInv
  <1> QED
    BY <1>1, HeartbeatInvariant, PTL

\* In every instance, a result that is loaded from disk comes with its own
\* output, because finalize flushes the output before it writes the result.
THEOREM LoadedOutputIsOwnAlways == Spec => []LoadedOutputIsOwn
  <1>1. HeartbeatInv => LoadedOutputIsOwn
    BY DEF HeartbeatInv, OrderInv
  <1> QED
    BY <1>1, HeartbeatInvariant, PTL

\* In every instance, a report with a final status carries all the output.
THEOREM FinalReportIsCompleteAlways == Spec => []FinalReportIsComplete
  <1>1. HeartbeatInv => FinalReportIsComplete
    BY DEF HeartbeatInv, ReportInv
  <1> QED
    BY <1>1, HeartbeatInvariant, PTL
============================================================================
