------------------------- MODULE TransitionJobsProofs -------------------------
(***************************************************************************)
(* Theorems about TransitionJobs, for every configuration of transitions   *)
(* and actions, any number of objects, jobs, workers and requests and any  *)
(* number of reschedules and crashes.                                      *)
(*                                                                         *)
(* First what a step does to the record of the request or worker that      *)
(* takes it, and that it keeps the types; then that nothing committed is   *)
(* taken back; then the inductive invariant, one lemma per actor.  Last,   *)
(* what holds as well when a single worker executes the jobs.               *)
(***************************************************************************)
EXTENDS TransitionJobs, TLAPS

-----------------------------------------------------------------------------
(* Updates of one record *)

LEMMA WorkerUpdate ==
  ASSUME TypeOK, NEW w \in Worker, NEW x \in WorkerState, wk' = [wk EXCEPT ![w] = x]
  PROVE  /\ wk' \in [Worker -> WorkerState]
         /\ wk'[w] = x
         /\ \A v \in Worker : v # w => wk'[v] = wk[v]
BY DEF TypeOK

LEMMA RequestUpdate ==
  ASSUME TypeOK, NEW r \in Request, NEW x \in RequestState, req' = [req EXCEPT ![r] = x]
  PROVE  /\ req' \in [Request -> RequestState]
         /\ req'[r] = x
         /\ \A q \in Request : q # r => req'[q] = req[q]
BY DEF TypeOK

LEMMA FailingJobType ==
  ASSUME TypeOK, NEW w \in Worker PROVE FailingJob(w) \in WorkerState
<1>1. wk[w] \in WorkerState BY DEF TypeOK
<1> QED BY <1>1 DEF FailingJob, WorkerState, WorkerPc, JobStatus

LEMMA IdleWorkerType == IdleWorker \in WorkerState
BY DEF IdleWorker, WorkerState, WorkerPc, NoRow, Row

LEMMA NewRequestType == NewRequest \in RequestState /\ Finished \in RequestState
BY DEF NewRequest, Finished, RequestState, RequestPc, NoRow, Row

\* What a step of worker w or request r leaves alone.
OtherWorkers(w) == \A v \in Worker : v # w => wk'[v] = wk[v]
OtherRequests(r) == \A q \in Request : q # r => req'[q] = req[q]

\* A worker in an action has a job and one of the actions of its transition.
LEMMA ActOfType ==
  ASSUME TypeOK, WellFormed, NEW w \in Worker, wk[w].pc \in InAction
  PROVE  JobOf(w) \in Job /\ wk[w].act \in Action
<1>1. wk[w].pc # "idle" BY DEF InAction
<1>2. JobOf(w) \in Job /\ Exists(JobOf(w)) /\ wk[w].act \in ActsOf(w)
  BY <1>1 DEF WellFormed, WellFormedWorker
<1>3. TransOf(w) \in Transition BY <1>2 DEF WellFormed, WellFormedRows, TransOf
<1> QED BY <1>2, <1>3, ConfigAssumption DEF ActsOf

\* Changing one element of a sequence of statuses.
LEMMA UpdatedRow ==
  ASSUME NEW s \in Seq(TransitionJobActionStatus), NEW i \in DOMAIN s,
         NEW v \in TransitionJobActionStatus
  PROVE  [s EXCEPT ![i] = v] \in Seq(TransitionJobActionStatus)
OBVIOUS

-----------------------------------------------------------------------------
(* One lemma per step of a worker: its new record, and the types *)

LEMMA FetchJobType ==
  ASSUME TypeOK, NEW w \in Worker, FetchJob(w)
  PROVE  /\ TypeOK' /\ OtherWorkers(w)
         /\ wk'[w] = [IdleWorker EXCEPT !.pc = "start", !.job = Head(queue),
                            !.mem = job[Head(queue)], !.was = job[Head(queue)].status]
<1> DEFINE x == [IdleWorker EXCEPT !.pc = "start", !.job = Head(queue),
                      !.mem = job[Head(queue)], !.was = job[Head(queue)].status]
<1>1. wk[w] \in WorkerState BY DEF TypeOK
<1>2. Head(queue) \in Job /\ Tail(queue) \in Seq(Job)
  BY DEF TypeOK, FetchJob
<1>3. job[Head(queue)] \in Row
  BY <1>2 DEF TypeOK
<1>4. x \in WorkerState
  BY <1>1, <1>2, <1>3 DEF IdleWorker, WorkerState, WorkerPc, NoRow, Row
<1>5. /\ wk' \in [Worker -> WorkerState]
      /\ wk'[w] = x /\ OtherWorkers(w)
  BY <1>4, WorkerUpdate DEF FetchJob, OtherWorkers
<1> QED BY <1>5, <1>2 DEF FetchJob, TypeOK

LEMMA StartJobType ==
  ASSUME TypeOK, NEW w \in Worker, StartJob(w)
  PROVE  /\ TypeOK' /\ OtherWorkers(w)
         /\ wk'[w] = [wk[w] EXCEPT !.pc = "check", !.mem.status = "STARTED",
                            !.params = wk[w].mem.params]
<1> DEFINE x == [wk[w] EXCEPT !.pc = "check", !.mem.status = "STARTED",
                      !.params = wk[w].mem.params]
<1>1. wk[w] \in WorkerState BY DEF TypeOK
<1>2. [wk[w].mem EXCEPT !.status = "STARTED"] \in Row
  BY <1>1 DEF WorkerState, Row, JobStatus
<1>3. x \in WorkerState
  BY <1>1, <1>2 DEF WorkerState, WorkerPc, Row
<1>4. /\ wk' \in [Worker -> WorkerState]
      /\ wk'[w] = x /\ OtherWorkers(w)
  BY <1>3, WorkerUpdate DEF StartJob, OtherWorkers
<1>5. job' \in [Job -> Row]
  BY <1>2 DEF StartJob, TypeOK
<1> QED BY <1>4, <1>5 DEF StartJob, TypeOK

LEMMA CheckObjectType ==
  ASSUME TypeOK, WellFormed, NEW w \in Worker, CheckObject(w)
  PROVE  /\ TypeOK' /\ OtherWorkers(w)
         /\ wk'[w] = IF obj[ObjOf(w)] \notin Source[TransOf(w)] THEN FailingJob(w)
                     ELSE IF is_running(wk[w].mem)
                     THEN [wk[w] EXCEPT !.pc = "read", !.snap = obj[ObjOf(w)]]
                     ELSE IdleWorker
<1> DEFINE x == IF obj[ObjOf(w)] \notin Source[TransOf(w)] THEN FailingJob(w)
               ELSE IF is_running(wk[w].mem)
               THEN [wk[w] EXCEPT !.pc = "read", !.snap = obj[ObjOf(w)]]
               ELSE IdleWorker
<1>1. wk[w] \in WorkerState BY DEF TypeOK
<1>2. obj[ObjOf(w)] \in Status
  BY DEF CheckObject, TypeOK, WellFormed, WellFormedRows,
     WellFormedWorker, ObjOf
<1>3. [wk[w] EXCEPT !.pc = "read", !.snap = obj[ObjOf(w)]] \in WorkerState
  BY <1>1, <1>2 DEF WorkerState, WorkerPc
<1>4. x \in WorkerState
  BY <1>1, <1>2, <1>3, FailingJobType, IdleWorkerType DEF is_running
<1>5. /\ wk' \in [Worker -> WorkerState]
      /\ wk'[w] = x /\ OtherWorkers(w)
  BY <1>4, WorkerUpdate DEF CheckObject, OtherWorkers
<1> QED BY <1>5 DEF CheckObject, TypeOK

LEMMA ReadActionsType ==
  ASSUME TypeOK, NEW w \in Worker, ReadActions(w)
  PROVE  /\ TypeOK' /\ OtherWorkers(w)
         /\ wk'[w] = IF PreviousActionsOk(JobOf(w))
                     THEN [wk[w] EXCEPT !.pc = "loop",
                             !.completed = ActionsWith(JobOf(w), "FINISHED")
                                           \cup ActionsWith(JobOf(w), "FAILED")]
                     ELSE FailingJob(w)
<1> DEFINE x == IF PreviousActionsOk(JobOf(w))
               THEN [wk[w] EXCEPT !.pc = "loop",
                       !.completed = ActionsWith(JobOf(w), "FINISHED")
                                     \cup ActionsWith(JobOf(w), "FAILED")]
               ELSE FailingJob(w)
<1>1. wk[w] \in WorkerState BY DEF TypeOK
<1>2. [wk[w] EXCEPT !.pc = "loop",
        !.completed = ActionsWith(JobOf(w), "FINISHED")
                      \cup ActionsWith(JobOf(w), "FAILED")] \in WorkerState
  BY <1>1 DEF WorkerState, WorkerPc, ActionsWith
<1>3. x \in WorkerState
  BY <1>1, <1>2, FailingJobType DEF WorkerState
<1>4. /\ wk' \in [Worker -> WorkerState]
      /\ wk'[w] = x /\ OtherWorkers(w)
  BY <1>3, WorkerUpdate DEF ReadActions, OtherWorkers
<1> QED BY <1>4 DEF ReadActions, TypeOK

LEMMA StopKilledType ==
  ASSUME TypeOK, NEW w \in Worker, StopKilled(w)
  PROVE  /\ TypeOK' /\ OtherWorkers(w)
         /\ wk'[w] = IdleWorker
<1> DEFINE x == IdleWorker
<1>1. wk[w] \in WorkerState BY DEF TypeOK
<1>2. x \in WorkerState
  BY <1>1, IdleWorkerType DEF WorkerState
<1>3. /\ wk' \in [Worker -> WorkerState]
      /\ wk'[w] = x /\ OtherWorkers(w)
  BY <1>2, WorkerUpdate DEF StopKilled, OtherWorkers
<1> QED BY <1>3 DEF StopKilled, TypeOK

LEMMA SkipActionType ==
  ASSUME TypeOK, WellFormed, NEW w \in Worker, NEW a \in Action, SkipAction(w, a)
  PROVE  /\ TypeOK' /\ OtherWorkers(w)
         /\ wk'[w] = [wk[w] EXCEPT !.yielded = wk[w].yielded \cup {a}, !.mem = job[JobOf(w)]]
<1> DEFINE x == [wk[w] EXCEPT !.yielded = wk[w].yielded \cup {a}, !.mem = job[JobOf(w)]]
<1>1. wk[w] \in WorkerState BY DEF TypeOK
<1>2. job[JobOf(w)] \in Row
  BY DEF SkipAction, TypeOK, WellFormed, WellFormedWorker
<1>3. x \in WorkerState
  BY <1>1, <1>2 DEF WorkerState, WorkerPc
<1>4. /\ wk' \in [Worker -> WorkerState]
      /\ wk'[w] = x /\ OtherWorkers(w)
  BY <1>3, WorkerUpdate DEF SkipAction, OtherWorkers
<1> QED BY <1>4 DEF SkipAction, TypeOK

LEMMA BeginActionType ==
  ASSUME TypeOK, WellFormed, NEW w \in Worker, NEW a \in Action, BeginAction(w, a)
  PROVE  /\ TypeOK' /\ OtherWorkers(w)
         /\ wk'[w] = [wk[w] EXCEPT !.pc = "lookup", !.act = a, !.yielded = wk[w].yielded \cup {a},
                            !.mem = job[JobOf(w)]]
<1> DEFINE x == [wk[w] EXCEPT !.pc = "lookup", !.act = a, !.yielded = wk[w].yielded \cup {a},
                      !.mem = job[JobOf(w)]]
<1>1. wk[w] \in WorkerState BY DEF TypeOK
<1>2. job[JobOf(w)] \in Row
  BY DEF BeginAction, TypeOK, WellFormed, WellFormedWorker
<1>3. x \in WorkerState
  BY <1>1, <1>2 DEF WorkerState, WorkerPc
<1>4. /\ wk' \in [Worker -> WorkerState]
      /\ wk'[w] = x /\ OtherWorkers(w)
  BY <1>3, WorkerUpdate DEF BeginAction, OtherWorkers
<1> QED BY <1>4 DEF BeginAction, TypeOK

LEMMA LookUpRowType ==
  ASSUME TypeOK, WellFormed, NEW w \in Worker, LookUpRow(w)
  PROVE  /\ TypeOK' /\ OtherWorkers(w)
         /\ wk'[w] = CASE Len(tja[JobOf(w)][wk[w].act]) = 0 -> [wk[w] EXCEPT !.pc = "create"]
                       [] Len(tja[JobOf(w)][wk[w].act]) = 1 ->
                            [wk[w] EXCEPT !.pc = "run", !.row = 1,
                                          !.out = tja[JobOf(w)][wk[w].act][1]]
                       [] OTHER -> FailingJob(w)
<1> DEFINE x == CASE Len(tja[JobOf(w)][wk[w].act]) = 0 -> [wk[w] EXCEPT !.pc = "create"]
                 [] Len(tja[JobOf(w)][wk[w].act]) = 1 ->
                      [wk[w] EXCEPT !.pc = "run", !.row = 1,
                                    !.out = tja[JobOf(w)][wk[w].act][1]]
                 [] OTHER -> FailingJob(w)
<1>1. wk[w] \in WorkerState BY DEF TypeOK
<1>2. [wk[w] EXCEPT !.pc = "create"] \in WorkerState
  BY <1>1 DEF WorkerState, WorkerPc
<1>3. JobOf(w) \in Job /\ wk[w].act \in Action
  BY ActOfType DEF LookUpRow, InAction
<1>4. tja[JobOf(w)][wk[w].act] \in Seq(TransitionJobActionStatus)
  BY <1>3 DEF TypeOK
<1>5. Len(tja[JobOf(w)][wk[w].act]) = 1 => tja[JobOf(w)][wk[w].act][1] \in JobStatus
  BY <1>4 DEF TransitionJobActionStatus, JobStatus
<1>6. Len(tja[JobOf(w)][wk[w].act]) = 1 =>
        [wk[w] EXCEPT !.pc = "run", !.row = 1,
                      !.out = tja[JobOf(w)][wk[w].act][1]] \in WorkerState
  BY <1>1, <1>5 DEF WorkerState, WorkerPc
<1>7. x \in WorkerState
  BY <1>2, <1>6, FailingJobType DEF WorkerState
<1>8. /\ wk' \in [Worker -> WorkerState]
      /\ wk'[w] = x /\ OtherWorkers(w)
  BY <1>7, WorkerUpdate DEF LookUpRow, OtherWorkers
<1> QED BY <1>8 DEF LookUpRow, TypeOK

LEMMA CreateRowType ==
  ASSUME TypeOK, WellFormed, NEW w \in Worker, CreateRow(w)
  PROVE  /\ TypeOK' /\ OtherWorkers(w)
         /\ wk'[w] = [wk[w] EXCEPT !.pc = "run", !.out = "STARTED",
                            !.row = Len(tja[JobOf(w)][wk[w].act]) + 1]
<1> DEFINE x == [wk[w] EXCEPT !.pc = "run", !.out = "STARTED",
                      !.row = Len(tja[JobOf(w)][wk[w].act]) + 1]
<1>1. wk[w] \in WorkerState BY DEF TypeOK
<1>2. JobOf(w) \in Job /\ wk[w].act \in Action
  BY ActOfType DEF CreateRow, InAction
<1>3. tja[JobOf(w)][wk[w].act] \in Seq(TransitionJobActionStatus)
  BY <1>2 DEF TypeOK
<1>4. Append(tja[JobOf(w)][wk[w].act], "STARTED") \in Seq(TransitionJobActionStatus)
  BY <1>3 DEF TransitionJobActionStatus
<1>5. Len(tja[JobOf(w)][wk[w].act]) + 1 \in Nat
  BY <1>3
<1>6. x \in WorkerState
  BY <1>1, <1>5 DEF WorkerState, WorkerPc, JobStatus
<1>7. /\ wk' \in [Worker -> WorkerState]
      /\ wk'[w] = x /\ OtherWorkers(w)
  BY <1>6, WorkerUpdate DEF CreateRow, OtherWorkers
<1>8. tja' \in [Job -> [Action -> Seq(TransitionJobActionStatus)]]
  BY <1>2, <1>4 DEF CreateRow, TypeOK
<1> QED BY <1>7, <1>8 DEF CreateRow, TypeOK

LEMMA PerformActionType ==
  ASSUME TypeOK, WellFormed, NEW w \in Worker, PerformAction(w)
  PROVE  /\ TypeOK' /\ OtherWorkers(w)
         /\ wk'[w] = [wk[w] EXCEPT !.pc = "save", !.params = wk[w].params \cup {wk[w].act},
                            !.out = IF wk[w].act \in Freezing THEN "FROZEN" ELSE "FINISHED"]
<1> DEFINE x == [wk[w] EXCEPT !.pc = "save", !.params = wk[w].params \cup {wk[w].act},
                      !.out = IF wk[w].act \in Freezing THEN "FROZEN" ELSE "FINISHED"]
<1>1. wk[w] \in WorkerState BY DEF TypeOK
<1>2. JobOf(w) \in Job /\ wk[w].act \in Action
  BY ActOfType DEF PerformAction, InAction
<1>3. x \in WorkerState
  BY <1>1, <1>2 DEF WorkerState, WorkerPc, JobStatus
<1>4. /\ wk' \in [Worker -> WorkerState]
      /\ wk'[w] = x /\ OtherWorkers(w)
  BY <1>3, WorkerUpdate DEF PerformAction, OtherWorkers
<1>5. performed' \in [Job -> [Action -> Nat]]
  BY <1>2 DEF PerformAction, TypeOK
<1> QED BY <1>4, <1>5 DEF PerformAction, TypeOK

LEMMA ActionRaisesType ==
  ASSUME TypeOK, NEW w \in Worker, ActionRaises(w)
  PROVE  /\ TypeOK' /\ OtherWorkers(w)
         /\ wk'[w] = [wk[w] EXCEPT !.pc = "save", !.out = "FAILED"]
<1> DEFINE x == [wk[w] EXCEPT !.pc = "save", !.out = "FAILED"]
<1>1. wk[w] \in WorkerState BY DEF TypeOK
<1>2. x \in WorkerState
  BY <1>1 DEF WorkerState, WorkerPc, JobStatus
<1>3. /\ wk' \in [Worker -> WorkerState]
      /\ wk'[w] = x /\ OtherWorkers(w)
  BY <1>2, WorkerUpdate DEF ActionRaises, OtherWorkers
<1> QED BY <1>3 DEF ActionRaises, TypeOK

LEMMA RescheduleType ==
  ASSUME TypeOK, WellFormed, NEW w \in Worker, Reschedule(w)
  PROVE  /\ TypeOK' /\ OtherWorkers(w)
         /\ wk'[w] = [wk[w] EXCEPT !.pc = "commit", !.mem.params = wk[w].params]
<1> DEFINE x == [wk[w] EXCEPT !.pc = "commit", !.mem.params = wk[w].params]
<1>1. wk[w] \in WorkerState BY DEF TypeOK
<1>2. [wk[w].mem EXCEPT !.params = wk[w].params] \in Row
  BY <1>1 DEF WorkerState, Row
<1>3. JobOf(w) \in Job
  BY ActOfType DEF Reschedule, InAction
<1>4. x \in WorkerState
  BY <1>1, <1>2, <1>3 DEF WorkerState, WorkerPc, Row
<1>5. /\ wk' \in [Worker -> WorkerState]
      /\ wk'[w] = x /\ OtherWorkers(w)
  BY <1>4, WorkerUpdate DEF Reschedule, OtherWorkers
<1>6. queue' \in Seq(Job)
  BY <1>3 DEF Reschedule, TypeOK
<1> QED BY <1>5, <1>6 DEF Reschedule, TypeOK

LEMMA CommitRescheduleType ==
  ASSUME TypeOK, NEW w \in Worker, CommitReschedule(w)
  PROVE  /\ TypeOK' /\ OtherWorkers(w)
         /\ wk'[w] = [wk[w] EXCEPT !.pc = "leave"]
<1> DEFINE x == [wk[w] EXCEPT !.pc = "leave"]
<1>1. wk[w] \in WorkerState BY DEF TypeOK
<1>2. x \in WorkerState
  BY <1>1 DEF WorkerState, WorkerPc
<1>3. /\ wk' \in [Worker -> WorkerState]
      /\ wk'[w] = x /\ OtherWorkers(w)
  BY <1>2, WorkerUpdate DEF CommitReschedule, OtherWorkers
<1>4. job' \in [Job -> Row]
  BY <1>1 DEF CommitReschedule, TypeOK, WorkerState
<1> QED BY <1>3, <1>4 DEF CommitReschedule, TypeOK

LEMMA SaveRescheduledType ==
  ASSUME TypeOK, WellFormed, NEW w \in Worker, SaveRescheduled(w)
  PROVE  /\ TypeOK' /\ OtherWorkers(w)
         /\ wk'[w] = IdleWorker
<1> DEFINE x == IdleWorker
<1>1. wk[w] \in WorkerState BY DEF TypeOK
<1>2. JobOf(w) \in Job /\ wk[w].act \in Action
  BY ActOfType DEF SaveRescheduled, InAction
<1>3. tja[JobOf(w)][wk[w].act] \in Seq(TransitionJobActionStatus)
  BY <1>2 DEF TypeOK
<1>4. [tja[JobOf(w)][wk[w].act] EXCEPT ![wk[w].row] = wk[w].out]
        \in Seq(TransitionJobActionStatus)
  BY <1>3, UpdatedRow DEF SaveRescheduled, WellFormed, WellFormedWorker
<1>5. x \in WorkerState
  BY <1>1, <1>2, <1>3, <1>4, IdleWorkerType DEF WorkerState, WorkerPc
<1>6. /\ wk' \in [Worker -> WorkerState]
      /\ wk'[w] = x /\ OtherWorkers(w)
  BY <1>5, WorkerUpdate DEF SaveRescheduled, OtherWorkers
<1>7. tja' \in [Job -> [Action -> Seq(TransitionJobActionStatus)]]
  BY <1>2, <1>4 DEF SaveRescheduled, TypeOK
<1> QED BY <1>6, <1>7 DEF SaveRescheduled, TypeOK

LEMMA SaveActionType ==
  ASSUME TypeOK, WellFormed, NEW w \in Worker, SaveAction(w)
  PROVE  /\ TypeOK' /\ OtherWorkers(w)
         /\ wk'[w] = CASE wk[w].out = "FINISHED" ->
                            [wk[w] EXCEPT !.pc = "loop", !.completed = wk[w].completed \cup {wk[w].act},
                                          !.act = None, !.row = 0, !.out = "NONE"]
                       [] OTHER -> [wk[w] EXCEPT !.pc = "dump"]
<1> DEFINE x == CASE wk[w].out = "FINISHED" ->
                      [wk[w] EXCEPT !.pc = "loop", !.completed = wk[w].completed \cup {wk[w].act},
                                    !.act = None, !.row = 0, !.out = "NONE"]
                 [] OTHER -> [wk[w] EXCEPT !.pc = "dump"]
<1>1. wk[w] \in WorkerState BY DEF TypeOK
<1>2. JobOf(w) \in Job /\ wk[w].act \in Action
  BY ActOfType DEF SaveAction, InAction
<1>3. tja[JobOf(w)][wk[w].act] \in Seq(TransitionJobActionStatus)
  BY <1>2 DEF TypeOK
<1>4. [tja[JobOf(w)][wk[w].act] EXCEPT ![wk[w].row] = ActionStatus(wk[w].out)]
        \in Seq(TransitionJobActionStatus)
  BY <1>3, UpdatedRow DEF SaveAction, WellFormed, WellFormedWorker,
     ActionStatus, TransitionJobActionStatus
<1>5. [wk[w] EXCEPT !.pc = "loop", !.completed = wk[w].completed \cup {wk[w].act},
                   !.act = None, !.row = 0, !.out = "NONE"] \in WorkerState
  BY <1>1, <1>2 DEF WorkerState, WorkerPc
<1>6. [wk[w] EXCEPT !.pc = "dump"] \in WorkerState
  BY <1>1 DEF WorkerState, WorkerPc
<1>7. x \in WorkerState
  BY <1>1, <1>2, <1>3, <1>4, <1>5, <1>6 DEF WorkerState
<1>8. /\ wk' \in [Worker -> WorkerState]
      /\ wk'[w] = x /\ OtherWorkers(w)
  BY <1>7, WorkerUpdate DEF SaveAction, OtherWorkers
<1>9. tja' \in [Job -> [Action -> Seq(TransitionJobActionStatus)]]
  BY <1>2, <1>4 DEF SaveAction, TypeOK
<1> QED BY <1>8, <1>9 DEF SaveAction, TypeOK

LEMMA RaiseCycleErrorType ==
  ASSUME TypeOK, NEW w \in Worker, RaiseCycleError(w)
  PROVE  /\ TypeOK' /\ OtherWorkers(w)
         /\ wk'[w] = FailingJob(w)
<1> DEFINE x == FailingJob(w)
<1>1. wk[w] \in WorkerState BY DEF TypeOK
<1>2. x \in WorkerState
  BY <1>1, FailingJobType DEF WorkerState
<1>3. /\ wk' \in [Worker -> WorkerState]
      /\ wk'[w] = x /\ OtherWorkers(w)
  BY <1>2, WorkerUpdate DEF RaiseCycleError, OtherWorkers
<1> QED BY <1>3 DEF RaiseCycleError, TypeOK

LEMMA LeaveLoopType ==
  ASSUME TypeOK, NEW w \in Worker, LeaveLoop(w)
  PROVE  /\ TypeOK' /\ OtherWorkers(w)
         /\ wk'[w] = [wk[w] EXCEPT !.pc = "record"]
<1> DEFINE x == [wk[w] EXCEPT !.pc = "record"]
<1>1. wk[w] \in WorkerState BY DEF TypeOK
<1>2. x \in WorkerState
  BY <1>1 DEF WorkerState, WorkerPc
<1>3. /\ wk' \in [Worker -> WorkerState]
      /\ wk'[w] = x /\ OtherWorkers(w)
  BY <1>2, WorkerUpdate DEF LeaveLoop, OtherWorkers
<1> QED BY <1>3 DEF LeaveLoop, TypeOK

LEMMA RecordHistoryType ==
  ASSUME TypeOK, WellFormed, NEW w \in Worker, RecordHistory(w)
  PROVE  /\ TypeOK' /\ OtherWorkers(w)
         /\ wk'[w] = [wk[w] EXCEPT !.pc = "store"]
<1> DEFINE x == [wk[w] EXCEPT !.pc = "store"]
<1>1. wk[w] \in WorkerState BY DEF TypeOK
<1>2. JobOf(w) \in Job
  BY DEF RecordHistory, WellFormed, WellFormedWorker
<1>3. x \in WorkerState
  BY <1>1, <1>2 DEF WorkerState, WorkerPc
<1>4. /\ wk' \in [Worker -> WorkerState]
      /\ wk'[w] = x /\ OtherWorkers(w)
  BY <1>3, WorkerUpdate DEF RecordHistory, OtherWorkers
<1>5. history' \in [Job -> Nat]
  BY <1>2 DEF RecordHistory, TypeOK
<1> QED BY <1>4, <1>5 DEF RecordHistory, TypeOK

LEMMA StoreObjectType ==
  ASSUME TypeOK, WellFormed, NEW w \in Worker, StoreObject(w)
  PROVE  /\ TypeOK' /\ OtherWorkers(w)
         /\ wk'[w] = [wk[w] EXCEPT !.pc = "dump", !.out = "FINISHED"]
<1> DEFINE x == [wk[w] EXCEPT !.pc = "dump", !.out = "FINISHED"]
<1>1. wk[w] \in WorkerState BY DEF TypeOK
<1>2. /\ ObjOf(w) \in Object /\ TransOf(w) \in Transition
      /\ wk[w].snap \in Status
  BY DEF StoreObject, WellFormed, WellFormedWorker, WellFormedRows, ObjOf, TransOf
<1>3. StoredStatus(TransOf(w), ObjOf(w), wk[w].snap) \in Status
  BY <1>2, ConfigAssumption DEF StoredStatus, TypeOK
<1>4. x \in WorkerState
  BY <1>1, <1>2, <1>3 DEF WorkerState, WorkerPc, JobStatus
<1>5. /\ wk' \in [Worker -> WorkerState]
      /\ wk'[w] = x /\ OtherWorkers(w)
  BY <1>4, WorkerUpdate DEF StoreObject, OtherWorkers
<1>6. obj' \in [Object -> Status]
  BY <1>2, <1>3 DEF StoreObject, TypeOK
<1> QED BY <1>5, <1>6 DEF StoreObject, TypeOK

LEMMA DumpParamsType ==
  ASSUME TypeOK, NEW w \in Worker, DumpParams(w)
  PROVE  /\ TypeOK' /\ OtherWorkers(w)
         /\ wk'[w] = [wk[w] EXCEPT !.pc = "mark", !.mem.params = wk[w].params]
<1> DEFINE x == [wk[w] EXCEPT !.pc = "mark", !.mem.params = wk[w].params]
<1>1. wk[w] \in WorkerState BY DEF TypeOK
<1>2. [wk[w].mem EXCEPT !.params = wk[w].params] \in Row
  BY <1>1 DEF WorkerState, Row
<1>3. x \in WorkerState
  BY <1>1, <1>2 DEF WorkerState, WorkerPc, Row
<1>4. /\ wk' \in [Worker -> WorkerState]
      /\ wk'[w] = x /\ OtherWorkers(w)
  BY <1>3, WorkerUpdate DEF DumpParams, OtherWorkers
<1>5. job' \in [Job -> Row]
  BY <1>2 DEF DumpParams, TypeOK
<1> QED BY <1>4, <1>5 DEF DumpParams, TypeOK

LEMMA MarkJobType ==
  ASSUME TypeOK, WellFormed, NEW w \in Worker, MarkJob(w)
  PROVE  /\ TypeOK' /\ OtherWorkers(w)
         /\ wk'[w] = IdleWorker
<1> DEFINE x == IdleWorker
<1>1. wk[w] \in WorkerState BY DEF TypeOK
<1>2. [wk[w].mem EXCEPT !.status = wk[w].out] \in Row
  BY <1>1 DEF MarkJob, WellFormed, WellFormedWorker, WorkerState, Row, JobStatus
<1>3. x \in WorkerState
  BY <1>1, <1>2, IdleWorkerType DEF WorkerState, WorkerPc
<1>4. /\ wk' \in [Worker -> WorkerState]
      /\ wk'[w] = x /\ OtherWorkers(w)
  BY <1>3, WorkerUpdate DEF MarkJob, OtherWorkers
<1>5. job' \in [Job -> Row]
  BY <1>2 DEF MarkJob, TypeOK
<1> QED BY <1>4, <1>5 DEF MarkJob, TypeOK

LEMMA RaiseExceptionType ==
  ASSUME TypeOK, NEW w \in Worker, RaiseException(w)
  PROVE  /\ TypeOK' /\ OtherWorkers(w)
         /\ wk'[w] = IF wk[w].pc = "commit"
                     THEN [wk[w] EXCEPT !.pc = "save", !.out = "FAILED"]
                     ELSE FailingJob(w)
<1> DEFINE x == IF wk[w].pc = "commit"
               THEN [wk[w] EXCEPT !.pc = "save", !.out = "FAILED"]
               ELSE FailingJob(w)
<1>1. wk[w] \in WorkerState BY DEF TypeOK
<1>2. [wk[w] EXCEPT !.pc = "save", !.out = "FAILED"] \in WorkerState
  BY <1>1 DEF WorkerState, WorkerPc, JobStatus
<1>3. x \in WorkerState
  BY <1>1, <1>2, FailingJobType DEF WorkerState
<1>4. /\ wk' \in [Worker -> WorkerState]
      /\ wk'[w] = x /\ OtherWorkers(w)
  BY <1>3, WorkerUpdate DEF RaiseException, OtherWorkers
<1> QED BY <1>4 DEF RaiseException, TypeOK

LEMMA CrashWorkerType ==
  ASSUME TypeOK, NEW w \in Worker, CrashWorker(w)
  PROVE  /\ TypeOK' /\ OtherWorkers(w)
         /\ wk'[w] = IdleWorker
<1> DEFINE x == IdleWorker
<1>1. wk[w] \in WorkerState BY DEF TypeOK
<1>2. x \in WorkerState
  BY <1>1, IdleWorkerType DEF WorkerState, WorkerPc
<1>3. /\ wk' \in [Worker -> WorkerState]
      /\ wk'[w] = x /\ OtherWorkers(w)
  BY <1>2, WorkerUpdate DEF CrashWorker, OtherWorkers
<1> QED BY <1>3 DEF CrashWorker, TypeOK
-----------------------------------------------------------------------------
(* One lemma per step of a request: the types, and its own record *)

LEMMA FetchObjectsType ==
  ASSUME TypeOK, NEW r \in Request, FetchObjects(r)
  PROVE  TypeOK' /\ OtherRequests(r) /\ WellFormedRequest(r)'
<1>1. PICK t \in Transition, S \in (SUBSET Object) \ {{}} :
        req' = [req EXCEPT ![r] =
                 [NewRequest EXCEPT !.pc = "check", !.trans = t, !.todo = S,
                    !.snap = [o \in Object |-> IF o \in S THEN obj[o] ELSE None]]]
  BY DEF FetchObjects
<1> DEFINE snap == [o \in Object |-> IF o \in S THEN obj[o] ELSE None]
           x == [NewRequest EXCEPT !.pc = "check", !.trans = t, !.todo = S, !.snap = snap]
<1>2. snap \in [Object -> Status \cup {None}] /\ \A o \in S : snap[o] \in Status
  BY DEF TypeOK
<1>3. x \in RequestState
  BY <1>2, NewRequestType DEF RequestState, RequestPc
<1>4. req' \in [Request -> RequestState] /\ req'[r] = x /\ OtherRequests(r)
  BY <1>1, <1>3, RequestUpdate DEF OtherRequests
<1>5. x.pc = "check" /\ x.trans = t /\ x.todo = S /\ x.snap = snap
  BY NewRequestType DEF RequestState
<1>6. WellFormedRequest(r)' BY <1>2, <1>4, <1>5 DEF WellFormedRequest
<1> QED BY <1>4, <1>6 DEF FetchObjects, TypeOK

LEMMA CheckInstancesType ==
  ASSUME TypeOK, WellFormed, NEW r \in Request, CheckInstances(r)
  PROVE  TypeOK' /\ OtherRequests(r) /\ WellFormedRequest(r)'
<1> DEFINE x == [req[r] EXCEPT !.pc = IF req[r].trans \in Async THEN "create" ELSE "sync"]
<1>1. req[r] \in RequestState BY DEF TypeOK
<1>2. x \in RequestState BY <1>1 DEF RequestState, RequestPc
<1>3. req' \in [Request -> RequestState] /\ req'[r] = x /\ OtherRequests(r)
  BY <1>2, RequestUpdate DEF OtherRequests, CheckInstances
<1>4. /\ req[r].pc = "check" /\ x.pc \in {"create", "sync"}
      /\ x.trans = req[r].trans /\ x.todo = req[r].todo /\ x.snap = req[r].snap
  BY <1>1 DEF RequestState, CheckInstances
<1>5. WellFormedRequest(r)'
  BY <1>3, <1>4 DEF WellFormed, WellFormedRequest
<1> QED BY <1>3, <1>5 DEF CheckInstances, TypeOK

\* The steps after which a request is over.
LEMMA FinishedType ==
  ASSUME TypeOK, NEW r \in Request, req' = [req EXCEPT ![r] = Finished]
  PROVE  /\ req' \in [Request -> RequestState]
         /\ OtherRequests(r) /\ WellFormedRequest(r)'
<1>1. req' \in [Request -> RequestState] /\ req'[r] = Finished /\ OtherRequests(r)
  BY NewRequestType, RequestUpdate DEF OtherRequests
<1>2. Finished.pc = "done" BY DEF Finished, NewRequest
<1> QED BY <1>1, <1>2 DEF WellFormedRequest

LEMMA EndOfRequestType ==
  ASSUME TypeOK, NEW r \in Request,
         RejectRequest(r) \/ FailSynchronously(r) \/ AbandonRequest(r)
  PROVE  TypeOK' /\ OtherRequests(r) /\ WellFormedRequest(r)'
<1>1. req' = [req EXCEPT ![r] = Finished]
  BY DEF RejectRequest, FailSynchronously, AbandonRequest
<1>2. crashes' \in Nat BY DEF RejectRequest, FailSynchronously, AbandonRequest, TypeOK
<1> QED BY <1>1, <1>2, FinishedType DEF TypeOK, RejectRequest, FailSynchronously, AbandonRequest

LEMMA CreateJobType ==
  ASSUME TypeOK, WellFormed, NEW r \in Request, CreateJob(r)
  PROVE  TypeOK' /\ OtherRequests(r) /\ WellFormedRequest(r)'
<1>1. PICK o \in req[r].todo, j \in Job :
        /\ job' = [job EXCEPT ![j] = [status |-> "QUEUED", params |-> {}]]
        /\ about' = [about EXCEPT ![j] = [obj |-> o, trans |-> req[r].trans]]
        /\ req' = [req EXCEPT ![r] = [req[r] EXCEPT !.pc = "enqueue", !.job = j,
                                        !.todo = req[r].todo \ {o}]]
  BY DEF CreateJob
<1> DEFINE x == [req[r] EXCEPT !.pc = "enqueue", !.job = j, !.todo = req[r].todo \ {o}]
<1>2. req[r] \in RequestState /\ req[r].pc = "create" BY DEF TypeOK, CreateJob
<1>3. req[r].trans \in Transition /\ o \in Object
  BY <1>2 DEF WellFormed, WellFormedRequest, RequestState
<1>4. x \in RequestState BY <1>2 DEF RequestState, RequestPc
<1>5. req' \in [Request -> RequestState] /\ req'[r] = x /\ OtherRequests(r)
  BY <1>1, <1>4, RequestUpdate DEF OtherRequests
<1>6. x.pc = "enqueue" /\ x.trans = req[r].trans /\ x.job = j
  BY <1>2 DEF RequestState
<1>7. [status |-> "QUEUED", params |-> {}] \in Row BY DEF Row, JobStatus
<1>8. job' \in [Job -> Row] /\ job'[j].status = "QUEUED" BY <1>1, <1>7 DEF TypeOK
<1>9. about' \in [Job -> [obj : Object \cup {None}, trans : Transition \cup {None}]]
  BY <1>1, <1>3 DEF TypeOK
<1>10. WellFormedRequest(r)'
  BY <1>3, <1>5, <1>6, <1>8 DEF WellFormedRequest, Exists
<1> QED BY <1>5, <1>8, <1>9, <1>10 DEF CreateJob, TypeOK

LEMMA EnqueueJobType ==
  ASSUME TypeOK, WellFormed, NEW r \in Request, EnqueueJob(r)
  PROVE  TypeOK' /\ OtherRequests(r) /\ WellFormedRequest(r)'
<1> DEFINE y == [req[r] EXCEPT !.pc = "create", !.job = None]
           x == IF req[r].todo = {} THEN Finished ELSE y
<1>1. req[r] \in RequestState /\ req[r].pc = "enqueue" BY DEF TypeOK, EnqueueJob
<1>2. req[r].job \in Job /\ req[r].trans \in Transition
  BY <1>1 DEF WellFormed, WellFormedRequest
<1>3. y \in RequestState BY <1>1 DEF RequestState, RequestPc
<1>4. x \in RequestState BY <1>3, NewRequestType
<1>5. req' \in [Request -> RequestState] /\ req'[r] = x /\ OtherRequests(r)
  BY <1>4, RequestUpdate DEF OtherRequests, EnqueueJob
<1>6. /\ y.pc = "create" /\ y.trans = req[r].trans
      /\ Finished.pc = "done"
  BY <1>1 DEF RequestState, Finished, NewRequest
<1>7. WellFormedRequest(r)' BY <1>2, <1>5, <1>6 DEF WellFormedRequest
<1>8. queue' \in Seq(Job) BY <1>2 DEF EnqueueJob, TypeOK
<1> QED BY <1>5, <1>7, <1>8 DEF EnqueueJob, TypeOK

LEMMA RunSynchronouslyType ==
  ASSUME TypeOK, WellFormed, NEW r \in Request, RunSynchronously(r)
  PROVE  TypeOK' /\ OtherRequests(r) /\ WellFormedRequest(r)'
<1>1. req[r].trans \in Transition /\ \A o \in req[r].todo : req[r].snap[o] \in Status
  BY DEF RunSynchronously, WellFormed, WellFormedRequest
<1>2. \A o \in Object : o \in req[r].todo =>
        StoredStatus(req[r].trans, o, req[r].snap[o]) \in Status
  BY <1>1, ConfigAssumption DEF StoredStatus, TypeOK
<1>3. obj' \in [Object -> Status] BY <1>2 DEF RunSynchronously, TypeOK
<1>4. req' = [req EXCEPT ![r] = Finished] BY DEF RunSynchronously
<1> QED BY <1>3, <1>4, FinishedType DEF RunSynchronously, TypeOK

LEMMA FetchJobToKillType ==
  ASSUME TypeOK, NEW r \in Request, FetchJobToKill(r)
  PROVE  TypeOK' /\ OtherRequests(r) /\ WellFormedRequest(r)'
<1>1. PICK j \in Job :
        /\ Exists(j)
        /\ req' = [req EXCEPT ![r] = [req[r] EXCEPT !.pc = "kill", !.job = j, !.row = job[j]]]
  BY DEF FetchJobToKill
<1> DEFINE x == [req[r] EXCEPT !.pc = "kill", !.job = j, !.row = job[j]]
<1>2. req[r] \in RequestState /\ job[j] \in Row BY DEF TypeOK
<1>3. x \in RequestState BY <1>2 DEF RequestState, RequestPc
<1>4. req' \in [Request -> RequestState] /\ req'[r] = x /\ OtherRequests(r)
  BY <1>1, <1>3, RequestUpdate DEF OtherRequests
<1>5. x.pc = "kill" /\ x.job = j BY <1>2 DEF RequestState
<1>6. WellFormedRequest(r)'
  BY <1>1, <1>4, <1>5 DEF WellFormedRequest, Exists, FetchJobToKill
<1> QED BY <1>4, <1>6 DEF FetchJobToKill, TypeOK

LEMMA KillJobType ==
  ASSUME TypeOK, NEW r \in Request, KillJob(r)
  PROVE  TypeOK' /\ OtherRequests(r) /\ WellFormedRequest(r)'
<1>1. req[r].row \in Row BY DEF TypeOK, RequestState
<1>2. [req[r].row EXCEPT !.status = "KILLED"] \in Row BY <1>1 DEF Row, JobStatus
<1>3. job' \in [Job -> Row] BY <1>2 DEF KillJob, TypeOK
<1>4. req' = [req EXCEPT ![r] = Finished] BY DEF KillJob
<1> QED BY <1>3, <1>4, FinishedType DEF KillJob, TypeOK

LEMMA MarkAsDoneType ==
  ASSUME TypeOK, NEW r \in Request, MarkAsDone(r)
  PROVE  TypeOK' /\ OtherRequests(r) /\ WellFormedRequest(r)'
<1>1. PICK j \in Job :
        /\ IsDeployment(j)
        /\ req' = [req EXCEPT ![r] = IF job[j].status = "FROZEN"
                                     THEN [req[r] EXCEPT !.pc = "unfreeze", !.job = j]
                                     ELSE Finished]
  BY DEF MarkAsDone
<1> DEFINE y == [req[r] EXCEPT !.pc = "unfreeze", !.job = j]
           x == IF job[j].status = "FROZEN" THEN y ELSE Finished
<1>2. req[r] \in RequestState BY DEF TypeOK
<1>3. y \in RequestState BY <1>2 DEF RequestState, RequestPc
<1>4. x \in RequestState BY <1>3, NewRequestType
<1>5. req' \in [Request -> RequestState] /\ req'[r] = x /\ OtherRequests(r)
  BY <1>1, <1>4, RequestUpdate DEF OtherRequests
<1>6. y.pc = "unfreeze" /\ y.job = j /\ Finished.pc = "done"
  BY <1>2 DEF RequestState, Finished, NewRequest
<1>7. WellFormedRequest(r)'
  BY <1>1, <1>5, <1>6 DEF WellFormedRequest, Exists, IsDeployment, MarkAsDone
<1> QED BY <1>5, <1>7 DEF MarkAsDone, TypeOK

LEMMA UnfreezeType ==
  ASSUME TypeOK, WellFormed, NEW r \in Request, Unfreeze(r)
  PROVE  TypeOK' /\ OtherRequests(r) /\ WellFormedRequest(r)'
<1>1. req[r].job \in Job BY DEF Unfreeze, WellFormed, WellFormedRequest
<1>2. queue' \in Seq(Job) BY <1>1 DEF Unfreeze, TypeOK
<1>3. req' = [req EXCEPT ![r] = Finished] BY DEF Unfreeze
<1> QED BY <1>2, <1>3, FinishedType DEF Unfreeze, TypeOK

-----------------------------------------------------------------------------
(* Nothing committed is taken back *)

Monotone ==
  /\ \A j \in Job : Exists(j) => Exists(j)' /\ about'[j] = about[j]
  /\ \A j \in Job, a \in Action : Done(j, a) => Done(j, a)'
  /\ \A j \in Job : history[j] > 0 => history'[j] > 0
  /\ \A j \in Job, a \in Action : DOMAIN tja[j][a] \subseteq DOMAIN tja'[j][a]

\* The part of the invariant that is not about one request or worker.
Globals ==
  /\ WellFormedRows /\ \A i \in DOMAIN queue : Exists(queue[i])
  /\ RowsAreTrue /\ RequirementsFirst /\ HistoryAfterAllActions /\ SuccessIsRecorded

LEMMA OtherWorkerKept ==
  ASSUME IInv, Monotone, NEW v \in Worker, wk'[v] = wk[v]
  PROVE  WellFormedWorker(v)' /\ WorkerIsRight(v)'
<1>1. WellFormedWorker(v) /\ WorkerIsRight(v) BY DEF IInv, WellFormed
<1>2. CASE wk[v].pc = "idle"
  BY <1>2 DEF WellFormedWorker, WorkerIsRight, InAction
<1>3. CASE wk[v].pc # "idle"
  <2>1. JobOf(v) \in Job /\ Exists(JobOf(v)) BY <1>1, <1>3 DEF WellFormedWorker
  <2>2. JobOf(v)' = JobOf(v) BY DEF JobOf
  <2>3. /\ Exists(JobOf(v))' /\ ActsOf(v)' = ActsOf(v) /\ TransOf(v) \in Transition
    BY <2>1, <2>2 DEF Monotone, Exists, ActsOf, TransOf, IInv, WellFormed, WellFormedRows
  <2>4. ActsOf(v) \subseteq Action /\ \A a \in Action : RunAfter[a] \subseteq Action
    BY <2>3, ConfigAssumption DEF ActsOf
  <2>5. \A a \in Action : Done(JobOf(v), a) => Done(JobOf(v), a)'
    BY <2>1, <2>2 DEF Monotone, Done
  <2>6. history[JobOf(v)] > 0 => history'[JobOf(v)] > 0 BY <2>1 DEF Monotone
  <2>7. wk[v].act \in Action => DOMAIN tja[JobOf(v)][wk[v].act]
                                \subseteq DOMAIN tja'[JobOf(v)][wk[v].act]
    BY <2>1 DEF Monotone
  <2>8. WellFormedWorker(v)'
    BY <1>1, <2>2, <2>3, <2>4, <2>7 DEF WellFormedWorker, InAction
  <2>9. wk[v].yielded \subseteq Action /\ wk[v].completed \subseteq Action
    BY DEF IInv, TypeOK, WorkerState
  <2>10. /\ wk[v].pc \in InAction => wk[v].act \in Action
    BY <1>1, <2>4 DEF WellFormedWorker
  <2>11. WorkerIsRight(v)'
    BY <1>1, <2>2, <2>3, <2>4, <2>5, <2>6, <2>9, <2>10 DEF WorkerIsRight, InAction
  <2> QED BY <2>8, <2>11
<1> QED BY <1>2, <1>3

LEMMA OtherRequestKept ==
  ASSUME IInv, Monotone, NEW q \in Request, req'[q] = req[q]
  PROVE  WellFormedRequest(q)'
BY DEF IInv, WellFormed, WellFormedRequest, Monotone

\* So a step has to be looked at only where it acts.
LEMMA WorkerStepKeeps ==
  ASSUME IInv, NEW w \in Worker, TypeOK', req' = req, OtherWorkers(w), Monotone,
         Globals', WellFormedWorker(w)', WorkerIsRight(w)'
  PROVE  IInv'
<1>1. ASSUME NEW v \in Worker PROVE WellFormedWorker(v)' /\ WorkerIsRight(v)'
  <2>1. CASE v = w BY <2>1
  <2>2. CASE v # w BY <2>2, OtherWorkerKept DEF OtherWorkers
  <2> QED BY <2>1, <2>2
<1>2. ASSUME NEW q \in Request PROVE WellFormedRequest(q)'
  BY OtherRequestKept
<1> QED BY <1>1, <1>2 DEF IInv, WellFormed, Globals

LEMMA RequestStepKeeps ==
  ASSUME IInv, NEW r \in Request, TypeOK', wk' = wk, OtherRequests(r), Monotone,
         Globals', WellFormedRequest(r)'
  PROVE  IInv'
<1>1. ASSUME NEW v \in Worker PROVE WellFormedWorker(v)' /\ WorkerIsRight(v)'
  BY OtherWorkerKept
<1>2. ASSUME NEW q \in Request PROVE WellFormedRequest(q)'
  <2>1. CASE q = r BY <2>1
  <2>2. CASE q # r BY <2>2, OtherRequestKept DEF OtherRequests
  <2> QED BY <2>1, <2>2
<1> QED BY <1>1, <1>2 DEF IInv, WellFormed, Globals

\* Many steps change nothing that is shared, or only the queue and the objects.
LEMMA DatabaseKept ==
  ASSUME IInv, UNCHANGED <<job, about, tja, performed, history>>,
         \A i \in DOMAIN queue' : Exists(queue'[i])
  PROVE  Monotone /\ Globals'
BY DEF IInv, WellFormed, WellFormedRows, RowsAreTrue, RequirementsFirst, ActionsOf,
       HistoryAfterAllActions, SuccessIsRecorded, Done, Exists, Monotone, Globals

LEMMA DatabaseAndQueueKept ==
  ASSUME IInv, UNCHANGED <<job, about, tja, queue, performed, history>>
  PROVE  Monotone /\ Globals'
<1>1. \A i \in DOMAIN queue' : Exists(queue'[i]) BY DEF IInv, WellFormed
<1> QED BY <1>1, DatabaseKept

\* A row is saved that exists, and is shown as finished only with a history entry.
LEMMA RowSaved ==
  ASSUME IInv, NEW j \in Job, NEW row \in Row, Exists(j), row.status # "ABSENT",
         row.status = "FINISHED" => history[j] > 0, job' = [job EXCEPT ![j] = row],
         UNCHANGED <<about, tja, queue, performed, history>>
  PROVE  Monotone /\ Globals'
<1>1. \A k \in Job : /\ Exists(k)' <=> Exists(k)
                     /\ job'[k].status = "FINISHED" => history[k] > 0
  BY DEF IInv, TypeOK, Exists, SuccessIsRecorded
<1>2. Monotone BY <1>1 DEF Monotone, Done
<1>3. \A i \in DOMAIN queue : queue[i] \in Job BY DEF IInv, TypeOK
<1> QED BY <1>1, <1>2, <1>3 DEF Globals, IInv, WellFormed, WellFormedRows, RowsAreTrue,
     RequirementsFirst, ActionsOf, HistoryAfterAllActions, SuccessIsRecorded, Done

-----------------------------------------------------------------------------
(* The invariant is kept by the requests *)

LEMMA RequestKeepsInv ==
  ASSUME IInv, NEW r \in Request, RequestStep(r) \/ AbandonRequest(r)
  PROVE  IInv'
<1> USE DEF IInv
<1>1. CASE FetchObjects(r)
  <2>1. Monotone /\ Globals' BY <1>1, DatabaseAndQueueKept DEF FetchObjects
  <2> QED BY <1>1, <2>1, FetchObjectsType, RequestStepKeeps DEF FetchObjects
<1>2. CASE CheckInstances(r)
  <2>1. Monotone /\ Globals' BY <1>2, DatabaseAndQueueKept DEF CheckInstances
  <2> QED BY <1>2, <2>1, CheckInstancesType, RequestStepKeeps DEF CheckInstances
<1>3. CASE RejectRequest(r) \/ FailSynchronously(r) \/ AbandonRequest(r)
  <2>1. UNCHANGED <<job, about, tja, queue, performed, history, wk>>
    BY <1>3 DEF RejectRequest, FailSynchronously, AbandonRequest
  <2>2. Monotone /\ Globals' BY <2>1, DatabaseAndQueueKept
  <2> QED BY <1>3, <2>1, <2>2, EndOfRequestType, RequestStepKeeps
<1>4. CASE CreateJob(r)
  <2>1. PICK o \in req[r].todo, j \in Job :
          /\ ~Exists(j)
          /\ job' = [job EXCEPT ![j] = [status |-> "QUEUED", params |-> {}]]
          /\ about' = [about EXCEPT ![j] = [obj |-> o, trans |-> req[r].trans]]
    BY <1>4 DEF CreateJob
  <2>2. req[r].trans \in Transition /\ o \in Object
    BY <1>4, <2>1 DEF CreateJob, WellFormed, WellFormedRequest, TypeOK, RequestState
  <2>3. /\ \A k \in Job : k # j => job'[k] = job[k] /\ about'[k] = about[k]
        /\ job'[j].status = "QUEUED" /\ about'[j] = [obj |-> o, trans |-> req[r].trans]
    BY <2>1 DEF TypeOK
  <2>4. UNCHANGED <<tja, queue, performed, history>> BY <1>4 DEF CreateJob
  <2>5. Monotone BY <2>1, <2>3, <2>4 DEF Monotone, Exists, Done
  <2>6. history[j] = 0 /\ \A a \in Action : ~Done(j, a)
    BY <2>1 DEF WellFormed, WellFormedRows
  <2>7. WellFormedRows' BY <2>2, <2>3, <2>4 DEF WellFormed, WellFormedRows, Exists, Done
  <2>8. \A i \in DOMAIN queue : queue[i] \in Job BY DEF TypeOK
  <2>9. (\A i \in DOMAIN queue : Exists(queue[i]))'
    BY <2>4, <2>5, <2>8 DEF WellFormed, Monotone
  <2>10. RowsAreTrue' BY <2>4 DEF RowsAreTrue, Done
  <2>11. \A k \in Job : Exists(k)' => ActionsOf(k)' \subseteq Action
    BY <2>7, ConfigAssumption DEF WellFormedRows, ActionsOf
  <2>12. RequirementsFirst'
    BY <2>3, <2>4, <2>6, <2>11 DEF RequirementsFirst, Exists, Done, ActionsOf
  <2>13. HistoryAfterAllActions'
    BY <2>3, <2>4, <2>6 DEF HistoryAfterAllActions, Exists, Done, ActionsOf
  <2>14. SuccessIsRecorded' BY <2>3, <2>4 DEF SuccessIsRecorded
  <2>15. Globals' BY <2>7, <2>9, <2>10, <2>12, <2>13, <2>14 DEF Globals
  <2> QED BY <1>4, <2>5, <2>15, CreateJobType, RequestStepKeeps DEF CreateJob
<1>5. CASE EnqueueJob(r)
  <2>1. req[r].job \in Job /\ Exists(req[r].job)
    BY <1>5 DEF EnqueueJob, WellFormed, WellFormedRequest
  <2>2. \A i \in DOMAIN queue' : Exists(queue'[i])
    BY <1>5, <2>1 DEF EnqueueJob, WellFormed, TypeOK
  <2>3. Monotone /\ Globals' BY <1>5, <2>2, DatabaseKept DEF EnqueueJob
  <2> QED BY <1>5, <2>3, EnqueueJobType, RequestStepKeeps DEF EnqueueJob
<1>6. CASE RunSynchronously(r)
  <2>1. Monotone /\ Globals' BY <1>6, DatabaseAndQueueKept DEF RunSynchronously
  <2> QED BY <1>6, <2>1, RunSynchronouslyType, RequestStepKeeps DEF RunSynchronously
<1>7. CASE FetchJobToKill(r)
  <2>1. Monotone /\ Globals' BY <1>7, DatabaseAndQueueKept DEF FetchJobToKill
  <2> QED BY <1>7, <2>1, FetchJobToKillType, RequestStepKeeps DEF FetchJobToKill
<1>8. CASE KillJob(r)
  <2> DEFINE row == [req[r].row EXCEPT !.status = "KILLED"]
  <2>1. req[r].row \in Row BY DEF TypeOK, RequestState
  <2>2. row \in Row /\ row.status = "KILLED" BY <2>1 DEF Row, JobStatus
  <2>3. req[r].job \in Job /\ Exists(req[r].job)
    BY <1>8 DEF KillJob, WellFormed, WellFormedRequest
  <2>4. Monotone /\ Globals' BY <1>8, <2>2, <2>3, RowSaved DEF KillJob
  <2> QED BY <1>8, <2>4, KillJobType, RequestStepKeeps DEF KillJob
<1>9. CASE MarkAsDone(r)
  <2>1. Monotone /\ Globals' BY <1>9, DatabaseAndQueueKept DEF MarkAsDone
  <2> QED BY <1>9, <2>1, MarkAsDoneType, RequestStepKeeps DEF MarkAsDone
<1>10. CASE Unfreeze(r)
  <2>1. req[r].job \in Job /\ Exists(req[r].job)
    BY <1>10 DEF Unfreeze, WellFormed, WellFormedRequest
  <2>2. \A i \in DOMAIN queue' : Exists(queue'[i])
    BY <1>10, <2>1 DEF Unfreeze, WellFormed, TypeOK
  <2>3. Monotone /\ Globals' BY <1>10, <2>2, DatabaseKept DEF Unfreeze
  <2> QED BY <1>10, <2>3, UnfreezeType, RequestStepKeeps DEF Unfreeze
<1> QED BY <1>1, <1>2, <1>3, <1>4, <1>5, <1>6, <1>7, <1>8, <1>9, <1>10 DEF RequestStep

-----------------------------------------------------------------------------
(* The invariant is kept by the workers *)

LEMMA IdleIsRight ==
  ASSUME NEW w \in Worker, wk'[w] = IdleWorker
  PROVE  WellFormedWorker(w)' /\ WorkerIsRight(w)'
<1>1. wk'[w].pc = "idle" BY DEF IdleWorker
<1> QED BY <1>1 DEF WellFormedWorker, WorkerIsRight, InAction

\* Any step that ends in Job.fail.
LEMMA FailingIsRight ==
  ASSUME IInv, NEW w \in Worker, wk[w].pc # "idle", wk'[w] = FailingJob(w),
         UNCHANGED <<job, history>>
  PROVE  WellFormedWorker(w)' /\ WorkerIsRight(w)'
<1>1. wk[w] \in WorkerState BY DEF IInv, TypeOK
<1>2. /\ wk'[w].pc = "dump" /\ wk'[w].out = "FAILED"
      /\ wk'[w].job = wk[w].job /\ wk'[w].mem = wk[w].mem
  BY <1>1 DEF FailingJob, WorkerState
<1>3. WellFormedWorker(w) /\ WorkerIsRight(w) BY DEF IInv, WellFormed
<1> QED BY <1>2, <1>3 DEF WellFormedWorker, WorkerIsRight, InAction, JobOf, Exists

\* A worker that is not idle has a committed job, with a transition.
LEMMA JobOfWorker ==
  ASSUME IInv, NEW w \in Worker, wk[w].pc # "idle"
  PROVE  /\ JobOf(w) \in Job /\ Exists(JobOf(w))
         /\ ObjOf(w) \in Object /\ TransOf(w) \in Transition
         /\ ActsOf(w) \subseteq Action /\ ActsOf(w) = ActionsOf(JobOf(w))
<1>1. JobOf(w) \in Job /\ Exists(JobOf(w)) BY DEF IInv, WellFormed, WellFormedWorker
<1>2. ObjOf(w) \in Object /\ TransOf(w) \in Transition
  BY <1>1 DEF IInv, WellFormed, WellFormedRows, ObjOf, TransOf
<1> QED BY <1>1, <1>2, ConfigAssumption DEF ActsOf, ActionsOf, TransOf

\* What WellFormedWorker and WorkerIsRight say, of the worker that takes a step.
LEMMA ActingWorker ==
  ASSUME IInv, NEW w \in Worker
  PROVE  TypeOK /\ WellFormed /\ wk[w] \in WorkerState /\ WellFormedWorker(w) /\ WorkerIsRight(w)
BY DEF IInv, WellFormed, TypeOK

LEMMA FetchJobKeeps ==
  ASSUME IInv, NEW w \in Worker, FetchJob(w) PROVE IInv'
<1> DEFINE j == Head(queue)
<1>1. TypeOK /\ j \in Job /\ job[j] \in Row /\ Exists(j)
  BY DEF IInv, WellFormed, TypeOK, FetchJob
<1>2. TypeOK' /\ OtherWorkers(w) /\ wk'[w] = [IdleWorker EXCEPT !.pc = "start", !.job = j,
                                               !.mem = job[j], !.was = job[j].status]
  BY <1>1, FetchJobType
<1>3. /\ wk'[w].pc = "start" /\ wk'[w].job = j /\ wk'[w].mem = job[j]
  BY <1>2 DEF IdleWorker
<1>4. \A i \in DOMAIN queue' : Exists(queue'[i])
  BY <1>1 DEF FetchJob, IInv, WellFormed, TypeOK
<1>5. Monotone /\ Globals' BY <1>4, DatabaseKept DEF FetchJob
<1>6. WellFormedWorker(w)'
  BY <1>1, <1>3 DEF WellFormedWorker, InAction, JobOf, Exists, FetchJob
<1>7. WorkerIsRight(w)'
  BY <1>1, <1>2, <1>3 DEF WorkerIsRight, InAction, JobOf, FetchJob, IInv, SuccessIsRecorded, IdleWorker
<1> QED BY <1>2, <1>5, <1>6, <1>7, WorkerStepKeeps DEF FetchJob

LEMMA StartJobKeeps ==
  ASSUME IInv, NEW w \in Worker, StartJob(w) PROVE IInv'
<1> DEFINE row == [wk[w].mem EXCEPT !.status = "STARTED"]
<1>1. /\ TypeOK /\ WellFormed /\ wk[w] \in WorkerState /\ WellFormedWorker(w)
      /\ wk[w].pc = "start"
  BY ActingWorker DEF StartJob
<1>2. TypeOK' /\ OtherWorkers(w)
      /\ wk'[w] = [wk[w] EXCEPT !.pc = "check", !.mem.status = "STARTED",
                                !.params = wk[w].mem.params]
  BY <1>1, StartJobType
<1>3. row \in Row /\ row.status = "STARTED" BY <1>1 DEF WorkerState, Row, JobStatus
<1>4. /\ wk'[w].pc = "check" /\ wk'[w].job = wk[w].job /\ wk'[w].mem.status = "STARTED"
      /\ wk'[w].yielded = wk[w].yielded
  BY <1>1, <1>2 DEF WorkerState, Row
<1>5. JobOf(w) \in Job /\ Exists(JobOf(w)) BY <1>1 DEF WellFormedWorker
<1>6. Monotone /\ Globals' BY <1>3, <1>5, RowSaved DEF StartJob
<1>7. WellFormedWorker(w)'
  BY <1>4, <1>5, <1>6 DEF WellFormedWorker, InAction, JobOf, Monotone
<1>8. WorkerIsRight(w)' BY <1>1, <1>4, ActingWorker DEF WorkerIsRight, InAction
<1> QED BY <1>2, <1>6, <1>7, <1>8, WorkerStepKeeps DEF StartJob

LEMMA CheckObjectKeeps ==
  ASSUME IInv, NEW w \in Worker, CheckObject(w) PROVE IInv'
<1>1. /\ TypeOK /\ WellFormed /\ wk[w] \in WorkerState
      /\ WellFormedWorker(w) /\ WorkerIsRight(w) /\ wk[w].pc = "check"
  BY ActingWorker DEF CheckObject
<1>2. TypeOK' /\ OtherWorkers(w)
      /\ wk'[w] = IF obj[ObjOf(w)] \notin Source[TransOf(w)] THEN FailingJob(w)
                  ELSE IF is_running(wk[w].mem)
                  THEN [wk[w] EXCEPT !.pc = "read", !.snap = obj[ObjOf(w)]]
                  ELSE IdleWorker
  BY <1>1, CheckObjectType
<1>3. Monotone /\ Globals' BY DatabaseAndQueueKept DEF CheckObject
<1>4. WellFormedWorker(w)' /\ WorkerIsRight(w)'
  <2>1. CASE wk'[w] = FailingJob(w) BY <1>1, <2>1, FailingIsRight DEF CheckObject
  <2>2. CASE wk'[w] = IdleWorker BY <2>2, IdleIsRight
  <2>3. CASE wk'[w] = [wk[w] EXCEPT !.pc = "read", !.snap = obj[ObjOf(w)]]
    <3>1. /\ wk'[w].pc = "read" /\ wk'[w].job = wk[w].job /\ wk'[w].mem = wk[w].mem
          /\ wk'[w].snap = obj[ObjOf(w)] /\ wk'[w].yielded = wk[w].yielded
      BY <1>1, <2>3 DEF WorkerState
    <3>2. obj[ObjOf(w)] \in Status BY <1>1, JobOfWorker DEF TypeOK
    <3> QED BY <1>1, <3>1, <3>2
         DEF WellFormedWorker, WorkerIsRight, InAction, JobOf, Exists, CheckObject
  <2> QED BY <1>2, <2>1, <2>2, <2>3
<1> QED BY <1>2, <1>3, <1>4, WorkerStepKeeps DEF CheckObject

LEMMA ReadActionsKeeps ==
  ASSUME IInv, NEW w \in Worker, ReadActions(w) PROVE IInv'
<1> DEFINE c == ActionsWith(JobOf(w), "FINISHED") \cup ActionsWith(JobOf(w), "FAILED")
<1>1. /\ TypeOK /\ WellFormed /\ wk[w] \in WorkerState
      /\ WellFormedWorker(w) /\ WorkerIsRight(w) /\ wk[w].pc = "read"
  BY ActingWorker DEF ReadActions
<1>2. TypeOK' /\ OtherWorkers(w)
      /\ wk'[w] = IF PreviousActionsOk(JobOf(w))
                  THEN [wk[w] EXCEPT !.pc = "loop", !.completed = c]
                  ELSE FailingJob(w)
  BY <1>1, ReadActionsType
<1>3. Monotone /\ Globals' BY DatabaseAndQueueKept DEF ReadActions
<1>4. WellFormedWorker(w)' /\ WorkerIsRight(w)'
  <2>1. CASE ~PreviousActionsOk(JobOf(w))
    BY <1>1, <1>2, <2>1, FailingIsRight DEF ReadActions
  <2>2. CASE PreviousActionsOk(JobOf(w))
    <3>1. /\ wk'[w].pc = "loop" /\ wk'[w].job = wk[w].job /\ wk'[w].mem = wk[w].mem
          /\ wk'[w].snap = wk[w].snap /\ wk'[w].completed = c
          /\ wk'[w].yielded = wk[w].yielded
      BY <1>1, <1>2, <2>2 DEF WorkerState
    <3>2. \A a \in c : Done(JobOf(w), a)
      BY <1>1, <2>2, JobOfWorker DEF PreviousActionsOk, ActionsWith, IInv, RowsAreTrue
    <3>3. wk[w].yielded = {} BY <1>1 DEF IInv, WorkerIsRight
    <3> QED BY <1>1, <3>1, <3>2, <3>3
         DEF WellFormedWorker, WorkerIsRight, InAction, JobOf, Exists, Done, ReadActions
  <2> QED BY <2>1, <2>2
<1> QED BY <1>2, <1>3, <1>4, WorkerStepKeeps DEF ReadActions

LEMMA StopKilledKeeps ==
  ASSUME IInv, NEW w \in Worker, StopKilled(w) PROVE IInv'
<1>1. TypeOK' /\ OtherWorkers(w) /\ wk'[w] = IdleWorker BY StopKilledType, ActingWorker
<1>2. Monotone /\ Globals' BY DatabaseAndQueueKept DEF StopKilled
<1> QED BY <1>1, <1>2, IdleIsRight, WorkerStepKeeps DEF StopKilled

LEMMA SkipActionKeeps ==
  ASSUME IInv, NEW w \in Worker, NEW a \in Action, SkipAction(w, a) PROVE IInv'
<1>1. /\ TypeOK /\ WellFormed /\ wk[w] \in WorkerState
      /\ WellFormedWorker(w) /\ WorkerIsRight(w) /\ wk[w].pc = "loop"
  BY ActingWorker DEF SkipAction
<1>2. TypeOK' /\ OtherWorkers(w)
      /\ wk'[w] = [wk[w] EXCEPT !.yielded = wk[w].yielded \cup {a}, !.mem = job[JobOf(w)]]
  BY <1>1, SkipActionType
<1>3. Monotone /\ Globals' BY DatabaseAndQueueKept DEF SkipAction
<1>4. /\ wk'[w].pc = "loop" /\ wk'[w].job = wk[w].job /\ wk'[w].mem = job[JobOf(w)]
      /\ wk'[w].snap = wk[w].snap /\ wk'[w].completed = wk[w].completed
      /\ wk'[w].yielded = wk[w].yielded \cup {a}
  BY <1>1, <1>2 DEF WorkerState
<1>5. JobOf(w) \in Job /\ Exists(JobOf(w)) BY <1>1 DEF WellFormedWorker
<1>6. Done(JobOf(w), a) BY <1>1 DEF WorkerIsRight, SkipAction
<1>7. WellFormedWorker(w)'
  BY <1>1, <1>4, <1>5 DEF WellFormedWorker, InAction, JobOf, Exists, SkipAction
<1>8. WorkerIsRight(w)'
  BY <1>1, <1>4, <1>5, <1>6
     DEF WorkerIsRight, InAction, JobOf, Done, SkipAction, IInv, SuccessIsRecorded
<1> QED BY <1>2, <1>3, <1>7, <1>8, WorkerStepKeeps DEF SkipAction

LEMMA BeginActionKeeps ==
  ASSUME IInv, NEW w \in Worker, NEW a \in Action, BeginAction(w, a) PROVE IInv'
<1>1. /\ TypeOK /\ WellFormed /\ wk[w] \in WorkerState
      /\ WellFormedWorker(w) /\ WorkerIsRight(w) /\ wk[w].pc = "loop"
  BY ActingWorker DEF BeginAction
<1>2. TypeOK' /\ OtherWorkers(w)
      /\ wk'[w] = [wk[w] EXCEPT !.pc = "lookup", !.act = a,
                                !.yielded = wk[w].yielded \cup {a}, !.mem = job[JobOf(w)]]
  BY <1>1, BeginActionType
<1>3. Monotone /\ Globals' BY DatabaseAndQueueKept DEF BeginAction
<1>4. /\ wk'[w].pc = "lookup" /\ wk'[w].job = wk[w].job /\ wk'[w].mem = job[JobOf(w)]
      /\ wk'[w].snap = wk[w].snap /\ wk'[w].completed = wk[w].completed
      /\ wk'[w].yielded = wk[w].yielded \cup {a} /\ wk'[w].act = a
  BY <1>1, <1>2 DEF WorkerState
<1>5. JobOf(w) \in Job /\ Exists(JobOf(w)) BY <1>1 DEF WellFormedWorker
<1>6. a \in ActsOf(w) /\ RunAfter[a] \cap ActsOf(w) \subseteq wk[w].yielded
  BY DEF BeginAction, Ready, ActsOf
<1>7. \A b \in wk[w].yielded : Done(JobOf(w), b) BY <1>1 DEF WorkerIsRight
<1>8. UNCHANGED <<job, about, history, performed>> BY DEF BeginAction
<1>9. JobOf(w)' = JobOf(w) /\ ActsOf(w)' = ActsOf(w)
  BY <1>4, <1>8 DEF JobOf, ActsOf, TransOf
<1>10. WellFormedWorker(w)'
  BY <1>1, <1>4, <1>5, <1>6, <1>8, <1>9 DEF WellFormedWorker, InAction, Exists
<1>11. WorkerIsRight(w)'
  BY <1>1, <1>4, <1>5, <1>6, <1>7, <1>8, <1>9
     DEF WorkerIsRight, InAction, Done, IInv, SuccessIsRecorded
<1> QED BY <1>2, <1>3, <1>10, <1>11, WorkerStepKeeps DEF BeginAction

LEMMA LookUpRowKeeps ==
  ASSUME IInv, NEW w \in Worker, LookUpRow(w) PROVE IInv'
<1> DEFINE rows == tja[JobOf(w)][wk[w].act]
<1>1. /\ TypeOK /\ WellFormed /\ wk[w] \in WorkerState
      /\ WellFormedWorker(w) /\ WorkerIsRight(w) /\ wk[w].pc = "lookup"
  BY ActingWorker DEF LookUpRow
<1>2. TypeOK' /\ OtherWorkers(w)
      /\ wk'[w] = CASE Len(rows) = 0 -> [wk[w] EXCEPT !.pc = "create"]
                    [] Len(rows) = 1 -> [wk[w] EXCEPT !.pc = "run", !.row = 1, !.out = rows[1]]
                    [] OTHER -> FailingJob(w)
  BY <1>1, LookUpRowType
<1>3. Monotone /\ Globals' BY DatabaseAndQueueKept DEF LookUpRow
<1>4. JobOf(w) \in Job /\ Exists(JobOf(w)) /\ wk[w].act \in Action
  BY <1>1, ActOfType DEF InAction, WellFormedWorker
<1>5. rows \in Seq(TransitionJobActionStatus) BY <1>1, <1>4 DEF TypeOK
<1>6. UNCHANGED <<job, about, tja, history, performed>> BY DEF LookUpRow
<1>7. WellFormedWorker(w)' /\ WorkerIsRight(w)'
  <2>1. CASE Len(rows) = 0
    <3>1. /\ wk'[w].pc = "create" /\ wk'[w].job = wk[w].job /\ wk'[w].mem = wk[w].mem
          /\ wk'[w].snap = wk[w].snap /\ wk'[w].completed = wk[w].completed
          /\ wk'[w].yielded = wk[w].yielded /\ wk'[w].act = wk[w].act
      BY <1>1, <1>2, <2>1 DEF WorkerState
    <3>2. JobOf(w)' = JobOf(w) /\ ActsOf(w)' = ActsOf(w)
      BY <3>1, <1>6 DEF JobOf, ActsOf, TransOf
    <3>3. WellFormedWorker(w)'
      BY <1>1, <1>4, <1>6, <3>1, <3>2 DEF WellFormedWorker, InAction, Exists
    <3>4. WorkerIsRight(w)' BY <1>1, <1>6, <3>1, <3>2 DEF WorkerIsRight, InAction, Done
    <3> QED BY <3>3, <3>4
  <2>2. CASE Len(rows) = 1
    <3>1. /\ wk'[w].pc = "run" /\ wk'[w].job = wk[w].job /\ wk'[w].mem = wk[w].mem
          /\ wk'[w].snap = wk[w].snap /\ wk'[w].completed = wk[w].completed
          /\ wk'[w].yielded = wk[w].yielded /\ wk'[w].act = wk[w].act
          /\ wk'[w].row = 1 /\ wk'[w].out = rows[1]
      <4>1. wk'[w] = [wk[w] EXCEPT !.pc = "run", !.row = 1, !.out = rows[1]]
        BY <1>2, <2>2
      <4> HIDE DEF rows
      <4> QED BY <1>1, <4>1 DEF WorkerState
    <3>2. JobOf(w)' = JobOf(w) /\ ActsOf(w)' = ActsOf(w)
      BY <3>1, <1>6 DEF JobOf, ActsOf, TransOf
    <3>3. 1 \in DOMAIN rows /\ rows[1] \in TransitionJobActionStatus BY <1>5, <2>2
    <3>4. rows[1] = "FINISHED" => Done(JobOf(w), wk[w].act)
      BY <3>3, <1>4 DEF IInv, RowsAreTrue
    <3>5. WellFormedWorker(w)'
      BY <1>1, <1>4, <1>6, <3>1, <3>2, <3>3 DEF WellFormedWorker, InAction, Exists
    <3>6. WorkerIsRight(w)'
      BY <1>1, <1>6, <3>1, <3>2, <3>4 DEF WorkerIsRight, InAction, Done
    <3> QED BY <3>5, <3>6
  <2>3. CASE Len(rows) # 0 /\ Len(rows) # 1
    <3>1. wk'[w] = FailingJob(w) BY <1>2, <2>3
    <3> QED BY <1>1, <1>6, <3>1, FailingIsRight
  <2> QED BY <2>1, <2>2, <2>3
<1> QED BY <1>2, <1>3, <1>7, WorkerStepKeeps DEF LookUpRow

\* Rows of actions are saved, or new ones appended; what they say is true.
LEMMA ActionSaved ==
  ASSUME IInv, TypeOK', UNCHANGED <<job, about, queue, performed, history>>,
         NEW j \in Job, NEW a \in Action,
         \A k \in Job, b \in Action : k # j \/ b # a => tja'[k][b] = tja[k][b],
         DOMAIN tja[j][a] \subseteq DOMAIN tja'[j][a],
         \A i \in DOMAIN tja'[j][a] : tja'[j][a][i] = "FINISHED" => Done(j, a)
  PROVE  Monotone /\ Globals'
<1>1. \A k \in Job, b \in Action : DOMAIN tja[k][b] \subseteq DOMAIN tja'[k][b]
  OBVIOUS
<1>2. RowsAreTrue' BY DEF IInv, RowsAreTrue, Done
<1> QED BY <1>1, <1>2 DEF IInv, WellFormed, WellFormedRows, RequirementsFirst, ActionsOf,
       HistoryAfterAllActions, SuccessIsRecorded, Done, Exists, Monotone, Globals

LEMMA CreateRowKeeps ==
  ASSUME IInv, NEW w \in Worker, CreateRow(w) PROVE IInv'
<1> DEFINE rows == tja[JobOf(w)][wk[w].act]
<1>1. /\ TypeOK /\ WellFormed /\ wk[w] \in WorkerState
      /\ WellFormedWorker(w) /\ WorkerIsRight(w) /\ wk[w].pc = "create"
  BY ActingWorker DEF CreateRow
<1>2. TypeOK' /\ OtherWorkers(w)
      /\ wk'[w] = [wk[w] EXCEPT !.pc = "run", !.out = "STARTED", !.row = Len(rows) + 1]
  BY <1>1, CreateRowType
<1>3. JobOf(w) \in Job /\ Exists(JobOf(w)) /\ wk[w].act \in Action
  BY <1>1, ActOfType DEF InAction, WellFormedWorker
<1>4. rows \in Seq(TransitionJobActionStatus) BY <1>1, <1>3 DEF TypeOK
<1>5. UNCHANGED <<job, about, queue, history, performed>> BY DEF CreateRow
<1>6. /\ tja'[JobOf(w)][wk[w].act] = Append(rows, "STARTED")
      /\ \A k \in Job, b \in Action :
           k # JobOf(w) \/ b # wk[w].act => tja'[k][b] = tja[k][b]
  BY <1>1, <1>3 DEF CreateRow, TypeOK
<1>7. DOMAIN rows \subseteq DOMAIN Append(rows, "STARTED") BY <1>4
<1>8. \A i \in DOMAIN Append(rows, "STARTED") :
        Append(rows, "STARTED")[i] = "FINISHED" => i \in DOMAIN rows /\ rows[i] = "FINISHED"
  BY <1>4
<1>9. \A i \in DOMAIN rows : rows[i] = "FINISHED" => Done(JobOf(w), wk[w].act)
  BY <1>3 DEF IInv, RowsAreTrue
<1>10. Monotone /\ Globals'
  BY <1>2, <1>3, <1>5, <1>6, <1>7, <1>8, <1>9, ActionSaved
<1>11. /\ wk'[w].pc = "run" /\ wk'[w].job = wk[w].job /\ wk'[w].mem = wk[w].mem
       /\ wk'[w].snap = wk[w].snap /\ wk'[w].completed = wk[w].completed
       /\ wk'[w].yielded = wk[w].yielded /\ wk'[w].act = wk[w].act
       /\ wk'[w].row = Len(rows) + 1 /\ wk'[w].out = "STARTED"
  BY <1>1, <1>2 DEF WorkerState
<1>12. JobOf(w)' = JobOf(w) /\ ActsOf(w)' = ActsOf(w)
  BY <1>11, <1>5 DEF JobOf, ActsOf, TransOf
<1>13. Len(rows) + 1 \in DOMAIN Append(rows, "STARTED") BY <1>4
<1>14. WellFormedWorker(w)'
  BY <1>1, <1>3, <1>5, <1>6, <1>11, <1>12, <1>13
     DEF WellFormedWorker, InAction, Exists, TransitionJobActionStatus
<1>15. WorkerIsRight(w)'
  BY <1>1, <1>5, <1>11, <1>12 DEF WorkerIsRight, InAction, Done
<1> QED BY <1>2, <1>10, <1>14, <1>15, WorkerStepKeeps DEF CreateRow

\* The row of an action is overwritten with a status that is true.
LEMMA RowOverwritten ==
  ASSUME IInv, TypeOK', UNCHANGED <<job, about, queue, performed, history>>,
         NEW j \in Job, NEW a \in Action,
         \A k \in Job, b \in Action : k # j \/ b # a => tja'[k][b] = tja[k][b],
         DOMAIN tja'[j][a] = DOMAIN tja[j][a],
         \A k \in DOMAIN tja[j][a] : \/ tja'[j][a][k] = tja[j][a][k]
                                     \/ tja'[j][a][k] = "FINISHED" => Done(j, a)
  PROVE  Monotone /\ Globals'
<1>1. \A k \in DOMAIN tja[j][a] : tja[j][a][k] = "FINISHED" => Done(j, a)
  BY DEF IInv, RowsAreTrue
<1> QED BY <1>1, ActionSaved

\* An exception out of the transaction of an action: the action has failed.
LEMMA ActionFailedIsRight ==
  ASSUME IInv, NEW w \in Worker, wk[w].pc \in {"run", "commit"},
         wk'[w] = [wk[w] EXCEPT !.pc = "save", !.out = "FAILED"],
         UNCHANGED <<job, about, tja, history, performed>>
  PROVE  WellFormedWorker(w)' /\ WorkerIsRight(w)'
<1>1. wk[w] \in WorkerState /\ WellFormedWorker(w) /\ WorkerIsRight(w)
  BY ActingWorker
<1>2. /\ wk'[w].pc = "save" /\ wk'[w].job = wk[w].job /\ wk'[w].mem = wk[w].mem
      /\ wk'[w].snap = wk[w].snap /\ wk'[w].completed = wk[w].completed
      /\ wk'[w].yielded = wk[w].yielded /\ wk'[w].act = wk[w].act
      /\ wk'[w].row = wk[w].row /\ wk'[w].out = "FAILED"
  BY <1>1 DEF WorkerState
<1>3. JobOf(w)' = JobOf(w) /\ ActsOf(w)' = ActsOf(w)
  BY <1>2 DEF JobOf, ActsOf, TransOf
<1>4. WellFormedWorker(w)' BY <1>1, <1>2, <1>3 DEF WellFormedWorker, InAction, Exists
<1>5. WorkerIsRight(w)' BY <1>1, <1>2, <1>3 DEF WorkerIsRight, InAction, Done
<1> QED BY <1>4, <1>5

LEMMA PerformActionKeeps ==
  ASSUME IInv, NEW w \in Worker, PerformAction(w) PROVE IInv'
<1>1. /\ TypeOK /\ WellFormed /\ wk[w] \in WorkerState
      /\ WellFormedWorker(w) /\ WorkerIsRight(w) /\ wk[w].pc = "run"
  BY ActingWorker DEF PerformAction
<1>. PICK j \in Job : j = JobOf(w) BY <1>1 DEF WellFormedWorker
<1>. PICK a \in Action : a = wk[w].act BY <1>1, ActOfType DEF InAction
<1>2. TypeOK' /\ OtherWorkers(w)
      /\ wk'[w] = [wk[w] EXCEPT !.pc = "save", !.params = wk[w].params \cup {a},
                                !.out = IF a \in Freezing THEN "FROZEN" ELSE "FINISHED"]
  BY <1>1, PerformActionType
<1>3. j \in Job /\ Exists(j) /\ a \in Action /\ a \in ActsOf(w) /\ ActsOf(w) = ActionsOf(j)
  BY <1>1, ActOfType, JobOfWorker DEF InAction, WellFormedWorker
<1>4. UNCHANGED <<job, about, tja, queue, history>> BY DEF PerformAction
<1>5. /\ performed'[j][a] = performed[j][a] + 1
      /\ \A k \in Job, b \in Action : k # j \/ b # a => performed'[k][b] = performed[k][b]
      /\ \A k \in Job, b \in Action : performed[k][b] \in Nat
  BY <1>1, <1>3 DEF PerformAction, TypeOK
<1>6. /\ \A k \in Job, b \in Action : Done(k, b)' <=> Done(k, b) \/ (k = j /\ b = a)
      /\ \A k \in Job : Exists(k)' <=> Exists(k)
  BY <1>4, <1>5 DEF Done, Exists
<1>7. Monotone BY <1>4, <1>6 DEF Monotone
<1>8. Globals'
  <2>1. WellFormedRows' BY <1>3, <1>4, <1>6 DEF IInv, WellFormed, WellFormedRows
  <2>2. (\A i \in DOMAIN queue : Exists(queue[i]))'
    BY <1>4 DEF IInv, WellFormed, Exists
  <2>3. RowsAreTrue' BY <1>4, <1>6 DEF IInv, RowsAreTrue
  <2>4. \A k \in Job : ActionsOf(k)' = ActionsOf(k) BY <1>4 DEF ActionsOf
  <2>5. \A k \in Job : Exists(k) => ActionsOf(k) \subseteq Action
    BY ConfigAssumption DEF ActionsOf, IInv, WellFormed, WellFormedRows
  <2>6. \A b \in RunAfter[a] \cap ActionsOf(j) : Done(j, b)
    BY <1>1, <1>3 DEF WorkerIsRight, InAction
  <2>7. RequirementsFirst'
    BY <1>6, <2>4, <2>5, <2>6 DEF IInv, RequirementsFirst
  <2>8. HistoryAfterAllActions'
    BY <1>4, <1>6, <2>4, <2>5 DEF IInv, HistoryAfterAllActions
  <2>9. SuccessIsRecorded' BY <1>4 DEF IInv, SuccessIsRecorded
  <2> QED BY <2>1, <2>2, <2>3, <2>7, <2>8, <2>9 DEF Globals
<1>9. /\ wk'[w].pc = "save" /\ wk'[w].job = wk[w].job /\ wk'[w].mem = wk[w].mem
      /\ wk'[w].snap = wk[w].snap /\ wk'[w].completed = wk[w].completed
      /\ wk'[w].yielded = wk[w].yielded /\ wk'[w].act = a /\ wk'[w].row = wk[w].row
      /\ wk'[w].out \in {"FINISHED", "FROZEN"}
  BY <1>1, <1>2 DEF WorkerState
<1>10. JobOf(w)' = j /\ ActsOf(w)' = ActsOf(w)
  BY <1>4, <1>9 DEF JobOf, ActsOf, TransOf
<1>11. WellFormedWorker(w)'
  BY <1>1, <1>3, <1>4, <1>6, <1>9, <1>10 DEF WellFormedWorker, InAction
<1>12. \A b \in Action : Done(j, b) => Done(j, b)' BY <1>3, <1>6
<1>13. /\ wk[w].yielded \subseteq Action /\ wk[w].completed \subseteq Action
       /\ ActsOf(w) \subseteq Action
  BY <1>1, JobOfWorker DEF WorkerState
<1>14. /\ \A b \in wk[w].completed : Done(j, b)
       /\ \A b \in wk[w].yielded \ {a} : Done(j, b)
       /\ \A b \in RunAfter[a] \cap ActsOf(w) : Done(j, b)
       /\ wk[w].mem.status = "FINISHED" => history[j] > 0
  BY <1>1 DEF WorkerIsRight, InAction
<1>15. Done(j, a)' BY <1>3, <1>6
<1>16. WorkerIsRight(w)'
  BY <1>4, <1>9, <1>10, <1>12, <1>13, <1>14, <1>15 DEF WorkerIsRight, InAction
<1> QED BY <1>2, <1>7, <1>8, <1>11, <1>16, WorkerStepKeeps DEF PerformAction

LEMMA ActionRaisesKeeps ==
  ASSUME IInv, NEW w \in Worker, ActionRaises(w) PROVE IInv'
<1>1. /\ TypeOK /\ WellFormed /\ wk[w] \in WorkerState
      /\ WellFormedWorker(w) /\ WorkerIsRight(w) /\ wk[w].pc = "run"
  BY ActingWorker DEF ActionRaises
<1>2. TypeOK' /\ OtherWorkers(w) /\ wk'[w] = [wk[w] EXCEPT !.pc = "save", !.out = "FAILED"]
  BY <1>1, ActionRaisesType
<1>3. Monotone /\ Globals' BY DatabaseAndQueueKept DEF ActionRaises
<1>4. UNCHANGED <<job, about, tja, history, performed>> BY DEF ActionRaises
<1>5. WellFormedWorker(w)' /\ WorkerIsRight(w)'
  BY <1>1, <1>2, <1>4, ActionFailedIsRight
<1> QED BY <1>2, <1>3, <1>5, WorkerStepKeeps DEF ActionRaises

LEMMA RescheduleKeeps ==
  ASSUME IInv, NEW w \in Worker, Reschedule(w) PROVE IInv'
<1>1. /\ TypeOK /\ WellFormed /\ wk[w] \in WorkerState
      /\ WellFormedWorker(w) /\ WorkerIsRight(w) /\ wk[w].pc = "run"
  BY ActingWorker DEF Reschedule
<1>2. TypeOK' /\ OtherWorkers(w)
      /\ wk'[w] = [wk[w] EXCEPT !.pc = "commit", !.mem.params = wk[w].params]
  BY <1>1, RescheduleType
<1>3. JobOf(w) \in Job /\ Exists(JobOf(w)) BY <1>1 DEF WellFormedWorker
<1>4. \A i \in DOMAIN queue' : Exists(queue'[i])
  BY <1>1, <1>3 DEF Reschedule, WellFormed, TypeOK
<1>5. Monotone /\ Globals' BY <1>4, DatabaseKept DEF Reschedule
<1>6. UNCHANGED <<job, about, tja, history, performed>> BY DEF Reschedule
<1>7. /\ wk'[w].pc = "commit" /\ wk'[w].job = wk[w].job
      /\ wk'[w].mem.status = wk[w].mem.status
      /\ wk'[w].snap = wk[w].snap /\ wk'[w].completed = wk[w].completed
      /\ wk'[w].yielded = wk[w].yielded /\ wk'[w].act = wk[w].act
      /\ wk'[w].row = wk[w].row /\ wk'[w].out = wk[w].out
  BY <1>1, <1>2 DEF WorkerState, Row
<1>8. JobOf(w)' = JobOf(w) /\ ActsOf(w)' = ActsOf(w)
  BY <1>6, <1>7 DEF JobOf, ActsOf, TransOf
<1>9. WellFormedWorker(w)' BY <1>1, <1>6, <1>7, <1>8 DEF WellFormedWorker, InAction, Exists
<1>10. WorkerIsRight(w)' BY <1>1, <1>6, <1>7, <1>8 DEF WorkerIsRight, InAction, Done
<1> QED BY <1>2, <1>5, <1>9, <1>10, WorkerStepKeeps DEF Reschedule

LEMMA CommitRescheduleKeeps ==
  ASSUME IInv, NEW w \in Worker, CommitReschedule(w) PROVE IInv'
<1>1. /\ TypeOK /\ WellFormed /\ wk[w] \in WorkerState
      /\ WellFormedWorker(w) /\ WorkerIsRight(w) /\ wk[w].pc = "commit"
  BY ActingWorker DEF CommitReschedule
<1>2. TypeOK' /\ OtherWorkers(w) /\ wk'[w] = [wk[w] EXCEPT !.pc = "leave"]
  BY <1>1, CommitRescheduleType
<1>3. JobOf(w) \in Job /\ Exists(JobOf(w)) /\ wk[w].mem.status # "ABSENT"
  BY <1>1 DEF WellFormedWorker
<1>4. wk[w].mem \in Row /\ (wk[w].mem.status = "FINISHED" => history[JobOf(w)] > 0)
  BY <1>1 DEF WorkerState, WorkerIsRight
<1>5. Monotone /\ Globals' BY <1>3, <1>4, RowSaved DEF CommitReschedule
<1>6. UNCHANGED <<about, tja, history, performed>> BY DEF CommitReschedule
<1>7. /\ wk'[w].pc = "leave" /\ wk'[w].job = wk[w].job /\ wk'[w].mem = wk[w].mem
      /\ wk'[w].snap = wk[w].snap /\ wk'[w].completed = wk[w].completed
      /\ wk'[w].yielded = wk[w].yielded /\ wk'[w].act = wk[w].act
      /\ wk'[w].row = wk[w].row /\ wk'[w].out = wk[w].out
  BY <1>1, <1>2 DEF WorkerState
<1>8. JobOf(w)' = JobOf(w) /\ ActsOf(w)' = ActsOf(w) /\ Exists(JobOf(w))'
  BY <1>3, <1>5, <1>6, <1>7 DEF JobOf, ActsOf, TransOf, Monotone
<1>9. WellFormedWorker(w)' BY <1>1, <1>6, <1>7, <1>8 DEF WellFormedWorker, InAction
<1>10. WorkerIsRight(w)' BY <1>1, <1>6, <1>7, <1>8 DEF WorkerIsRight, InAction, Done
<1> QED BY <1>2, <1>5, <1>9, <1>10, WorkerStepKeeps DEF CommitReschedule

LEMMA SaveRescheduledKeeps ==
  ASSUME IInv, NEW w \in Worker, SaveRescheduled(w) PROVE IInv'
<1>1. /\ TypeOK /\ WellFormed /\ wk[w] \in WorkerState
      /\ WellFormedWorker(w) /\ WorkerIsRight(w) /\ wk[w].pc = "leave"
  BY ActingWorker DEF SaveRescheduled
<1>2. TypeOK' /\ OtherWorkers(w) /\ wk'[w] = IdleWorker
  BY <1>1, SaveRescheduledType
<1>3. JobOf(w) \in Job /\ wk[w].act \in Action BY <1>1, ActOfType DEF InAction
<1>4. UNCHANGED <<job, about, queue, history, performed>> BY DEF SaveRescheduled
<1>5. /\ DOMAIN tja'[JobOf(w)][wk[w].act] = DOMAIN tja[JobOf(w)][wk[w].act]
      /\ \A i \in DOMAIN tja[JobOf(w)][wk[w].act] :
           tja'[JobOf(w)][wk[w].act][i] \in {tja[JobOf(w)][wk[w].act][i], wk[w].out}
      /\ \A k \in Job, b \in Action :
           k # JobOf(w) \/ b # wk[w].act => tja'[k][b] = tja[k][b]
  BY <1>1, <1>3 DEF SaveRescheduled, TypeOK
<1>6. wk[w].out = "FINISHED" => Done(JobOf(w), wk[w].act)
  BY <1>1 DEF WorkerIsRight
<1>7. Monotone /\ Globals' BY <1>2, <1>3, <1>4, <1>5, <1>6, RowOverwritten
<1> QED BY <1>2, <1>7, IdleIsRight, WorkerStepKeeps DEF SaveRescheduled

LEMMA SaveActionKeeps ==
  ASSUME IInv, NEW w \in Worker, SaveAction(w) PROVE IInv'
<1>1. /\ TypeOK /\ WellFormed /\ wk[w] \in WorkerState
      /\ WellFormedWorker(w) /\ WorkerIsRight(w) /\ wk[w].pc = "save"
  BY ActingWorker DEF SaveAction
<1>2. TypeOK' /\ OtherWorkers(w)
      /\ wk'[w] = CASE wk[w].out = "FINISHED" ->
                         [wk[w] EXCEPT !.pc = "loop", !.completed = wk[w].completed \cup {wk[w].act},
                                       !.act = None, !.row = 0, !.out = "NONE"]
                    [] OTHER -> [wk[w] EXCEPT !.pc = "dump"]
  BY <1>1, SaveActionType
<1>3. JobOf(w) \in Job /\ Exists(JobOf(w)) /\ wk[w].act \in Action
  BY <1>1, ActOfType DEF InAction, WellFormedWorker
<1>4. UNCHANGED <<job, about, queue, history, performed>> BY DEF SaveAction
<1>5. /\ DOMAIN tja'[JobOf(w)][wk[w].act] = DOMAIN tja[JobOf(w)][wk[w].act]
      /\ \A i \in DOMAIN tja[JobOf(w)][wk[w].act] :
           tja'[JobOf(w)][wk[w].act][i] \in {tja[JobOf(w)][wk[w].act][i], ActionStatus(wk[w].out)}
      /\ \A k \in Job, b \in Action :
           k # JobOf(w) \/ b # wk[w].act => tja'[k][b] = tja[k][b]
  BY <1>1, <1>3 DEF SaveAction, TypeOK
<1>6. ActionStatus(wk[w].out) = "FINISHED" => Done(JobOf(w), wk[w].act)
  BY <1>1 DEF WorkerIsRight, ActionStatus
<1>7. Monotone /\ Globals' BY <1>2, <1>3, <1>4, <1>5, <1>6, RowOverwritten
<1>8. WellFormedWorker(w)' /\ WorkerIsRight(w)'
  <2>1. CASE wk[w].out = "FINISHED"
    <3>1. wk'[w] = [wk[w] EXCEPT !.pc = "loop", !.completed = wk[w].completed \cup {wk[w].act},
                                 !.act = None, !.row = 0, !.out = "NONE"]
      BY <1>2, <2>1
    <3>2. /\ wk'[w].pc = "loop" /\ wk'[w].job = wk[w].job /\ wk'[w].mem = wk[w].mem
          /\ wk'[w].snap = wk[w].snap /\ wk'[w].yielded = wk[w].yielded
          /\ wk'[w].completed = wk[w].completed \cup {wk[w].act}
      BY <1>1, <3>1 DEF WorkerState
    <3>3. Done(JobOf(w), wk[w].act) BY <1>1, <2>1 DEF WorkerIsRight
    <3>4. /\ \A b \in wk[w].completed : Done(JobOf(w), b)
          /\ \A b \in wk[w].yielded : Done(JobOf(w), b)
      BY <1>1, <3>3 DEF WorkerIsRight, InAction
    <3>5. WellFormedWorker(w)'
      BY <1>1, <1>4, <3>2 DEF WellFormedWorker, InAction, JobOf, Exists
    <3>6. WorkerIsRight(w)'
      BY <1>1, <1>4, <3>2, <3>3, <3>4 DEF WorkerIsRight, InAction, JobOf, Done
    <3> QED BY <3>5, <3>6
  <2>2. CASE wk[w].out # "FINISHED"
    <3>1. wk'[w] = [wk[w] EXCEPT !.pc = "dump"] BY <1>2, <2>2
    <3>2. /\ wk'[w].pc = "dump" /\ wk'[w].job = wk[w].job /\ wk'[w].mem = wk[w].mem
          /\ wk'[w].out = wk[w].out
      BY <1>1, <3>1 DEF WorkerState
    <3>3. WellFormedWorker(w)'
      BY <1>1, <1>4, <3>2 DEF WellFormedWorker, InAction, JobOf, Exists
    <3>4. WorkerIsRight(w)'
      BY <1>1, <1>4, <2>2, <3>2 DEF WorkerIsRight, InAction, JobOf
    <3> QED BY <3>3, <3>4
  <2> QED BY <2>1, <2>2
<1> QED BY <1>2, <1>7, <1>8, WorkerStepKeeps DEF SaveAction

LEMMA RaiseCycleErrorKeeps ==
  ASSUME IInv, NEW w \in Worker, RaiseCycleError(w) PROVE IInv'
<1>1. TypeOK' /\ OtherWorkers(w) /\ wk'[w] = FailingJob(w)
  BY RaiseCycleErrorType, ActingWorker
<1>2. Monotone /\ Globals' BY DatabaseAndQueueKept DEF RaiseCycleError
<1> QED BY <1>1, <1>2, FailingIsRight, WorkerStepKeeps DEF RaiseCycleError

LEMMA LeaveLoopKeeps ==
  ASSUME IInv, NEW w \in Worker, LeaveLoop(w) PROVE IInv'
<1>1. /\ TypeOK /\ WellFormed /\ wk[w] \in WorkerState
      /\ WellFormedWorker(w) /\ WorkerIsRight(w)
      /\ wk[w].pc = "loop" /\ wk[w].yielded = ActsOf(w)
  BY ActingWorker DEF LeaveLoop
<1>2. TypeOK' /\ OtherWorkers(w) /\ wk'[w] = [wk[w] EXCEPT !.pc = "record"]
  BY <1>1, LeaveLoopType
<1>3. Monotone /\ Globals' BY DatabaseAndQueueKept DEF LeaveLoop
<1>4. UNCHANGED <<job, about, history, performed>> BY DEF LeaveLoop
<1>5. /\ wk'[w].pc = "record" /\ wk'[w].job = wk[w].job /\ wk'[w].mem = wk[w].mem
      /\ wk'[w].snap = wk[w].snap
  BY <1>1, <1>2 DEF WorkerState
<1>6. JobOf(w)' = JobOf(w) /\ ActsOf(w)' = ActsOf(w)
  BY <1>4, <1>5 DEF JobOf, ActsOf, TransOf
<1>7. \A a \in ActsOf(w) : Done(JobOf(w), a) BY <1>1 DEF WorkerIsRight
<1>8. WellFormedWorker(w)' BY <1>1, <1>4, <1>5, <1>6 DEF WellFormedWorker, InAction, Exists
<1>9. WorkerIsRight(w)' BY <1>1, <1>4, <1>5, <1>6, <1>7 DEF WorkerIsRight, InAction, Done
<1> QED BY <1>2, <1>3, <1>8, <1>9, WorkerStepKeeps DEF LeaveLoop

LEMMA RecordHistoryKeeps ==
  ASSUME IInv, NEW w \in Worker, RecordHistory(w) PROVE IInv'
<1>1. /\ TypeOK /\ WellFormed /\ wk[w] \in WorkerState
      /\ WellFormedWorker(w) /\ WorkerIsRight(w) /\ wk[w].pc = "record"
  BY ActingWorker DEF RecordHistory
<1>. PICK j \in Job : j = JobOf(w) BY <1>1 DEF WellFormedWorker
<1>2. TypeOK' /\ OtherWorkers(w) /\ wk'[w] = [wk[w] EXCEPT !.pc = "store"]
  BY <1>1, RecordHistoryType
<1>3. Exists(j) /\ \A a \in ActionsOf(j) : Done(j, a)
  BY <1>1, JobOfWorker DEF WellFormedWorker, WorkerIsRight
<1>4. UNCHANGED <<job, about, tja, queue, performed>> BY DEF RecordHistory
<1>5. history'[j] > 0 /\ \A k \in Job : k # j => history'[k] = history[k]
  BY <1>1 DEF RecordHistory, TypeOK
<1>6. Monotone BY <1>4, <1>5 DEF Monotone, Exists, Done
<1>7. Globals'
  BY <1>3, <1>4, <1>5 DEF Globals, IInv, WellFormed, WellFormedRows, RowsAreTrue,
     RequirementsFirst, ActionsOf, HistoryAfterAllActions, SuccessIsRecorded, Done, Exists
<1>8. /\ wk'[w].pc = "store" /\ wk'[w].job = wk[w].job /\ wk'[w].mem = wk[w].mem
      /\ wk'[w].snap = wk[w].snap
  BY <1>1, <1>2 DEF WorkerState
<1>9. JobOf(w)' = j BY <1>8 DEF JobOf
<1>10. WellFormedWorker(w)' BY <1>1, <1>4, <1>8, <1>9 DEF WellFormedWorker, InAction, Exists
<1>11. WorkerIsRight(w)' BY <1>5, <1>8, <1>9 DEF WorkerIsRight, InAction
<1> QED BY <1>2, <1>6, <1>7, <1>10, <1>11, WorkerStepKeeps DEF RecordHistory

LEMMA StoreObjectKeeps ==
  ASSUME IInv, NEW w \in Worker, StoreObject(w) PROVE IInv'
<1>1. /\ TypeOK /\ WellFormed /\ wk[w] \in WorkerState
      /\ WellFormedWorker(w) /\ WorkerIsRight(w) /\ wk[w].pc = "store"
  BY ActingWorker DEF StoreObject
<1>2. TypeOK' /\ OtherWorkers(w)
      /\ wk'[w] = [wk[w] EXCEPT !.pc = "dump", !.out = "FINISHED"]
  BY <1>1, StoreObjectType
<1>3. Monotone /\ Globals' BY DatabaseAndQueueKept DEF StoreObject
<1>4. UNCHANGED <<job, about, history, performed>> BY DEF StoreObject
<1>5. /\ wk'[w].pc = "dump" /\ wk'[w].job = wk[w].job /\ wk'[w].mem = wk[w].mem
      /\ wk'[w].out = "FINISHED"
  BY <1>1, <1>2 DEF WorkerState
<1>6. WellFormedWorker(w)' BY <1>1, <1>4, <1>5 DEF WellFormedWorker, InAction, JobOf, Exists
<1>7. WorkerIsRight(w)' BY <1>1, <1>4, <1>5 DEF WorkerIsRight, InAction, JobOf
<1> QED BY <1>2, <1>3, <1>6, <1>7, WorkerStepKeeps DEF StoreObject

LEMMA DumpParamsKeeps ==
  ASSUME IInv, NEW w \in Worker, DumpParams(w) PROVE IInv'
<1> DEFINE row == [wk[w].mem EXCEPT !.params = wk[w].params]
<1>1. /\ TypeOK /\ WellFormed /\ wk[w] \in WorkerState
      /\ WellFormedWorker(w) /\ WorkerIsRight(w) /\ wk[w].pc = "dump"
  BY ActingWorker DEF DumpParams
<1>2. TypeOK' /\ OtherWorkers(w)
      /\ wk'[w] = [wk[w] EXCEPT !.pc = "mark", !.mem.params = wk[w].params]
  BY <1>1, DumpParamsType
<1>3. row \in Row /\ row.status = wk[w].mem.status BY <1>1 DEF WorkerState, Row
<1>4. /\ JobOf(w) \in Job /\ Exists(JobOf(w)) /\ wk[w].mem.status # "ABSENT"
      /\ wk[w].mem.status = "FINISHED" => history[JobOf(w)] > 0
  BY <1>1 DEF WellFormedWorker, WorkerIsRight
<1>5. Monotone /\ Globals' BY <1>3, <1>4, RowSaved DEF DumpParams
<1>6. UNCHANGED <<about, history>> BY DEF DumpParams
<1>7. /\ wk'[w].pc = "mark" /\ wk'[w].job = wk[w].job
      /\ wk'[w].mem.status = wk[w].mem.status /\ wk'[w].out = wk[w].out
  BY <1>1, <1>2 DEF WorkerState, Row
<1>8. JobOf(w)' = JobOf(w) /\ Exists(JobOf(w))' BY <1>4, <1>5, <1>7 DEF JobOf, Monotone
<1>9. WellFormedWorker(w)' BY <1>1, <1>4, <1>7, <1>8 DEF WellFormedWorker, InAction
<1>10. WorkerIsRight(w)' BY <1>1, <1>6, <1>7, <1>8 DEF WorkerIsRight, InAction
<1> QED BY <1>2, <1>5, <1>9, <1>10, WorkerStepKeeps DEF DumpParams

LEMMA MarkJobKeeps ==
  ASSUME IInv, NEW w \in Worker, MarkJob(w) PROVE IInv'
<1> DEFINE row == [wk[w].mem EXCEPT !.status = wk[w].out]
<1>1. /\ TypeOK /\ WellFormed /\ wk[w] \in WorkerState
      /\ WellFormedWorker(w) /\ WorkerIsRight(w) /\ wk[w].pc = "mark"
  BY ActingWorker DEF MarkJob
<1>2. TypeOK' /\ OtherWorkers(w) /\ wk'[w] = IdleWorker BY <1>1, MarkJobType
<1>3. /\ wk[w].out \in {"FINISHED", "FAILED", "FROZEN"}
      /\ wk[w].out = "FINISHED" => history[JobOf(w)] > 0
      /\ JobOf(w) \in Job /\ Exists(JobOf(w))
  BY <1>1 DEF WellFormedWorker, WorkerIsRight
<1>4. row \in Row /\ row.status = wk[w].out
  BY <1>1, <1>3 DEF WorkerState, Row, JobStatus
<1>5. Monotone /\ Globals' BY <1>3, <1>4, RowSaved DEF MarkJob
<1> QED BY <1>2, <1>5, IdleIsRight, WorkerStepKeeps DEF MarkJob

LEMMA RaiseExceptionKeeps ==
  ASSUME IInv, NEW w \in Worker, RaiseException(w) PROVE IInv'
<1>1. TypeOK /\ wk[w].pc # "idle" BY ActingWorker DEF RaiseException
<1>2. TypeOK' /\ OtherWorkers(w)
      /\ wk'[w] = IF wk[w].pc = "commit"
                  THEN [wk[w] EXCEPT !.pc = "save", !.out = "FAILED"]
                  ELSE FailingJob(w)
  BY <1>1, RaiseExceptionType
<1>3. UNCHANGED <<job, about, tja, queue, req, performed, history>> BY DEF RaiseException
<1>4. Monotone /\ Globals' BY <1>3, DatabaseAndQueueKept
<1>5. WellFormedWorker(w)' /\ WorkerIsRight(w)'
  BY <1>1, <1>2, <1>3, ActionFailedIsRight, FailingIsRight
<1> QED BY <1>2, <1>3, <1>4, <1>5, WorkerStepKeeps

LEMMA CrashWorkerKeeps ==
  ASSUME IInv, NEW w \in Worker, CrashWorker(w) PROVE IInv'
<1>1. TypeOK' /\ OtherWorkers(w) /\ wk'[w] = IdleWorker BY CrashWorkerType, ActingWorker
<1>2. Monotone /\ Globals' BY DatabaseAndQueueKept DEF CrashWorker
<1> QED BY <1>1, <1>2, IdleIsRight, WorkerStepKeeps DEF CrashWorker

LEMMA WorkerKeepsInv ==
  ASSUME IInv, NEW w \in Worker, WorkerStep(w) \/ RaiseException(w) \/ CrashWorker(w)
  PROVE  IInv'
BY FetchJobKeeps, StartJobKeeps, CheckObjectKeeps, ReadActionsKeeps, StopKilledKeeps,
   SkipActionKeeps, BeginActionKeeps, LookUpRowKeeps, CreateRowKeeps, PerformActionKeeps,
   ActionRaisesKeeps, RescheduleKeeps, CommitRescheduleKeeps, SaveRescheduledKeeps,
   SaveActionKeeps, RaiseCycleErrorKeeps, LeaveLoopKeeps, RecordHistoryKeeps,
   StoreObjectKeeps, DumpParamsKeeps, MarkJobKeeps, RaiseExceptionKeeps, CrashWorkerKeeps
   DEF WorkerStep

-----------------------------------------------------------------------------
(* The theorems *)

LEMMA InitiallyIInv == Init => IInv
<1> SUFFICES ASSUME Init PROVE IInv OBVIOUS
<1>1. TypeOK
  <2>1. NoRow \in Row BY DEF NoRow, Row
  <2>2. job \in [Job -> Row] BY <2>1 DEF Init
  <2>3. about \in [Job -> [obj : Object \cup {None}, trans : Transition \cup {None}]]
    BY DEF Init
  <2>4. tja \in [Job -> [Action -> Seq(TransitionJobActionStatus)]] BY DEF Init
  <2>5. obj \in [Object -> Status] /\ queue \in Seq(Job) BY DEF Init
  <2>6. req \in [Request -> RequestState] BY NewRequestType DEF Init
  <2>7. wk \in [Worker -> WorkerState] BY IdleWorkerType DEF Init
  <2>8. /\ performed \in [Job -> [Action -> Nat]] /\ history \in [Job -> Nat]
        /\ reschedules \in Nat /\ crashes \in Nat
    BY DEF Init
  <2> QED BY <2>2, <2>3, <2>4, <2>5, <2>6, <2>7, <2>8 DEF TypeOK
<1>2. /\ \A j \in Job : /\ ~Exists(j) /\ history[j] = 0 /\ job[j].status = "ABSENT"
                        /\ about[j].trans = None
      /\ \A j \in Job, a \in Action : ~Done(j, a) /\ tja[j][a] = <<>>
      /\ \A r \in Request : req[r].pc = "new"
      /\ \A w \in Worker : wk[w].pc = "idle"
  BY DEF Init, Exists, Done, NoRow, NewRequest, IdleWorker
<1>3. WellFormedRows BY <1>2 DEF WellFormedRows
<1>4. \A r \in Request : WellFormedRequest(r) BY <1>2 DEF WellFormedRequest
<1>5. \A w \in Worker : WellFormedWorker(w) /\ WorkerIsRight(w)
  BY <1>2 DEF WellFormedWorker, WorkerIsRight, InAction
<1>6. \A i \in DOMAIN queue : Exists(queue[i]) BY DEF Init
<1>7. RowsAreTrue BY <1>2 DEF RowsAreTrue
<1>8. RequirementsFirst /\ HistoryAfterAllActions /\ SuccessIsRecorded
  BY <1>2 DEF RequirementsFirst, HistoryAfterAllActions, SuccessIsRecorded
<1> QED BY <1>1, <1>3, <1>4, <1>5, <1>6, <1>7, <1>8 DEF IInv, WellFormed

LEMMA StutteringKeeps == IInv /\ UNCHANGED vars => IInv'
<1> SUFFICES ASSUME IInv, UNCHANGED vars PROVE IInv' OBVIOUS
<1> USE DEF vars
<1>1. TypeOK' BY DEF IInv, TypeOK
<1>2. Monotone /\ Globals' BY DatabaseAndQueueKept
<1>3. \A w \in Worker : WellFormedWorker(w)' /\ WorkerIsRight(w)' BY <1>2, OtherWorkerKept
<1>4. \A r \in Request : WellFormedRequest(r)' BY <1>2, OtherRequestKept
<1> QED BY <1>1, <1>2, <1>3, <1>4 DEF IInv, WellFormed, Globals

\* The inductive invariant holds in every state a job system can reach: however
\* requests, workers, crashes and exceptions interleave.
THEOREM Invariance == Spec => []IInv
<1>1. Init => IInv BY InitiallyIInv
<1>2. IInv /\ [Next]_vars => IInv'
  BY RequestKeepsInv, WorkerKeepsInv, StutteringKeeps DEF Next
<1> QED BY <1>1, <1>2, PTL DEF Spec

\* Rows, requests and workers keep their types, for any number of them.
THEOREM TypeCorrect == Spec => []TypeOK
<1>1. IInv => TypeOK BY DEF IInv
<1> QED BY <1>1, Invariance, PTL

\* transaction.commit before delay: a worker never pops the id of a job that is
\* not in the database, and never works on one.
THEOREM QueuedJobsAreCommittedAlways == Spec => []QueuedJobsAreCommitted
<1>1. IInv => QueuedJobsAreCommitted
  BY DEF IInv, WellFormed, WellFormedWorker, QueuedJobsAreCommitted
<1> QED BY <1>1, Invariance, PTL

\* _sort_graph_topologically, the rows of the actions and _check_previous_actions
\* together: no action of a job is ever carried out before those it runs after.
THEOREM RequirementsFirstAlways == Spec => []RequirementsFirst
<1>1. IInv => RequirementsFirst BY DEF IInv
<1> QED BY <1>1, Invariance, PTL

\* _post_transition_instance_processing: a history entry is only written for a
\* job all of whose actions were carried out, by whichever workers.
THEOREM HistoryAfterAllActionsAlways == Spec => []HistoryAfterAllActions
<1>1. IInv => HistoryAfterAllActions BY DEF IInv
<1> QED BY <1>1, Invariance, PTL

\* Job.success and the whole-row saves of stale rows: no job is ever shown as
\* finished unless it has left its history entry.
THEOREM SuccessIsRecordedAlways == Spec => []SuccessIsRecorded
<1>1. IInv => SuccessIsRecorded BY DEF IInv
<1> QED BY <1>1, Invariance, PTL

\* Only run_field_transition and a worker that has written the history of its job
\* change the status of an object; the worker does after all actions.
THEOREM StoresAreRecordedAlways == Spec => StoresAreRecorded
<1>1. ASSUME IInv, NEW o \in Object, obj'[o] # obj[o], [Next]_vars
      PROVE  \/ \E r \in Request : req[r].pc = "sync" /\ o \in req[r].todo
             \/ \E j \in Job : /\ about[j].obj = o /\ history[j] > 0
                               /\ \A a \in ActionsOf(j) : Done(j, a)
  <2>1. ASSUME NEW r \in Request, RunSynchronously(r)
        PROVE  req[r].pc = "sync" /\ o \in req[r].todo
    BY <1>1, <2>1 DEF RunSynchronously
  <2>2. ASSUME NEW w \in Worker, StoreObject(w)
        PROVE  \E j \in Job : /\ about[j].obj = o /\ history[j] > 0
                              /\ \A a \in ActionsOf(j) : Done(j, a)
    <3>1. TypeOK /\ WorkerIsRight(w) /\ wk[w].pc = "store"
      BY <1>1, <2>2, ActingWorker DEF StoreObject
    <3>2. JobOf(w) \in Job /\ Exists(JobOf(w)) /\ history[JobOf(w)] > 0
      BY <1>1, <3>1, JobOfWorker DEF WorkerIsRight
    <3>3. about[JobOf(w)].obj = o
      BY <1>1, <2>2, <3>1 DEF StoreObject, TypeOK, ObjOf
    <3> QED BY <1>1, <3>2, <3>3 DEF IInv, HistoryAfterAllActions
  <2>3. \/ \E r \in Request : RunSynchronously(r)
        \/ \E w \in Worker : StoreObject(w)
    <3>1. CASE UNCHANGED vars BY <1>1, <3>1 DEF vars
    <3>2. CASE \E r \in Request : RequestStep(r) \/ AbandonRequest(r)
      BY <1>1, <3>2 DEF RequestStep, AbandonRequest, FetchObjects, CheckInstances,
         RejectRequest, CreateJob, EnqueueJob, FailSynchronously, FetchJobToKill,
         KillJob, MarkAsDone, Unfreeze
    <3>3. CASE \E w \in Worker : WorkerStep(w) \/ RaiseException(w) \/ CrashWorker(w)
      BY <1>1, <3>3 DEF WorkerStep, RaiseException, CrashWorker, FetchJob, StartJob,
         CheckObject, ReadActions, StopKilled, SkipAction, BeginAction, LookUpRow,
         CreateRow, PerformAction, ActionRaises, Reschedule, CommitReschedule,
         SaveRescheduled, SaveAction, RaiseCycleError, LeaveLoop, RecordHistory,
         DumpParams, MarkJob
    <3> QED BY <1>1, <3>1, <3>2, <3>3 DEF Next
  <2> QED BY <2>1, <2>2, <2>3
<1>2. IInv /\ [Next]_vars => StoreIsRecorded BY <1>1 DEF StoreIsRecorded
<1> QED BY <1>2, Invariance, PTL DEF Spec, StoresAreRecorded

-----------------------------------------------------------------------------
(* TransitionJobs implements TransitionRun *)

\* What does not touch job rows, their actions and their history is invisible.
LEMMA InvisibleStep ==
  ASSUME UNCHANGED <<job, about, performed, history>>
  PROVE  UNCHANGED Promise!vars
BY DEF Promise!vars

\* A row that is saved finishes or reopens its job.
LEMMA RowStep ==
  ASSUME IInv, IInv', NEW j \in Job, NEW row, job' = [job EXCEPT ![j] = row],
         UNCHANGED <<about, performed, history>>
  PROVE  Promise!Next
<1> DEFINE f == {k \in Job : job[k].status = "FINISHED"}
<1>1. job'[j] = row /\ \A k \in Job : k # j => job'[k] = job[k]
  BY DEF IInv, TypeOK
<1>2. CASE row.status = "FINISHED"
  <2>1. history[j] > 0 BY <1>1, <1>2 DEF IInv, SuccessIsRecorded
  <2>2. f' = f \cup {j} BY <1>1, <1>2
  <2>3. Promise!Finish(j) BY <2>1, <2>2 DEF Promise!Finish
  <2> QED BY <2>3 DEF Promise!Next
<1>3. CASE row.status # "FINISHED"
  <2>1. f' = f \ {j} BY <1>1, <1>3
  <2>2. Promise!Reopen(j) BY <2>1 DEF Promise!Reopen
  <2> QED BY <2>2 DEF Promise!Next
<1> QED BY <1>2, <1>3

LEMMA CreateStep ==
  ASSUME IInv, NEW r \in Request, CreateJob(r) PROVE Promise!Next
<1>1. PICK o \in req[r].todo, j \in Job :
        /\ ~Exists(j)
        /\ job' = [job EXCEPT ![j] = [status |-> "QUEUED", params |-> {}]]
        /\ about' = [about EXCEPT ![j] = [obj |-> o, trans |-> req[r].trans]]
  BY DEF CreateJob
<1>2. req[r].trans \in Transition
  BY DEF CreateJob, IInv, WellFormed, WellFormedRequest
<1>. PICK t \in Transition : t = req[r].trans BY <1>2
<1>3. about[j].trans = None BY <1>1 DEF IInv, WellFormed, WellFormedRows
<1>4. [k \in Job |-> about[k].trans]' = [[k \in Job |-> about[k].trans] EXCEPT ![j] = t]
  BY <1>1 DEF IInv, TypeOK
<1>5. {k \in Job : job[k].status = "FINISHED"}' = {k \in Job : job[k].status = "FINISHED"}
  BY <1>1 DEF IInv, TypeOK, Exists
<1>6. UNCHANGED <<performed, history>> BY DEF CreateJob
<1>7. Promise!Create(j, t) BY <1>3, <1>4, <1>5, <1>6 DEF Promise!Create
<1> QED BY <1>7 DEF Promise!Next

LEMMA PerformStep ==
  ASSUME IInv, NEW w \in Worker, PerformAction(w) PROVE Promise!Next
<1> DEFINE done == [k \in Job |-> {b \in Action : performed[k][b] > 0}]
<1>1. /\ TypeOK /\ WellFormed /\ WellFormedWorker(w) /\ WorkerIsRight(w) /\ wk[w].pc = "run"
  BY ActingWorker DEF PerformAction
<1>. PICK j \in Job : j = JobOf(w) BY <1>1 DEF WellFormedWorker
<1>. PICK a \in Action : a = wk[w].act BY <1>1, ActOfType DEF InAction
<1>2. a \in ActsOf(w) /\ ActsOf(w) = Actions[about[j].trans] /\ about[j].trans \in Transition
  BY <1>1, JobOfWorker DEF WellFormedWorker, InAction, ActsOf, TransOf
<1>3. about[j].trans # None BY <1>2, ConfigAssumption
<1>4. RunAfter[a] \cap Actions[about[j].trans] \subseteq done[j]
  <2>1. Actions[about[j].trans] \subseteq Action BY <1>2, ConfigAssumption
  <2> QED BY <1>1, <1>2, <2>1 DEF WorkerIsRight, InAction, Done
<1>5. /\ performed'[j][a] = performed[j][a] + 1
      /\ \A k \in Job, b \in Action : k # j \/ b # a => performed'[k][b] = performed[k][b]
      /\ \A k \in Job, b \in Action : performed[k][b] \in Nat
  BY <1>1 DEF PerformAction, TypeOK
<1>6. done' = [done EXCEPT ![j] = done[j] \cup {a}]
  <2>1. \A k \in Job : k # j => {b \in Action : performed'[k][b] > 0}
                                = {b \in Action : performed[k][b] > 0}
    BY <1>5
  <2>2. {b \in Action : performed'[j][b] > 0}
        = {b \in Action : performed[j][b] > 0} \cup {a}
    BY <1>5
  <2> QED BY <2>1, <2>2
<1>7. UNCHANGED <<job, about, history>> BY DEF PerformAction
<1>8. Promise!Carry(j, a) BY <1>2, <1>3, <1>4, <1>6, <1>7 DEF Promise!Carry
<1> QED BY <1>8 DEF Promise!Next

LEMMA RecordStep ==
  ASSUME IInv, NEW w \in Worker, RecordHistory(w) PROVE Promise!Next
<1>1. /\ TypeOK /\ WellFormedWorker(w) /\ WorkerIsRight(w) /\ wk[w].pc = "record"
  BY ActingWorker DEF RecordHistory
<1>. PICK j \in Job : j = JobOf(w) BY <1>1 DEF WellFormedWorker
<1>2. ActsOf(w) = Actions[about[j].trans] /\ about[j].trans \in Transition
  BY <1>1, JobOfWorker DEF ActsOf, TransOf
<1>3. about[j].trans # None BY <1>2, ConfigAssumption
<1>4. Actions[about[j].trans] \subseteq {b \in Action : performed[j][b] > 0}
  BY <1>1, <1>2, ConfigAssumption DEF WorkerIsRight, Done
<1>5. {k \in Job : history'[k] > 0} = {k \in Job : history[k] > 0} \cup {j}
  BY <1>1 DEF RecordHistory, TypeOK
<1>6. UNCHANGED <<job, about, performed>> BY DEF RecordHistory
<1>7. Promise!Record(j) BY <1>3, <1>4, <1>5, <1>6 DEF Promise!Record
<1> QED BY <1>7 DEF Promise!Next

LEMMA RequestRefines ==
  ASSUME IInv, IInv', NEW r \in Request, RequestStep(r) \/ AbandonRequest(r)
  PROVE  [Promise!Next]_(Promise!vars)
<1>1. CASE CreateJob(r) BY <1>1, CreateStep
<1>2. CASE KillJob(r)
  <2>1. req[r].job \in Job BY <1>2 DEF KillJob, IInv, WellFormed, WellFormedRequest
  <2> QED BY <1>2, <2>1, RowStep DEF KillJob
<1>3. CASE ~CreateJob(r) /\ ~KillJob(r)
  <2>1. UNCHANGED <<job, about, performed, history>>
    BY <1>3 DEF RequestStep, AbandonRequest, FetchObjects, CheckInstances, RejectRequest,
       EnqueueJob, RunSynchronously, FailSynchronously, FetchJobToKill, MarkAsDone, Unfreeze
  <2> QED BY <2>1, InvisibleStep
<1> QED BY <1>1, <1>2, <1>3

LEMMA WorkerRefines ==
  ASSUME IInv, IInv', NEW w \in Worker, WorkerStep(w) \/ RaiseException(w) \/ CrashWorker(w)
  PROVE  [Promise!Next]_(Promise!vars)
<1> DEFINE SavesRow == StartJob(w) \/ CommitReschedule(w) \/ DumpParams(w) \/ MarkJob(w)
<1>1. CASE PerformAction(w) BY <1>1, PerformStep
<1>2. CASE RecordHistory(w) BY <1>2, RecordStep
<1>3. CASE SavesRow
  <2>1. wk[w].pc # "idle" BY <1>3 DEF StartJob, CommitReschedule, DumpParams, MarkJob
  <2>2. JobOf(w) \in Job BY <2>1, JobOfWorker
  <2> QED BY <1>3, <2>2, RowStep DEF StartJob, CommitReschedule, DumpParams, MarkJob
<1>4. CASE ~PerformAction(w) /\ ~RecordHistory(w) /\ ~SavesRow
  <2>1. UNCHANGED <<job, about, performed, history>>
    BY <1>4 DEF WorkerStep, RaiseException, CrashWorker, FetchJob, CheckObject, ReadActions,
       StopKilled, SkipAction, BeginAction, LookUpRow, CreateRow, ActionRaises, Reschedule,
       SaveRescheduled, SaveAction, RaiseCycleError, LeaveLoop, StoreObject
  <2> QED BY <2>1, InvisibleStep
<1> QED BY <1>1, <1>2, <1>3, <1>4

\* The whole machinery of requests, rows, queue and workers implements what
\* TransitionRun promises of a transition that is run asynchronously.
THEOREM Refinement == Spec => KeepsPromise
<1>1. Init => Promise!Init
  BY DEF Init, Promise!Init, NoRow
<1>2. IInv /\ IInv' /\ [Next]_vars => [Promise!Next]_(Promise!vars)
  <2> SUFFICES ASSUME IInv, IInv', [Next]_vars PROVE [Promise!Next]_(Promise!vars)
    OBVIOUS
  <2>1. CASE UNCHANGED vars BY <2>1, InvisibleStep DEF vars
  <2>2. CASE Next BY <2>2, RequestRefines, WorkerRefines DEF Next
  <2> QED BY <2>1, <2>2
<1> QED BY <1>1, <1>2, Invariance, PTL DEF Spec, KeepsPromise, Promise!Spec

-----------------------------------------------------------------------------
(* No active job is lost as long as no process dies                        *)

StepOf(w) == WorkerStep(w) \/ RaiseException(w)

-----------------------------------------------------------------------------
(* What a step of a worker may do to the job it works on *)

\* It keeps the job: it takes a locked row only when the lock is released, and
\* has queued the job before it gives it back.
Stays(w) ==
  /\ wk[w].pc # "idle" /\ wk'[w].pc \notin {"idle", "leave"}
  /\ wk'[w].job = wk[w].job
  /\ wk[w].pc = "start" => ~RowLocked(JobOf(w))
  /\ wk'[w].pc = "commit" => Queued(JobOf(w))'
  /\ wk'[w].pc = "check" => wk'[w].mem.status = "STARTED"

\* The queue only grows, and no job row but the worker's own is written.
Local(w) ==
  /\ OtherWorkers(w) /\ req' = req /\ crashes' = crashes
  /\ \A j \in Job : Queued(j) => Queued(j)'
  /\ \A j \in Job : j # JobOf(w) => job'[j] = job[j]

\* What is put into the queue is queued, and so is what was.
LEMMA AppendQueues ==
  ASSUME TypeOK, NEW k \in Job, queue' = Append(queue, k)
  PROVE  /\ Queued(k)'
         /\ \A j \in Job : Queued(j) => Queued(j)'
<1>1. queue \in Seq(Job) BY DEF TypeOK
<1>2. /\ DOMAIN queue' = 1 .. Len(queue) + 1
      /\ \A i \in 1 .. Len(queue) : queue'[i] = queue[i]
      /\ queue'[Len(queue) + 1] = k
  BY <1>1
<1>3. DOMAIN queue = 1 .. Len(queue) /\ Len(queue) \in Nat BY <1>1
<1> QED BY <1>2, <1>3 DEF Queued

\* Only the head of the queue is taken from it.
LEMMA FetchDequeues ==
  ASSUME TypeOK, NEW w \in Worker, FetchJob(w)
  PROVE  \A j \in Job : Queued(j) => Queued(j)' \/ j = Head(queue)
<1>1. queue \in Seq(Job) /\ queue # <<>> /\ queue' = Tail(queue) BY DEF TypeOK, FetchJob
<1>2. /\ DOMAIN queue = 1 .. Len(queue) /\ Len(queue) \in Nat \ {0} /\ Head(queue) = queue[1]
      /\ DOMAIN queue' = 1 .. Len(queue) - 1
      /\ \A i \in 1 .. Len(queue) - 1 : queue'[i] = queue[i + 1]
  BY <1>1
<1> SUFFICES ASSUME NEW j \in Job, NEW i \in 1 .. Len(queue), queue[i] = j
             PROVE  Queued(j)' \/ j = Head(queue)
  BY <1>2 DEF Queued
<1>3. CASE i = 1 BY <1>2, <1>3
<1>4. CASE i # 1
  <2>1. i - 1 \in 1 .. Len(queue) - 1 /\ queue'[i - 1] = queue[i] BY <1>2, <1>4
  <2> QED BY <1>2, <2>1 DEF Queued
<1> QED BY <1>3, <1>4

-----------------------------------------------------------------------------
\* A worker that keeps its job keeps the invariant.
LEMMA StayingStep ==
  ASSUME IInv, HandledInv, NEW w \in Worker, Stays(w), Local(w)
  PROVE  HandledInv'
<1>1. /\ JobOf(w)' = JobOf(w) /\ Handles(w, JobOf(w))'
      /\ \A v \in Worker : v # w => JobOf(v)' = JobOf(v) /\ wk'[v] = wk[v]
  BY DEF Stays, Local, OtherWorkers, Handles, JobOf
<1>2. ActiveJobsAreHandled'
  <2> SUFFICES ASSUME crashes = 0, NEW j \in Job, job'[j].status \in {"QUEUED", "STARTED"}
               PROVE  OnItsWay(j)'
    BY DEF ActiveJobsAreHandled, Local
  <2>1. CASE j = JobOf(w) BY <1>1, <2>1 DEF OnItsWay
  <2>2. CASE j # JobOf(w)
    <3>1. OnItsWay(j) BY <2>2 DEF HandledInv, ActiveJobsAreHandled, Local
    <3>2. \A v \in Worker : Handles(v, j) => Handles(v, j)'
      BY <1>1, <2>2 DEF Handles
    <3> QED BY <3>1, <3>2 DEF OnItsWay, Local
  <2> QED BY <2>1, <2>2
<1>3. crashes' = 0 => \A v \in Worker : HandedOver(v)'
  <2> SUFFICES ASSUME crashes = 0, NEW v \in Worker, wk'[v].pc = "commit"
               PROVE  \/ Queued(JobOf(v))'
                      \/ \E u \in Worker : wk'[u].pc = "start" /\ JobOf(u)' = JobOf(v)'
    BY DEF HandedOver, Local
  <2>1. CASE v = w BY <1>1, <2>1 DEF Stays, Queued
  <2>2. CASE v # w
    <3>1. wk[v].pc = "commit" /\ JobOf(v)' = JobOf(v) BY <1>1, <2>2
    <3>2. JobOf(v) \in Job BY <3>1, JobOfWorker
    <3>3. CASE Queued(JobOf(v)) BY <3>1, <3>2, <3>3 DEF Local, Queued
    <3>4. CASE \E u \in Worker : wk[u].pc = "start" /\ JobOf(u) = JobOf(v)
      <4>1. PICK u \in Worker : wk[u].pc = "start" /\ JobOf(u) = JobOf(v) BY <3>4
      <4>2. u # w BY <3>1, <4>1 DEF Stays, RowLocked
      <4> QED BY <1>1, <3>1, <4>1, <4>2
    <3> QED BY <3>1, <3>3, <3>4 DEF HandledInv, HandedOver
  <2> QED BY <2>1, <2>2
<1>4. \A v \in Worker : StartedBeforeChecked(v)'
  BY <1>1 DEF HandledInv, StartedBeforeChecked, Stays
<1> QED BY <1>2, <1>3, <1>4 DEF HandledInv

\* Every step of a worker but the last one of its run is of this kind.
LEMMA StepsStay ==
  ASSUME IInv, HandledInv, NEW w \in Worker, StepOf(w),
         ~FetchJob(w), ~StopKilled(w), ~MarkJob(w), ~CommitReschedule(w), ~SaveRescheduled(w)
  PROVE  Stays(w) /\ Local(w)
<1>1. TypeOK /\ WellFormed /\ wk[w] \in WorkerState BY DEF IInv, TypeOK
<1>2. queue' = queue => \A j \in Job : Queued(j) => Queued(j)' BY DEF Queued
<1>3. CASE StartJob(w)
  <2>1. wk[w].pc # "idle" /\ JobOf(w) \in Job BY <1>3, JobOfWorker DEF StartJob
  <2>2. \A j \in Job : j # JobOf(w) => job'[j] = job[j] BY <1>1, <1>3, <2>1 DEF StartJob, TypeOK
  <2>3. wk[w].mem \in Row /\ [wk[w].mem EXCEPT !.status = "STARTED"].status = "STARTED"
    BY <1>1 DEF WorkerState, Row
  <2>4. OtherWorkers(w) /\ wk'[w] = [wk[w] EXCEPT !.pc = "check", !.mem.status = "STARTED",
                                           !.params = wk[w].mem.params]
    BY <1>1, <1>3, StartJobType
  <2>5. /\ wk'[w].pc = "check" /\ wk'[w].job = wk[w].job
        /\ wk'[w].mem.status = "STARTED"
    BY <1>1, <2>3, <2>4 DEF WorkerState
  <2> QED BY <1>2, <1>3, <2>1, <2>2, <2>4, <2>5 DEF StartJob, Stays, Local
<1>4. CASE CheckObject(w)
  <2>1. is_running(wk[w].mem)
    BY <1>4 DEF CheckObject, HandledInv, StartedBeforeChecked, is_running, JOB_NOT_ENDED_STATUSES
  <2>2. OtherWorkers(w) /\ wk'[w] \in {FailingJob(w), [wk[w] EXCEPT !.pc = "read", !.snap = obj[ObjOf(w)]]}
    BY <1>1, <1>4, <2>1, CheckObjectType
  <2>3. wk'[w].pc \in {"dump", "read"} /\ wk'[w].job = wk[w].job
    BY <1>1, <2>2 DEF FailingJob, WorkerState
  <2> QED BY <1>2, <1>4, <2>2, <2>3 DEF CheckObject, Stays, Local
<1>5. CASE DumpParams(w)
  <2>1. wk[w].pc # "idle" /\ JobOf(w) \in Job BY <1>5, JobOfWorker DEF DumpParams
  <2>2. \A j \in Job : j # JobOf(w) => job'[j] = job[j] BY <1>1, <1>5, <2>1 DEF DumpParams, TypeOK
  <2>3. OtherWorkers(w) /\ wk'[w] = [wk[w] EXCEPT !.pc = "mark", !.mem.params = wk[w].params]
    BY <1>1, <1>5, DumpParamsType
  <2>4. wk'[w].pc = "mark" /\ wk'[w].job = wk[w].job BY <1>1, <2>3 DEF WorkerState
  <2> QED BY <1>2, <1>5, <2>2, <2>3, <2>4 DEF DumpParams, Stays, Local
<1>6. CASE Reschedule(w)
  <2>1. JobOf(w) \in Job BY <1>6, JobOfWorker DEF Reschedule
  <2>2. Queued(JobOf(w))' /\ \A j \in Job : Queued(j) => Queued(j)'
    <3>1. queue' = Append(queue, JobOf(w)) BY <1>6 DEF Reschedule
    <3>2. wk'[w].job = wk[w].job BY <1>1, <1>6, RescheduleType DEF WorkerState
    <3> QED BY <1>1, <2>1, <3>1, <3>2, AppendQueues DEF JobOf, Queued
  <2>3. OtherWorkers(w) /\ wk'[w] = [wk[w] EXCEPT !.pc = "commit", !.mem.params = wk[w].params]
    BY <1>1, <1>6, RescheduleType
  <2>4. wk'[w].pc = "commit" /\ wk'[w].job = wk[w].job BY <1>1, <2>3 DEF WorkerState
  <2> QED BY <1>6, <2>2, <2>3, <2>4 DEF Reschedule, Stays, Local
<1> DEFINE Inner == \/ ReadActions(w) \/ (\E a \in Action : SkipAction(w, a) \/ BeginAction(w, a))
                    \/ LookUpRow(w) \/ CreateRow(w) \/ PerformAction(w) \/ ActionRaises(w)
                    \/ SaveAction(w) \/ RaiseCycleError(w) \/ LeaveLoop(w)
                    \/ RecordHistory(w) \/ StoreObject(w) \/ RaiseException(w)
<1>7. CASE Inner
  <2>1. /\ UNCHANGED <<job, req, queue, crashes>>
        /\ wk[w].pc \notin {"idle", "start"}
    BY <1>7 DEF ReadActions, SkipAction, BeginAction, LookUpRow, CreateRow, PerformAction,
       ActionRaises, SaveAction, RaiseCycleError, LeaveLoop, RecordHistory, StoreObject,
       RaiseException
  <2>2. OtherWorkers(w) /\ wk'[w].job = wk[w].job
        /\ wk'[w].pc \notin {"idle", "leave", "commit", "check"}
    <3>1. CASE ReadActions(w) BY <1>1, <3>1, ReadActionsType DEF FailingJob, WorkerState
    <3>2. ASSUME NEW a \in Action, SkipAction(w, a) PROVE <2>2
      <4>1. wk[w].pc = "loop" BY <3>2 DEF SkipAction
      <4>2. OtherWorkers(w) /\ wk'[w] = [wk[w] EXCEPT !.yielded = wk[w].yielded \cup {a},
                                               !.mem = job[JobOf(w)]]
        BY <1>1, <3>2, SkipActionType
      <4> QED BY <1>1, <4>1, <4>2 DEF WorkerState
    <3>3. ASSUME NEW a \in Action, BeginAction(w, a) PROVE <2>2
      BY <1>1, <3>3, BeginActionType DEF WorkerState
    <3>4. CASE LookUpRow(w) BY <1>1, <3>4, LookUpRowType DEF FailingJob, WorkerState
    <3>5. CASE CreateRow(w) BY <1>1, <3>5, CreateRowType DEF WorkerState
    <3>6. CASE PerformAction(w) BY <1>1, <3>6, PerformActionType DEF WorkerState
    <3>7. CASE ActionRaises(w) BY <1>1, <3>7, ActionRaisesType DEF WorkerState
    <3>8. CASE SaveAction(w) BY <1>1, <3>8, SaveActionType DEF WorkerState
    <3>9. CASE RaiseCycleError(w) BY <1>1, <3>9, RaiseCycleErrorType DEF FailingJob, WorkerState
    <3>10. CASE LeaveLoop(w) BY <1>1, <3>10, LeaveLoopType DEF WorkerState
    <3>11. CASE RecordHistory(w) BY <1>1, <3>11, RecordHistoryType DEF WorkerState
    <3>12. CASE StoreObject(w) BY <1>1, <3>12, StoreObjectType DEF WorkerState
    <3>13. CASE RaiseException(w) BY <1>1, <3>13, RaiseExceptionType DEF FailingJob, WorkerState
    <3> QED BY <1>7, <3>1, <3>2, <3>3, <3>4, <3>5, <3>6, <3>7, <3>8, <3>9, <3>10, <3>11,
               <3>12, <3>13
  <2> QED BY <1>2, <2>1, <2>2 DEF Stays, Local
<1> QED BY <1>3, <1>4, <1>5, <1>6, <1>7 DEF StepOf, WorkerStep

-----------------------------------------------------------------------------
(* The other steps *)

\* A worker that goes home leaves an ended job, or one that it has handed over.
LEMMA LeavingStep ==
  ASSUME IInv, HandledInv, NEW w \in Worker, wk[w].pc \notin {"idle", "start"},
         wk'[w].pc \in {"idle", "leave"}, Local(w),
         wk[w].pc = "leave" \/ job'[JobOf(w)].status \notin {"QUEUED", "STARTED"}
           \/ (crashes = 0 => Queued(JobOf(w)) \/ \E v \in Worker : wk[v].pc = "start" /\ JobOf(v) = JobOf(w)),
         wk[w].pc = "leave" => job' = job
  PROVE  HandledInv'
<1>1. /\ \A v \in Worker : v # w => JobOf(v)' = JobOf(v) /\ wk'[v] = wk[v]
      /\ JobOf(w) \in Job
  BY JobOfWorker DEF Local, OtherWorkers, JobOf
<1>2. ActiveJobsAreHandled'
  <2> SUFFICES ASSUME crashes = 0, NEW j \in Job, job'[j].status \in {"QUEUED", "STARTED"}
               PROVE  OnItsWay(j)'
    BY DEF ActiveJobsAreHandled, Local
  <2>1. CASE j = JobOf(w) /\ wk[w].pc # "leave"
    <3>1. CASE Queued(j) BY <3>1 DEF OnItsWay, Local
    <3>2. CASE \E v \in Worker : wk[v].pc = "start" /\ JobOf(v) = j
      <4>1. PICK v \in Worker : wk[v].pc = "start" /\ JobOf(v) = j BY <3>2
      <4>2. Handles(v, j)' BY <1>1, <4>1 DEF Handles
      <4> QED BY <4>2 DEF OnItsWay
    <3> QED BY <2>1, <3>1, <3>2
  <2>2. CASE j # JobOf(w) \/ wk[w].pc = "leave"
    <3>1. OnItsWay(j) BY <2>2 DEF HandledInv, ActiveJobsAreHandled, Local
    <3>2. \A v \in Worker : Handles(v, j) => Handles(v, j)'
      BY <1>1, <2>2 DEF Handles
    <3> QED BY <3>1, <3>2 DEF OnItsWay, Local
  <2> QED BY <2>1, <2>2
<1>3. crashes' = 0 => \A v \in Worker : HandedOver(v)'
  <2> SUFFICES ASSUME crashes = 0, NEW v \in Worker, wk'[v].pc = "commit"
               PROVE  \/ Queued(JobOf(v))'
                      \/ \E u \in Worker : wk'[u].pc = "start" /\ JobOf(u)' = JobOf(v)'
    BY DEF HandedOver, Local
  <2>1. v # w OBVIOUS
  <2>2. wk[v].pc = "commit" /\ JobOf(v)' = JobOf(v) BY <1>1, <2>1
  <2>3. JobOf(v) \in Job BY <2>2, JobOfWorker
  <2>4. CASE Queued(JobOf(v)) BY <2>2, <2>3, <2>4 DEF Local, Queued
  <2>5. CASE \E u \in Worker : wk[u].pc = "start" /\ JobOf(u) = JobOf(v)
    BY <1>1, <2>2, <2>5
  <2> QED BY <2>2, <2>4, <2>5 DEF HandledInv, HandedOver
<1>4. \A v \in Worker : StartedBeforeChecked(v)'
  BY <1>1 DEF HandledInv, StartedBeforeChecked
<1> QED BY <1>2, <1>3, <1>4 DEF HandledInv

\* The last steps of a run leave the job ended, frozen or handed over.
LEMMA LastSteps ==
  ASSUME IInv, HandledInv, NEW w \in Worker,
         StopKilled(w) \/ MarkJob(w) \/ CommitReschedule(w) \/ SaveRescheduled(w)
  PROVE  HandledInv'
<1>1. TypeOK /\ WellFormed /\ wk[w] \in WorkerState BY DEF IInv, TypeOK
<1>2. wk[w].pc \notin {"idle", "start"}
  BY DEF StopKilled, MarkJob, CommitReschedule, SaveRescheduled
<1>3. JobOf(w) \in Job BY <1>2, JobOfWorker
<1>4. Local(w)
  <2>1. OtherWorkers(w) BY <1>1, StopKilledType, MarkJobType, CommitRescheduleType, SaveRescheduledType
  <2>2. req' = req /\ crashes' = crashes /\ queue' = queue
    BY DEF StopKilled, MarkJob, CommitReschedule, SaveRescheduled
  <2>3. \A j \in Job : j # JobOf(w) => job'[j] = job[j]
    BY <1>1, <1>3 DEF StopKilled, MarkJob, CommitReschedule, SaveRescheduled, TypeOK
  <2> QED BY <2>1, <2>2, <2>3 DEF Local, Queued
<1>5. CASE StopKilled(w)
  <2>1. wk'[w].pc = "idle" BY <1>1, <1>5, StopKilledType DEF IdleWorker
  <2>2. job'[JobOf(w)].status = "KILLED" /\ wk[w].pc # "leave" BY <1>5 DEF StopKilled
  <2> QED BY <1>2, <1>4, <2>1, <2>2, LeavingStep
<1>6. CASE MarkJob(w)
  <2>1. wk'[w].pc = "idle" BY <1>1, <1>6, MarkJobType DEF IdleWorker
  <2>2. wk[w].pc = "mark" BY <1>6 DEF MarkJob
  <2>3. wk[w].out \in {"FINISHED", "FAILED", "FROZEN"} BY <1>1, <2>2 DEF WellFormed, WellFormedWorker
  <2>4. job'[JobOf(w)].status = wk[w].out
    BY <1>1, <1>3, <1>6 DEF MarkJob, TypeOK, WorkerState, Row
  <2> QED BY <1>2, <1>4, <2>1, <2>2, <2>3, <2>4, LeavingStep
<1>7. CASE CommitReschedule(w)
  <2>1. wk'[w].pc = "leave" BY <1>1, <1>7, CommitRescheduleType DEF WorkerState
  <2>2. wk[w].pc = "commit" BY <1>7 DEF CommitReschedule
  <2>3. crashes = 0 => \/ Queued(JobOf(w))
                       \/ \E v \in Worker : wk[v].pc = "start" /\ JobOf(v) = JobOf(w)
    BY <2>2 DEF HandledInv, HandedOver
  <2> QED BY <1>2, <1>4, <2>1, <2>2, <2>3, LeavingStep
<1>8. CASE SaveRescheduled(w)
  <2>1. wk'[w].pc = "idle" BY <1>1, <1>8, SaveRescheduledType DEF IdleWorker
  <2>2. wk[w].pc = "leave" /\ job' = job BY <1>8 DEF SaveRescheduled
  <2> QED BY <1>2, <1>4, <2>1, <2>2, LeavingStep
<1> QED BY <1>5, <1>6, <1>7, <1>8

\* What is taken from the queue is in the hands of the worker that took it.
LEMMA FetchHandles ==
  ASSUME IInv, HandledInv, NEW w \in Worker, FetchJob(w) PROVE HandledInv'
<1>1. TypeOK /\ wk[w].pc = "idle" /\ UNCHANGED <<job, req, crashes>>
  BY DEF IInv, FetchJob
<1>2. /\ \A v \in Worker : v # w => JobOf(v)' = JobOf(v) /\ wk'[v] = wk[v]
      /\ wk'[w].pc = "start" /\ JobOf(w)' = Head(queue)
  BY <1>1, FetchJobType DEF OtherWorkers, IdleWorker, JobOf
<1>3. \A j \in Job : Queued(j) => Queued(j)' \/ JobOf(w)' = j BY <1>1, <1>2, FetchDequeues
<1>4. ActiveJobsAreHandled'
  <2> SUFFICES ASSUME crashes = 0, NEW j \in Job, job[j].status \in {"QUEUED", "STARTED"}
               PROVE  OnItsWay(j)'
    BY <1>1 DEF ActiveJobsAreHandled
  <2>1. OnItsWay(j) BY DEF HandledInv, ActiveJobsAreHandled
  <2>2. \A v \in Worker : Handles(v, j) => Handles(v, j)' BY <1>1, <1>2 DEF Handles
  <2>3. Queued(j) => Queued(j)' \/ Handles(w, j)' BY <1>2, <1>3 DEF Handles
  <2> QED BY <1>1, <2>1, <2>2, <2>3 DEF OnItsWay
<1>5. crashes' = 0 => \A v \in Worker : HandedOver(v)'
  <2> SUFFICES ASSUME crashes = 0, NEW v \in Worker, wk'[v].pc = "commit"
               PROVE  \/ Queued(JobOf(v))'
                      \/ \E u \in Worker : wk'[u].pc = "start" /\ JobOf(u)' = JobOf(v)'
    BY <1>1 DEF HandedOver
  <2>1. v # w BY <1>2
  <2>2. wk[v].pc = "commit" /\ JobOf(v)' = JobOf(v) BY <1>2, <2>1
  <2>3. JobOf(v) \in Job BY <2>2, JobOfWorker
  <2>4. CASE Queued(JobOf(v))
    <3>1. Queued(JobOf(v))' \/ JobOf(w)' = JobOf(v) BY <1>3, <2>2, <2>3, <2>4 DEF Queued
    <3> QED BY <1>2, <2>2, <3>1
  <2>5. CASE \E u \in Worker : wk[u].pc = "start" /\ JobOf(u) = JobOf(v)
    BY <1>1, <1>2, <2>2, <2>5
  <2> QED BY <2>2, <2>4, <2>5 DEF HandledInv, HandedOver
<1>6. \A v \in Worker : StartedBeforeChecked(v)'
  BY <1>2 DEF HandledInv, StartedBeforeChecked
<1> QED BY <1>4, <1>5, <1>6 DEF HandledInv

\* After a crash only the order of the worker's own steps is claimed.
LEMMA CrashHandles ==
  ASSUME IInv, HandledInv, NEW w \in Worker, CrashWorker(w) PROVE HandledInv'
<1>1. crashes \in Nat /\ crashes' = crashes + 1 BY DEF CrashWorker, IInv, TypeOK
<1>2. crashes' # 0 BY <1>1
<1>3. OtherWorkers(w) /\ wk'[w] = IdleWorker BY CrashWorkerType DEF IInv
<1>4. \A v \in Worker : StartedBeforeChecked(v)'
  BY <1>3 DEF HandledInv, StartedBeforeChecked, OtherWorkers, IdleWorker
<1> QED BY <1>2, <1>4 DEF HandledInv, ActiveJobsAreHandled

\* A request creates a job and goes on to enqueue it; what others hold stays.
LEMMA RequestHandles ==
  ASSUME IInv, IInv', HandledInv, NEW r \in Request, RequestStep(r) \/ AbandonRequest(r)
  PROVE  HandledInv'
<1>1. TypeOK /\ WellFormedRequest(r) /\ req[r] \in RequestState
  BY DEF IInv, WellFormed, TypeOK
<1>2. wk' = wk
  BY DEF RequestStep, AbandonRequest, FetchObjects, CheckInstances, RejectRequest, CreateJob,
     EnqueueJob, RunSynchronously, FailSynchronously, FetchJobToKill, KillJob, MarkAsDone, Unfreeze
<1>3. \A v \in Worker : StartedBeforeChecked(v)'
  BY <1>2 DEF HandledInv, StartedBeforeChecked
<1>4. CASE AbandonRequest(r)
  <2>1. crashes \in Nat /\ crashes' = crashes + 1 BY <1>1, <1>4 DEF AbandonRequest, TypeOK
  <2>2. crashes' # 0 BY <2>1
  <2> QED BY <1>3, <2>2 DEF HandledInv, ActiveJobsAreHandled
<1>5. CASE RequestStep(r)
  <2>1. crashes' = crashes
    BY <1>5 DEF RequestStep, FetchObjects, CheckInstances, RejectRequest, CreateJob, EnqueueJob,
       RunSynchronously, FailSynchronously, FetchJobToKill, KillJob, MarkAsDone, Unfreeze
  <2>2. OtherRequests(r)
    BY <1>1, <1>5, FetchObjectsType, CheckInstancesType, EndOfRequestType, CreateJobType,
       EnqueueJobType, RunSynchronouslyType, FetchJobToKillType, KillJobType, MarkAsDoneType,
       UnfreezeType DEF RequestStep, IInv
  <2>3. \A j \in Job : Queued(j) => Queued(j)'
    <3>1. CASE EnqueueJob(r) \/ Unfreeze(r)
      <4>1. req[r].job \in Job BY <1>1, <3>1 DEF EnqueueJob, Unfreeze, WellFormedRequest
      <4> QED BY <1>1, <3>1, <4>1, AppendQueues DEF EnqueueJob, Unfreeze
    <3>2. CASE ~EnqueueJob(r) /\ ~Unfreeze(r)
      <4>1. queue' = queue
        BY <1>5, <3>2 DEF RequestStep, FetchObjects, CheckInstances, RejectRequest, CreateJob,
           RunSynchronously, FailSynchronously, FetchJobToKill, KillJob, MarkAsDone
      <4> QED BY <4>1 DEF Queued
    <3> QED BY <3>1, <3>2
  <2>4. \A j \in Job : /\ job'[j].status \in {"QUEUED", "STARTED"}
                       => \/ job[j].status \in {"QUEUED", "STARTED"}
                          \/ req'[r].pc = "enqueue" /\ req'[r].job = j
    <3>1. CASE CreateJob(r)
      <4>1. PICK o \in req[r].todo, j \in Job :
              /\ job' = [job EXCEPT ![j] = [status |-> "QUEUED", params |-> {}]]
              /\ req' = [req EXCEPT ![r] = [@ EXCEPT !.pc = "enqueue", !.job = j,
                                                     !.todo = req[r].todo \ {o}]]
        BY <3>1 DEF CreateJob
      <4>2. \A k \in Job : k # j => job'[k] = job[k] BY <1>1, <4>1 DEF TypeOK
      <4>3. req'[r].pc = "enqueue" /\ req'[r].job = j
        BY <1>1, <4>1 DEF TypeOK, RequestState
      <4> QED BY <4>2, <4>3
    <3>2. CASE KillJob(r)
      <4>1. req[r].job \in Job /\ req[r].row \in Row
        BY <1>1, <3>2 DEF KillJob, WellFormedRequest, RequestState
      <4>2. job' = [job EXCEPT ![req[r].job] = [req[r].row EXCEPT !.status = "KILLED"]]
        BY <3>2 DEF KillJob
      <4>3. [req[r].row EXCEPT !.status = "KILLED"].status = "KILLED" BY <4>1 DEF Row
      <4>4. /\ job'[req[r].job].status = "KILLED"
            /\ \A k \in Job : k # req[r].job => job'[k] = job[k]
        BY <1>1, <4>1, <4>2, <4>3 DEF TypeOK
      <4> QED BY <4>4
    <3>3. CASE ~CreateJob(r) /\ ~KillJob(r)
      BY <1>5, <3>3 DEF RequestStep, FetchObjects, CheckInstances, RejectRequest, EnqueueJob,
         RunSynchronously, FailSynchronously, FetchJobToKill, MarkAsDone, Unfreeze
    <3> QED BY <3>1, <3>2, <3>3
  <2>5. \A j \in Job : req[r].pc = "enqueue" /\ req[r].job = j => Queued(j)'
    <3> SUFFICES ASSUME req[r].pc = "enqueue", NEW j \in Job, req[r].job = j PROVE Queued(j)'
      OBVIOUS
    <3>1. EnqueueJob(r)
      BY <1>5 DEF RequestStep, FetchObjects, CheckInstances, RejectRequest, CreateJob,
         RunSynchronously, FailSynchronously, FetchJobToKill, KillJob, MarkAsDone, Unfreeze
    <3> QED BY <1>1, <3>1, AppendQueues DEF EnqueueJob
  <2>6. ActiveJobsAreHandled'
    <3> SUFFICES ASSUME crashes = 0, NEW j \in Job, job'[j].status \in {"QUEUED", "STARTED"}
                 PROVE  OnItsWay(j)'
      BY <2>1 DEF ActiveJobsAreHandled
    <3>1. CASE OnItsWay(j)
      <4>1. CASE \E q \in Request : req[q].pc = "enqueue" /\ req[q].job = j
        <5>1. PICK q \in Request : req[q].pc = "enqueue" /\ req[q].job = j BY <4>1
        <5>2. CASE q = r BY <2>5, <5>1, <5>2 DEF OnItsWay
        <5>3. CASE q # r BY <2>2, <5>1, <5>3 DEF OnItsWay, OtherRequests
        <5> QED BY <5>2, <5>3
      <4>2. CASE Queued(j) BY <2>3, <4>2 DEF OnItsWay
      <4>3. CASE \E w \in Worker : Handles(w, j) BY <1>2, <4>3 DEF OnItsWay, Handles, JobOf
      <4> QED BY <3>1, <4>1, <4>2, <4>3 DEF OnItsWay
    <3>2. CASE ~OnItsWay(j)
      <4>1. job[j].status \notin {"QUEUED", "STARTED"}
        BY <3>2 DEF HandledInv, ActiveJobsAreHandled
      <4> QED BY <2>4, <4>1 DEF OnItsWay
    <3> QED BY <3>1, <3>2
  <2>7. crashes' = 0 => \A v \in Worker : HandedOver(v)'
    <3> SUFFICES ASSUME crashes = 0, NEW v \in Worker, wk[v].pc = "commit" PROVE HandedOver(v)'
      BY <1>2, <2>1 DEF HandedOver
    <3>1. JobOf(v) \in Job BY JobOfWorker
    <3>2. HandedOver(v) BY DEF HandledInv
    <3> QED BY <1>2, <2>3, <3>1, <3>2 DEF HandedOver, Queued, JobOf
  <2> QED BY <1>3, <2>6, <2>7 DEF HandledInv
<1> QED BY <1>4, <1>5

-----------------------------------------------------------------------------
\* Job.run, reschedule and unfreeze against run_async_transition: as long as no
\* process dies, a job that is queued or started is about to be enqueued, in the
\* queue or with a worker, so it does not block its object for ever unseen.
THEOREM ActiveJobsAreHandledAlways == Spec => []ActiveJobsAreHandled
<1>1. Init => HandledInv
  BY DEF Init, HandledInv, ActiveJobsAreHandled, HandedOver, StartedBeforeChecked, NoRow, IdleWorker
<1>2. IInv /\ IInv' /\ HandledInv /\ [Next]_vars => HandledInv'
  <2> SUFFICES ASSUME IInv, IInv', HandledInv, [Next]_vars PROVE HandledInv' OBVIOUS
  <2>1. CASE UNCHANGED vars
    BY <2>1 DEF vars, HandledInv, ActiveJobsAreHandled, OnItsWay, Queued, Handles, HandedOver,
       StartedBeforeChecked, JobOf
  <2>2. ASSUME NEW r \in Request, RequestStep(r) \/ AbandonRequest(r) PROVE HandledInv'
    BY <2>2, RequestHandles
  <2>3. ASSUME NEW w \in Worker, CrashWorker(w) PROVE HandledInv' BY <2>3, CrashHandles
  <2>4. ASSUME NEW w \in Worker, StepOf(w) PROVE HandledInv'
    BY <2>4, FetchHandles, LastSteps, StepsStay, StayingStep
  <2> QED BY <2>1, <2>2, <2>3, <2>4 DEF Next, StepOf
<1>3. HandledInv => ActiveJobsAreHandled BY DEF HandledInv
<1> QED BY <1>1, <1>2, <1>3, Invariance, PTL DEF Spec

-----------------------------------------------------------------------------
(* A single worker: nothing is finished over a failure *)

LEMMA RowsOfActionsKept ==
  ASSUME UNCHANGED tja PROVE \A j, s : ActionsWith(j, s)' = ActionsWith(j, s)
BY DEF ActionsWith

\* The one worker knows, and no job becomes both finished and failed.
LEMMA FailuresKept ==
  ASSUME SingleWorker, FailureInv, NEW w \in Worker, KnowsFailures(w)',
         \A j \in Job : \/ job'[j].status # "FINISHED"
                        \/ ActionsWith(j, "FAILED")' = {}
                        \/ /\ job[j].status = "FINISHED"
                           /\ ActionsWith(j, "FAILED")' = ActionsWith(j, "FAILED")
  PROVE  FailureInv'
<1>1. \A v \in Worker : KnowsFailures(v)' BY DEF SingleWorker
<1>2. NoSuccessAfterFailure' BY DEF FailureInv, NoSuccessAfterFailure
<1> QED BY <1>1, <1>2 DEF FailureInv

\* Most steps write neither rows of jobs nor rows of actions.
LEMMA RowsKept ==
  ASSUME SingleWorker, FailureInv, NEW w \in Worker, UNCHANGED <<job, tja>>, KnowsFailures(w)'
  PROVE  FailureInv'
<1>1. \A j \in Job : ActionsWith(j, "FAILED")' = ActionsWith(j, "FAILED") BY RowsOfActionsKept
<1>2. \A j \in Job : job[j].status = "FINISHED" => ActionsWith(j, "FAILED") = {}
  BY DEF FailureInv, NoSuccessAfterFailure
<1> QED BY <1>1, <1>2, FailuresKept

LEMMA IdleKnows == ASSUME NEW w \in Worker, wk'[w] = IdleWorker PROVE KnowsFailures(w)'
<1>1. wk'[w].pc = "idle" BY DEF IdleWorker
<1> QED BY <1>1 DEF KnowsFailures, InAction

\* A worker that stays with its job, and goes on only if nothing has failed.
LEMMA StaysKnowing ==
  ASSUME IInv, FailureInv, NEW w \in Worker, wk[w].pc \notin {"idle", "start"}, UNCHANGED job,
         wk'[w].job = wk[w].job,
         wk'[w].mem.status = wk[w].mem.status \/ wk'[w].mem = job[JobOf(w)],
         \/ wk'[w].pc \in {"check", "read"}
         \/ wk'[w].pc \in {"dump", "mark"} /\ wk'[w].out # "FINISHED"
         \/ ActionsWith(JobOf(w), "FAILED")' = {}
  PROVE  KnowsFailures(w)'
<1>1. KnowsFailures(w) BY DEF FailureInv
<1>2. JobOf(w)' = JobOf(w) BY DEF JobOf
<1> QED BY <1>1, <1>2 DEF KnowsFailures, InAction

LEMMA FailingKnows ==
  ASSUME IInv, FailureInv, NEW w \in Worker, wk[w].pc \notin {"idle", "start"},
         wk'[w] = FailingJob(w), UNCHANGED job
  PROVE  KnowsFailures(w)'
<1>1. wk[w] \in WorkerState BY ActingWorker
<1>2. /\ wk'[w].pc = "dump" /\ wk'[w].out = "FAILED"
      /\ wk'[w].job = wk[w].job /\ wk'[w].mem = wk[w].mem
  BY <1>1 DEF FailingJob, WorkerState
<1> QED BY <1>2, StaysKnowing

\* What is known where the steps of an action and of the end are taken.
LEMMA NoneFailed ==
  ASSUME FailureInv, NEW w \in Worker,
         wk[w].pc \in InAction \cup {"loop", "record", "store"}
  PROVE  ActionsWith(JobOf(w), "FAILED") = {}
BY DEF FailureInv, KnowsFailures

\* The steps that write nothing but the worker's memory, or things that are no rows.
LEMMA MemoryKnows ==
  ASSUME SingleWorker, IInv, FailureInv, NEW w \in Worker,
         \/ CheckObject(w) \/ ReadActions(w) \/ StopKilled(w)
         \/ \E a \in Action : SkipAction(w, a) \/ BeginAction(w, a)
         \/ LookUpRow(w) \/ PerformAction(w) \/ ActionRaises(w) \/ Reschedule(w)
         \/ RaiseCycleError(w) \/ LeaveLoop(w) \/ RecordHistory(w) \/ StoreObject(w)
         \/ RaiseException(w) \/ CrashWorker(w)
  PROVE  FailureInv'
<1>1. /\ TypeOK /\ WellFormed /\ wk[w] \in WorkerState /\ UNCHANGED <<job, tja>>
      /\ WellFormedWorker(w)
  BY ActingWorker
     DEF CheckObject, ReadActions, StopKilled, SkipAction, BeginAction, LookUpRow, PerformAction,
     ActionRaises, Reschedule, RaiseCycleError, LeaveLoop, RecordHistory, StoreObject,
     RaiseException, CrashWorker
<1> SUFFICES KnowsFailures(w)' BY <1>1, RowsKept
<1>2. ActionsWith(JobOf(w), "FAILED")' = ActionsWith(JobOf(w)', "FAILED")
  BY <1>1 DEF ActionsWith, JobOf
<1>3. ASSUME wk[w].pc \notin {"idle", "start"}, wk'[w].job = wk[w].job,
             wk'[w].mem.status = wk[w].mem.status \/ wk'[w].mem = job[JobOf(w)],
             \/ wk'[w].pc \in {"check", "read"}
             \/ wk'[w].pc \in {"dump", "mark"} /\ wk'[w].out # "FINISHED"
             \/ ActionsWith(JobOf(w), "FAILED") = {}
      PROVE  KnowsFailures(w)'
  <2>1. JobOf(w)' = JobOf(w) BY <1>3 DEF JobOf
  <2> QED BY <1>1, <1>2, <1>3, <2>1, StaysKnowing
<1>4. CASE wk'[w] = IdleWorker BY <1>4, IdleKnows
<1>5. CASE wk'[w] = FailingJob(w) /\ wk[w].pc \notin {"idle", "start"}
  BY <1>1, <1>5, FailingKnows
<1>6. CASE CheckObject(w)
  <2>1. \/ wk'[w] = FailingJob(w) \/ wk'[w] = IdleWorker
        \/ wk'[w] = [wk[w] EXCEPT !.pc = "read", !.snap = obj[ObjOf(w)]]
    BY <1>1, <1>6, CheckObjectType
  <2>2. wk[w].pc = "check" BY <1>6 DEF CheckObject
  <2>3. CASE wk'[w] = [wk[w] EXCEPT !.pc = "read", !.snap = obj[ObjOf(w)]]
    <3>1. wk'[w].job = wk[w].job /\ wk'[w].mem = wk[w].mem /\ wk'[w].pc = "read"
      BY <1>1, <2>3 DEF WorkerState
    <3> QED BY <1>3, <2>2, <3>1
  <2> QED BY <1>4, <1>5, <2>1, <2>2, <2>3
<1>7. CASE ReadActions(w)
  <2> DEFINE c == ActionsWith(JobOf(w), "FINISHED") \cup ActionsWith(JobOf(w), "FAILED")
  <2>1. \/ wk'[w] = FailingJob(w)
        \/ PreviousActionsOk(JobOf(w)) /\ wk'[w] = [wk[w] EXCEPT !.pc = "loop", !.completed = c]
    BY <1>1, <1>7, ReadActionsType
  <2>2. wk[w].pc = "read" BY <1>7 DEF ReadActions
  <2>3. CASE PreviousActionsOk(JobOf(w)) /\ wk'[w] = [wk[w] EXCEPT !.pc = "loop", !.completed = c]
    <3>1. wk'[w].job = wk[w].job /\ wk'[w].mem = wk[w].mem BY <1>1, <2>3 DEF WorkerState
    <3>2. ActionsWith(JobOf(w), "FAILED") = {} BY <2>3 DEF PreviousActionsOk
    <3> QED BY <1>3, <2>2, <3>1, <3>2
  <2> QED BY <1>5, <2>1, <2>2, <2>3
<1>8. CASE StopKilled(w) \/ CrashWorker(w)
  BY <1>1, <1>4, <1>8, StopKilledType, CrashWorkerType
<1>9. ASSUME NEW a \in Action, SkipAction(w, a) \/ BeginAction(w, a) PROVE KnowsFailures(w)'
  <2>1. wk[w].pc = "loop" BY <1>9 DEF SkipAction, BeginAction
  <2>2. ActionsWith(JobOf(w), "FAILED") = {} BY <2>1, NoneFailed
  <2>3. \/ wk'[w] = [wk[w] EXCEPT !.yielded = wk[w].yielded \cup {a}, !.mem = job[JobOf(w)]]
        \/ wk'[w] = [wk[w] EXCEPT !.pc = "lookup", !.act = a, !.yielded = wk[w].yielded \cup {a},
                                  !.mem = job[JobOf(w)]]
    BY <1>1, <1>9, SkipActionType, BeginActionType
  <2>4. wk'[w].job = wk[w].job /\ wk'[w].mem = job[JobOf(w)] BY <1>1, <2>3 DEF WorkerState
  <2> QED BY <1>3, <2>1, <2>2, <2>4
<1>10. CASE LookUpRow(w)
  <2> DEFINE out == tja[JobOf(w)][wk[w].act][1]
  <2>1. \/ wk'[w] = [wk[w] EXCEPT !.pc = "create"]
        \/ wk'[w] = [wk[w] EXCEPT !.pc = "run", !.row = 1, !.out = out]
        \/ wk'[w] = FailingJob(w)
    BY <1>1, <1>10, LookUpRowType
  <2>2. wk[w].pc = "lookup" BY <1>10 DEF LookUpRow
  <2>3. ActionsWith(JobOf(w), "FAILED") = {} BY <2>2, NoneFailed DEF InAction
  <2>4. wk'[w].job = wk[w].job /\ wk'[w].mem = wk[w].mem
    BY <1>1, <2>1 DEF WorkerState, FailingJob
  <2> QED BY <1>3, <2>2, <2>3, <2>4
<1>11. CASE PerformAction(w) \/ ActionRaises(w) \/ Reschedule(w)
  <2>1. wk[w].pc = "run" BY <1>11 DEF PerformAction, ActionRaises, Reschedule
  <2>2. ActionsWith(JobOf(w), "FAILED") = {} BY <2>1, NoneFailed DEF InAction
  <2>3. wk'[w].job = wk[w].job /\ wk'[w].mem.status = wk[w].mem.status
    <3>1. CASE PerformAction(w) BY <1>1, <3>1, PerformActionType DEF WorkerState
    <3>2. CASE ActionRaises(w) BY <1>1, <3>2, ActionRaisesType DEF WorkerState
    <3>3. CASE Reschedule(w)
      <4>1. wk'[w] = [wk[w] EXCEPT !.pc = "commit", !.mem.params = wk[w].params]
        BY <1>1, <3>3, RescheduleType
      <4> QED BY <1>1, <4>1 DEF WorkerState, Row
    <3> QED BY <1>11, <3>1, <3>2, <3>3
  <2> QED BY <1>3, <2>1, <2>2, <2>3
<1>12. CASE RaiseCycleError(w) \/ LeaveLoop(w) \/ RecordHistory(w) \/ StoreObject(w)
  <2>1. wk[w].pc \in {"loop", "record", "store"}
    BY <1>12 DEF RaiseCycleError, LeaveLoop, RecordHistory, StoreObject
  <2>2. ActionsWith(JobOf(w), "FAILED") = {} BY <2>1, NoneFailed
  <2>3. \/ wk'[w] = FailingJob(w)
        \/ wk'[w] = [wk[w] EXCEPT !.pc = "record"]
        \/ wk'[w] = [wk[w] EXCEPT !.pc = "store"]
        \/ wk'[w] = [wk[w] EXCEPT !.pc = "dump", !.out = "FINISHED"]
    BY <1>1, <1>12, RaiseCycleErrorType, LeaveLoopType, RecordHistoryType, StoreObjectType
  <2>4. wk'[w].job = wk[w].job /\ wk'[w].mem = wk[w].mem
    BY <1>1, <2>3 DEF WorkerState, FailingJob
  <2> QED BY <1>3, <2>1, <2>2, <2>4
<1>13. CASE RaiseException(w)
  <2>1. wk[w].pc \notin {"idle", "start"} BY <1>13 DEF RaiseException
  <2>2. \/ wk'[w] = FailingJob(w)
        \/ wk[w].pc = "commit" /\ wk'[w] = [wk[w] EXCEPT !.pc = "save", !.out = "FAILED"]
    BY <1>1, <1>13, RaiseExceptionType
  <2>3. CASE wk[w].pc = "commit" /\ wk'[w] = [wk[w] EXCEPT !.pc = "save", !.out = "FAILED"]
    <3>1. ActionsWith(JobOf(w), "FAILED") = {} BY <2>3, NoneFailed DEF InAction
    <3>2. wk'[w].job = wk[w].job /\ wk'[w].mem = wk[w].mem BY <1>1, <2>3 DEF WorkerState
    <3> QED BY <1>3, <2>1, <3>1, <3>2
  <2> QED BY <1>5, <2>1, <2>2, <2>3
<1> QED BY <1>6, <1>7, <1>8, <1>9, <1>10, <1>11, <1>12, <1>13

\* The steps that take a job, write its row and send the worker home.
LEMMA RowKnows ==
  ASSUME SingleWorker, IInv, FailureInv, NEW w \in Worker,
         FetchJob(w) \/ StartJob(w) \/ CommitReschedule(w) \/ DumpParams(w) \/ MarkJob(w)
  PROVE  FailureInv'
<1>1. /\ TypeOK /\ WellFormed /\ wk[w] \in WorkerState /\ KnowsFailures(w) /\ UNCHANGED tja
      /\ wk[w].pc # "idle" => JobOf(w) \in Job
  BY ActingWorker, JobOfWorker
     DEF FailureInv, FetchJob, StartJob, CommitReschedule, DumpParams, MarkJob
<1>2. \A j \in Job : ActionsWith(j, "FAILED")' = ActionsWith(j, "FAILED")
  BY <1>1, RowsOfActionsKept
<1>3. CASE FetchJob(w)
  <2>1. wk'[w].pc = "start" BY <1>1, <1>3, FetchJobType DEF IdleWorker
  <2>2. KnowsFailures(w)' BY <2>1 DEF KnowsFailures, InAction
  <2> QED BY <1>1, <1>3, <2>2, RowsKept DEF FetchJob
<1>4. CASE StartJob(w)
  <2>1. wk'[w] = [wk[w] EXCEPT !.pc = "check", !.mem.status = "STARTED",
                               !.params = wk[w].mem.params]
    BY <1>1, <1>4, StartJobType
  <2>2. wk'[w].pc = "check" /\ wk'[w].mem.status = "STARTED" /\ wk'[w].job = wk[w].job
    BY <1>1, <2>1 DEF WorkerState, Row
  <2>3. /\ \A j \in Job : j # JobOf(w) => job'[j] = job[j]
        /\ job'[JobOf(w)].status = "STARTED"
    BY <1>1, <1>4 DEF StartJob, TypeOK, WorkerState, Row
  <2>4. KnowsFailures(w)' BY <2>2, <2>3 DEF KnowsFailures, InAction, JobOf
  <2> QED BY <1>2, <2>3, <2>4, FailuresKept
<1>5. CASE CommitReschedule(w) \/ DumpParams(w)
  <2>1. wk[w].pc \in {"commit", "dump"} BY <1>5 DEF CommitReschedule, DumpParams
  <2>2. /\ \A j \in Job : j # JobOf(w) => job'[j] = job[j]
        /\ job'[JobOf(w)].status = wk[w].mem.status
    BY <1>1, <1>5, <2>1 DEF CommitReschedule, DumpParams, TypeOK, WorkerState, Row
  <2>3. \/ wk[w].pc = "commit" /\ wk'[w] = [wk[w] EXCEPT !.pc = "leave"]
        \/ wk[w].pc = "dump" /\ wk'[w] = [wk[w] EXCEPT !.pc = "mark", !.mem.params = wk[w].params]
    BY <1>1, <1>5, CommitRescheduleType, DumpParamsType DEF CommitReschedule, DumpParams
  <2>4. /\ wk'[w].job = wk[w].job /\ wk'[w].mem.status = wk[w].mem.status
        /\ wk'[w].out = wk[w].out
        /\ \/ wk[w].pc = "commit" /\ wk'[w].pc = "leave"
           \/ wk[w].pc = "dump" /\ wk'[w].pc = "mark"
    <3>1. CASE wk[w].pc = "commit" /\ wk'[w] = [wk[w] EXCEPT !.pc = "leave"]
      BY <1>1, <3>1 DEF WorkerState
    <3>2. CASE /\ wk[w].pc = "dump"
               /\ wk'[w] = [wk[w] EXCEPT !.pc = "mark", !.mem.params = wk[w].params]
      BY <1>1, <3>2 DEF WorkerState, Row
    <3> QED BY <2>3, <3>1, <3>2
  <2>5. wk[w].mem.status # "FINISHED" BY <1>1, <2>1 DEF KnowsFailures
  <2>6. JobOf(w)' = JobOf(w) BY <2>4 DEF JobOf
  <2>7. KnowsFailures(w)' BY <1>1, <1>2, <2>1, <2>2, <2>4, <2>5, <2>6 DEF KnowsFailures, InAction
  <2> QED BY <1>2, <2>2, <2>5, <2>7, FailuresKept
<1>6. CASE MarkJob(w)
  <2>1. KnowsFailures(w)' BY <1>1, <1>6, MarkJobType, IdleKnows
  <2>2. wk[w].pc = "mark" BY <1>6 DEF MarkJob
  <2>3. /\ \A j \in Job : j # JobOf(w) => job'[j] = job[j]
        /\ job'[JobOf(w)].status = wk[w].out
    BY <1>1, <1>6 DEF MarkJob, TypeOK, WorkerState, Row
  <2>4. wk[w].out = "FINISHED" => ActionsWith(JobOf(w), "FAILED") = {}
    BY <1>1, <2>2 DEF KnowsFailures
  <2> QED BY <1>1, <1>2, <2>1, <2>2, <2>3, <2>4, FailuresKept
<1> QED BY <1>3, <1>4, <1>5, <1>6

\* The steps that write the row of an action.
LEMMA ActionRowKnows ==
  ASSUME SingleWorker, IInv, FailureInv, NEW w \in Worker,
         CreateRow(w) \/ SaveAction(w) \/ SaveRescheduled(w)
  PROVE  FailureInv'
<1>1. /\ TypeOK /\ WellFormed /\ wk[w] \in WorkerState /\ WellFormedWorker(w) /\ KnowsFailures(w)
      /\ wk[w].pc \in InAction /\ UNCHANGED job
  BY ActingWorker DEF FailureInv, CreateRow, SaveAction, SaveRescheduled, InAction
<1>. PICK j \in Job : j = JobOf(w) BY <1>1, ActOfType
<1>. PICK a \in Action : a = wk[w].act BY <1>1, ActOfType
<1>2. /\ tja[j][a] \in Seq(TransitionJobActionStatus) /\ job[j].status # "FINISHED"
      /\ ActionsWith(j, "FAILED") = {} /\ wk[w].pc \notin {"idle", "start"}
  BY <1>1, NoneFailed DEF TypeOK, KnowsFailures, InAction
<1>3. \A k \in Job, b \in Action : k # j \/ b # a => tja'[k][b] = tja[k][b]
  BY <1>1 DEF CreateRow, SaveAction, SaveRescheduled, TypeOK
<1>4. \A k \in Job : k # j => ActionsWith(k, "FAILED")' = ActionsWith(k, "FAILED")
  BY <1>3 DEF ActionsWith
<1>5. ASSUME KnowsFailures(w)' PROVE FailureInv'
  <2>1. \A k \in Job : job[k].status = "FINISHED" => ActionsWith(k, "FAILED") = {}
    BY DEF FailureInv, NoSuccessAfterFailure
  <2> QED BY <1>1, <1>2, <1>4, <1>5, <2>1, FailuresKept
<1>6. CASE SaveRescheduled(w)
  BY <1>1, <1>5, <1>6, SaveRescheduledType, IdleKnows
<1>7. ASSUME \A i \in DOMAIN tja'[j][a] : tja'[j][a][i] # "FAILED"
      PROVE  ActionsWith(j, "FAILED")' = {}
  BY <1>2, <1>3, <1>7 DEF ActionsWith
<1>8. \A i \in DOMAIN tja[j][a] : tja[j][a][i] # "FAILED" BY <1>2 DEF ActionsWith
<1>9. CASE CreateRow(w)
  <2>1. tja'[j][a] = Append(tja[j][a], "STARTED") BY <1>1, <1>9 DEF CreateRow, TypeOK
  <2>2. \A i \in DOMAIN tja'[j][a] : tja'[j][a][i] # "FAILED" BY <1>2, <1>8, <2>1
  <2>3. wk'[w] = [wk[w] EXCEPT !.pc = "run", !.out = "STARTED", !.row = Len(tja[j][a]) + 1]
    BY <1>1, <1>9, CreateRowType
  <2>4. wk'[w].job = wk[w].job /\ wk'[w].mem = wk[w].mem BY <1>1, <2>3 DEF WorkerState
  <2>5. ActionsWith(j, "FAILED")' = {} BY <1>7, <2>2
  <2>6. ActionsWith(JobOf(w), "FAILED")' = {} BY <2>4, <2>5 DEF JobOf, ActionsWith
  <2>7. KnowsFailures(w)' BY <1>1, <1>2, <2>4, <2>6, StaysKnowing
  <2> QED BY <1>5, <2>7
<1>10. CASE SaveAction(w)
  <2>1. wk[w].pc = "save" BY <1>10 DEF SaveAction
  <2>2. \/ /\ wk[w].out = "FINISHED"
           /\ wk'[w] = [wk[w] EXCEPT !.pc = "loop", !.completed = wk[w].completed \cup {a},
                                     !.act = None, !.row = 0, !.out = "NONE"]
        \/ wk[w].out # "FINISHED" /\ wk'[w] = [wk[w] EXCEPT !.pc = "dump"]
    BY <1>1, <1>10, SaveActionType
  <2>3. CASE wk[w].out = "FINISHED"
    <3>1. tja'[j][a] = [tja[j][a] EXCEPT ![wk[w].row] = "FINISHED"]
      BY <1>1, <1>10, <2>3 DEF SaveAction, TypeOK, ActionStatus
    <3>2. \A i \in DOMAIN tja'[j][a] : tja'[j][a][i] # "FAILED" BY <1>2, <1>8, <3>1
    <3>3. wk'[w].job = wk[w].job /\ wk'[w].mem = wk[w].mem BY <1>1, <2>2, <2>3 DEF WorkerState
    <3>4. ActionsWith(j, "FAILED")' = {} BY <1>7, <3>2
    <3>5. ActionsWith(JobOf(w), "FAILED")' = {} BY <3>3, <3>4 DEF JobOf, ActionsWith
    <3>6. KnowsFailures(w)' BY <1>1, <1>2, <3>3, <3>5, StaysKnowing
    <3> QED BY <1>5, <3>6
  <2>4. CASE wk[w].out # "FINISHED"
    <3>1. wk'[w] = [wk[w] EXCEPT !.pc = "dump"] BY <2>2, <2>4
    <3>2. /\ wk'[w].job = wk[w].job /\ wk'[w].mem = wk[w].mem /\ wk'[w].pc = "dump"
          /\ wk'[w].out # "FINISHED"
      BY <1>1, <2>4, <3>1 DEF WorkerState
    <3>3. KnowsFailures(w)' BY <1>1, <1>2, <3>2, StaysKnowing
    <3> QED BY <1>5, <3>3
  <2> QED BY <2>3, <2>4
<1> QED BY <1>6, <1>9, <1>10

\* A request writes no row of an action and marks no job as finished.
LEMMA RequestsKnow ==
  ASSUME IInv, NEW r \in Request, RequestStep(r) \/ AbandonRequest(r)
  PROVE  /\ UNCHANGED <<wk, tja, performed>>
         /\ \A j \in Job : job'[j].status = "FINISHED" => job[j].status = "FINISHED"
<1>1. UNCHANGED <<wk, tja, performed>>
  BY DEF RequestStep, FetchObjects, CheckInstances, RejectRequest, CreateJob, EnqueueJob,
     RunSynchronously, FailSynchronously, FetchJobToKill, KillJob, MarkAsDone, Unfreeze,
     AbandonRequest
<1>2. TypeOK BY DEF IInv
<1>3. CASE UNCHANGED job BY <1>1, <1>3
<1>4. CASE CreateJob(r) BY <1>1, <1>2, <1>4 DEF CreateJob, TypeOK
<1>5. CASE KillJob(r) BY <1>1, <1>2, <1>5 DEF KillJob, TypeOK, RequestState, Row
<1> QED BY <1>3, <1>4, <1>5
     DEF RequestStep, FetchObjects, CheckInstances, RejectRequest, EnqueueJob,
         RunSynchronously, FailSynchronously, FetchJobToKill, MarkAsDone, Unfreeze,
         AbandonRequest

LEMMA FailureStep ==
  ASSUME SingleWorker, IInv, FailureInv, [Next]_vars
  PROVE  FailureInv'
<1>1. CASE UNCHANGED vars
  BY <1>1 DEF vars, FailureInv, NoSuccessAfterFailure, KnowsFailures, JobOf, ActionsWith
<1>2. ASSUME NEW w \in Worker, WorkerStep(w) \/ RaiseException(w) \/ CrashWorker(w)
      PROVE  FailureInv'
  BY <1>2, MemoryKnows, RowKnows, ActionRowKnows DEF WorkerStep
<1>3. ASSUME NEW r \in Request, RequestStep(r) \/ AbandonRequest(r) PROVE FailureInv'
  <2>1. \A w \in Worker : wk[w].pc # "idle" => JobOf(w) \in Job BY JobOfWorker
  <2>2. \A w \in Worker : KnowsFailures(w)'
    BY <1>3, <2>1, RequestsKnow DEF FailureInv, KnowsFailures, JobOf, ActionsWith, InAction
  <2>3. NoSuccessAfterFailure'
    BY <1>3, RequestsKnow DEF FailureInv, NoSuccessAfterFailure, ActionsWith
  <2> QED BY <2>2, <2>3 DEF FailureInv
<1> QED BY <1>1, <1>2, <1>3 DEF Next

LEMMA InitiallyFailureInv == Init => FailureInv
<1> SUFFICES ASSUME Init PROVE FailureInv OBVIOUS
<1>1. /\ \A j \in Job : job[j].status = "ABSENT"
      /\ \A w \in Worker : wk[w].pc = "idle"
  BY DEF Init, NoRow, IdleWorker
<1> QED BY <1>1 DEF FailureInv, NoSuccessAfterFailure, KnowsFailures, InAction

\* _check_previous_actions: with a single worker a job one of whose actions failed
\* is never marked as finished, though pings, reschedules and crashes have it
\* started again and kills overwrite its status.
THEOREM NoSuccessAfterFailureAlways ==
  ASSUME SingleWorker PROVE Spec => []NoSuccessAfterFailure
<1>1. Init => FailureInv BY InitiallyFailureInv
<1>2. IInv /\ FailureInv /\ [Next]_vars => FailureInv' BY FailureStep
<1>3. FailureInv => NoSuccessAfterFailure BY DEF FailureInv
<1> QED BY <1>1, <1>2, <1>3, Invariance, PTL DEF Spec

-----------------------------------------------------------------------------
(* ... and no action is carried out twice *)

LEMMA SingleRow ==
  ASSUME NEW s \in Seq(TransitionJobActionStatus), Len(s) = 1
  PROVE  DOMAIN s = {1} /\ s[1] \in TransitionJobActionStatus
OBVIOUS

LEMMA OnlyRow ==
  ASSUME NEW s \in Seq(TransitionJobActionStatus), NEW i \in DOMAIN s, Len(s) <= 1
  PROVE  i = 1 /\ Len(s) = 1
OBVIOUS

LEMMA SavedRow ==
  ASSUME NEW s \in Seq(TransitionJobActionStatus), Len(s) = 1,
         NEW v \in TransitionJobActionStatus, NEW t, t = [s EXCEPT ![1] = v]
  PROVE  Len(t) = 1 /\ DOMAIN t = {1} /\ t[1] = v
OBVIOUS

\* The row of the action a worker is in says neither FAILED nor FINISHED.
LEMMA ActsOnStartedRow ==
  ASSUME IInv, FailureInv, RowsInv, NEW w \in Worker, wk[w].pc \in InAction
  PROVE  /\ JobOf(w) \in Job /\ wk[w].act \in Action
         /\ ActionsWith(JobOf(w), "FAILED") = {}
         /\ wk[w].act \notin ActionsWith(JobOf(w), "FINISHED")
<1>1. JobOf(w) \in Job /\ wk[w].act \in Action BY ActOfType DEF IInv
<1>2. KnowsRows(w) BY DEF RowsInv
<1> QED BY <1>1, <1>2, NoneFailed DEF KnowsRows

\* A step that changes no row of an action and carries out none.
LEMMA RowsUntouched ==
  ASSUME SingleWorker, RowsInv, NEW w \in Worker, wk[w].pc # "save",
         UNCHANGED <<tja, performed>>, KnowsRows(w)'
  PROVE  RowsInv'
<1>1. \A v \in Worker : v = w BY DEF SingleWorker
<1>2. \A j \in Job, a \in Action : Done(j, a)' <=> Done(j, a) BY DEF Done
<1>3. \A j \in Job : ActionsWith(j, "FINISHED")' = ActionsWith(j, "FINISHED")
  BY DEF ActionsWith
<1>4. \A j \in Job, a \in Action : ~\E v \in Worker : Saving(v, j, a)
  BY <1>1 DEF Saving
<1>5. OneRowEach' BY <1>2, <1>3, <1>4 DEF RowsInv, OneRowEach
<1>6. NoActionRepeated' BY DEF RowsInv, NoActionRepeated
<1>7. \A v \in Worker : KnowsRows(v)' BY <1>1
<1> QED BY <1>5, <1>6, <1>7 DEF RowsInv

\* The row of the action a worker is in is written.
LEMMA OwnRowWritten ==
  ASSUME IInv, FailureInv, RowsInv, NEW w \in Worker, wk[w].pc \in InAction,
         NEW s \in TransitionJobActionStatus,
         Len(tja'[JobOf(w)][wk[w].act]) = 1, DOMAIN tja'[JobOf(w)][wk[w].act] = {1},
         tja'[JobOf(w)][wk[w].act][1] = s,
         \A k \in Job, b \in Action : k # JobOf(w) \/ b # wk[w].act => tja'[k][b] = tja[k][b]
  PROVE  /\ \A k \in Job : k # JobOf(w) =>
              ActionsWith(k, "FINISHED")' = ActionsWith(k, "FINISHED")
         /\ \A k \in Job : k = JobOf(w) =>
              ActionsWith(k, "FINISHED")' = ActionsWith(k, "FINISHED")
                                            \cup (IF s = "FINISHED" THEN {wk[w].act} ELSE {})
         /\ \A k \in Job, b \in Action : Len(tja'[k][b]) <= 1
<1> PICK j \in Job : j = JobOf(w) BY ActsOnStartedRow
<1> PICK a \in Action : a = wk[w].act BY ActsOnStartedRow
<1>1. a \notin ActionsWith(j, "FINISHED") BY ActsOnStartedRow
<1>2. \A k \in Job, b \in Action : Len(tja'[k][b]) <= 1
  <2> SUFFICES ASSUME NEW k \in Job, NEW b \in Action PROVE Len(tja'[k][b]) <= 1 OBVIOUS
  <2>1. CASE k = j /\ b = a
    <3>1. Len(tja'[k][b]) = 1 BY <2>1
    <3> QED BY <3>1
  <2>2. CASE k # j \/ b # a
    <3>1. tja'[k][b] = tja[k][b] BY <2>2
    <3> QED BY <3>1 DEF RowsInv, OneRowEach
  <2> QED BY <2>1, <2>2
<1>3. \A k \in Job : k # j => ActionsWith(k, "FINISHED")' = ActionsWith(k, "FINISHED")
  BY DEF ActionsWith
<1>4. ActionsWith(j, "FINISHED")' = ActionsWith(j, "FINISHED")
                                    \cup (IF s = "FINISHED" THEN {a} ELSE {})
  BY <1>1 DEF ActionsWith
<1> QED BY <1>2, <1>3, <1>4

\* ... with what was done, by a worker that stays with the job or leaves it.
LEMMA OwnRowKeeps ==
  ASSUME SingleWorker, IInv, FailureInv, RowsInv, NEW w \in Worker, wk[w].pc \in InAction,
         NEW s \in TransitionJobActionStatus,
         Len(tja'[JobOf(w)][wk[w].act]) = 1, DOMAIN tja'[JobOf(w)][wk[w].act] = {1},
         tja'[JobOf(w)][wk[w].act][1] = s,
         \A k \in Job, b \in Action : k # JobOf(w) \/ b # wk[w].act => tja'[k][b] = tja[k][b],
         wk[w].pc = "save" /\ wk[w].out # "FAILED" => s = "FINISHED",
         UNCHANGED performed, KnowsRows(w)'
  PROVE  RowsInv'
<1> PICK j \in Job : j = JobOf(w) BY ActsOnStartedRow
<1> PICK a \in Action : a = wk[w].act BY ActsOnStartedRow
<1>1. \A v \in Worker : v = w BY DEF SingleWorker
<1>2. /\ \A k \in Job : k # j =>
           ActionsWith(k, "FINISHED")' = ActionsWith(k, "FINISHED")
      /\ ActionsWith(j, "FINISHED")' = ActionsWith(j, "FINISHED")
                                       \cup (IF s = "FINISHED" THEN {a} ELSE {})
      /\ \A k \in Job, b \in Action : Len(tja'[k][b]) <= 1
  BY OwnRowWritten
<1>3. \A k \in Job, b \in Action : Done(k, b)' <=> Done(k, b) BY DEF Done
<1>4. \A k \in Job, b \in Action : Done(k, b) =>
        b \in ActionsWith(k, "FINISHED") \/ Saving(w, k, b)
  BY <1>1 DEF RowsInv, OneRowEach
<1>5. \A k \in Job, b \in Action : Saving(w, k, b) => k = j /\ b = a /\ s = "FINISHED"
  BY DEF Saving
<1>6. OneRowEach' BY <1>2, <1>3, <1>4, <1>5 DEF OneRowEach
<1>7. NoActionRepeated' BY DEF RowsInv, NoActionRepeated
<1>8. \A v \in Worker : KnowsRows(v)' BY <1>1
<1> QED BY <1>6, <1>7, <1>8 DEF RowsInv

\* Outside of the loop a worker relies on no row of an action.
LEMMA OutOfLoopKnows ==
  ASSUME NEW w \in Worker, wk'[w].pc \notin InAction \cup {"loop"}
  PROVE  KnowsRows(w)'
BY DEF KnowsRows, InAction

LEMMA FailingOrIdle ==
  ASSUME IInv, NEW w \in Worker, wk'[w] = FailingJob(w) \/ wk'[w] = IdleWorker
  PROVE  KnowsRows(w)'
<1>1. wk[w] \in WorkerState BY ActingWorker
<1>2. wk'[w].pc = "dump" \/ wk'[w].pc = "idle"
  <2>1. CASE wk'[w] = FailingJob(w) BY <1>1, <2>1 DEF FailingJob, WorkerState
  <2>2. CASE wk'[w] = IdleWorker BY <2>2 DEF IdleWorker
  <2> QED BY <2>1, <2>2
<1>3. wk'[w].pc \notin InAction \cup {"loop"} BY <1>2 DEF InAction
<1> QED BY <1>3, OutOfLoopKnows

\* The steps before and after the loop.
LEMMA OutsideOfLoop ==
  ASSUME SingleWorker, IInv, FailureInv, RowsInv, NEW w \in Worker,
         \/ FetchJob(w) \/ StartJob(w) \/ CheckObject(w) \/ StopKilled(w)
         \/ RaiseCycleError(w) \/ LeaveLoop(w) \/ RecordHistory(w) \/ StoreObject(w)
         \/ DumpParams(w) \/ MarkJob(w)
  PROVE  RowsInv'
<1>1. TypeOK /\ WellFormed /\ wk[w] \in WorkerState BY ActingWorker
<1>2. UNCHANGED <<tja, performed>> /\ wk[w].pc # "save"
  BY DEF FetchJob, StartJob, CheckObject, StopKilled, RaiseCycleError, LeaveLoop, RecordHistory,
     StoreObject, DumpParams, MarkJob
<1>3. ASSUME wk'[w].pc \in {"start", "check", "read", "record", "store", "dump", "mark"}
      PROVE  KnowsRows(w)'
  <2>1. wk'[w].pc \notin InAction \cup {"loop"} BY <1>3 DEF InAction
  <2> QED BY <2>1, OutOfLoopKnows
<1>4. CASE FetchJob(w)
  <2>1. wk'[w].pc = "start" BY <1>1, <1>4, FetchJobType DEF IdleWorker
  <2> QED BY <1>2, <1>3, <2>1, RowsUntouched
<1>5. CASE StartJob(w)
  <2>1. wk'[w] = [wk[w] EXCEPT !.pc = "check", !.mem.status = "STARTED",
                               !.params = wk[w].mem.params]
    BY <1>1, <1>5, StartJobType
  <2>2. wk'[w].pc = "check" BY <1>1, <2>1 DEF WorkerState, Row
  <2> QED BY <1>2, <1>3, <2>2, RowsUntouched
<1>6. CASE CheckObject(w)
  <2>1. \/ wk'[w] = FailingJob(w) \/ wk'[w] = IdleWorker
        \/ wk'[w] = [wk[w] EXCEPT !.pc = "read", !.snap = obj[ObjOf(w)]]
    BY <1>1, <1>6, CheckObjectType
  <2>2. CASE wk'[w] = [wk[w] EXCEPT !.pc = "read", !.snap = obj[ObjOf(w)]]
    <3>1. wk'[w].pc = "read" BY <1>1, <2>2 DEF WorkerState
    <3> QED BY <1>2, <1>3, <3>1, RowsUntouched
  <2> QED BY <1>2, <2>1, <2>2, FailingOrIdle, RowsUntouched
<1>7. CASE StopKilled(w) \/ RaiseCycleError(w) \/ MarkJob(w)
  <2>1. wk'[w] = FailingJob(w) \/ wk'[w] = IdleWorker
    BY <1>1, <1>7, StopKilledType, RaiseCycleErrorType, MarkJobType
  <2> QED BY <1>2, <2>1, FailingOrIdle, RowsUntouched
<1>8. CASE LeaveLoop(w) \/ RecordHistory(w) \/ StoreObject(w)
  <2>1. \/ wk'[w] = [wk[w] EXCEPT !.pc = "record"]
        \/ wk'[w] = [wk[w] EXCEPT !.pc = "store"]
        \/ wk'[w] = [wk[w] EXCEPT !.pc = "dump", !.out = "FINISHED"]
    BY <1>1, <1>8, LeaveLoopType, RecordHistoryType, StoreObjectType
  <2>2. wk'[w].pc \in {"record", "store", "dump"} BY <1>1, <2>1 DEF WorkerState
  <2> QED BY <1>2, <1>3, <2>2, RowsUntouched
<1>9. CASE DumpParams(w)
  <2>1. wk'[w] = [wk[w] EXCEPT !.pc = "mark", !.mem.params = wk[w].params]
    BY <1>1, <1>9, DumpParamsType
  <2>2. wk'[w].pc = "mark" BY <1>1, <2>1 DEF WorkerState, Row
  <2> QED BY <1>2, <1>3, <2>2, RowsUntouched
<1> QED BY <1>4, <1>5, <1>6, <1>7, <1>8, <1>9

\* The loop over the actions, without the steps that write rows of actions.
LEMMA LoopKnows ==
  ASSUME SingleWorker, IInv, FailureInv, RowsInv, NEW w \in Worker,
         \/ ReadActions(w)
         \/ \E a \in Action : SkipAction(w, a) \/ BeginAction(w, a)
         \/ LookUpRow(w) \/ ActionRaises(w) \/ Reschedule(w) \/ CommitReschedule(w)
  PROVE  RowsInv'
<1>1. /\ TypeOK /\ WellFormed /\ wk[w] \in WorkerState /\ KnowsRows(w)
      /\ UNCHANGED <<tja, performed>> /\ wk[w].pc \notin {"idle", "save"}
  BY ActingWorker
     DEF RowsInv, ReadActions, SkipAction, BeginAction, LookUpRow, ActionRaises, Reschedule,
     CommitReschedule
<1>2. JobOf(w) \in Job BY <1>1, JobOfWorker
<1> SUFFICES KnowsRows(w)' BY <1>1, RowsUntouched
\* The worker goes on in the action it is in.
<1>3. ASSUME wk[w].pc \in InAction, wk'[w].job = wk[w].job, wk'[w].act = wk[w].act,
             wk'[w].completed = wk[w].completed,
             wk'[w].pc = "create" => tja[JobOf(w)][wk[w].act] = <<>>,
             wk'[w].pc \in {"run", "commit", "leave"} => wk'[w].out = "STARTED"
      PROVE  KnowsRows(w)'
  <2>1. JobOf(w)' = JobOf(w) BY <1>3 DEF JobOf
  <2>2. /\ ActionsWith(JobOf(w), "FINISHED") \subseteq wk[w].completed
        /\ wk[w].act \notin wk[w].completed
    BY <1>1, <1>3 DEF KnowsRows
  <2>3. ActionsWith(JobOf(w), "FINISHED")' = ActionsWith(JobOf(w), "FINISHED")
    BY <1>1, <2>1 DEF ActionsWith
  <2>4. wk'[w].pc = "create" => tja'[JobOf(w)'][wk'[w].act] = <<>> BY <1>1, <1>3, <2>1
  <2> QED BY <1>3, <2>2, <2>3, <2>4 DEF KnowsRows
<1>4. CASE ReadActions(w)
  <2> DEFINE c == ActionsWith(JobOf(w), "FINISHED") \cup ActionsWith(JobOf(w), "FAILED")
  <2>1. \/ wk'[w] = FailingJob(w)
        \/ wk'[w] = [wk[w] EXCEPT !.pc = "loop", !.completed = c]
    BY <1>1, <1>4, ReadActionsType
  <2>2. CASE wk'[w] = [wk[w] EXCEPT !.pc = "loop", !.completed = c]
    <3>1. wk'[w].pc = "loop" /\ wk'[w].job = wk[w].job /\ wk'[w].completed = c
      BY <1>1, <2>2 DEF WorkerState
    <3>2. ActionsWith(JobOf(w), "FINISHED")' \subseteq wk'[w].completed
      BY <1>1, <3>1 DEF ActionsWith, JobOf
    <3> QED BY <3>1, <3>2 DEF KnowsRows, InAction
  <2> QED BY <2>1, <2>2, FailingOrIdle
<1>5. ASSUME NEW a \in Action, SkipAction(w, a) PROVE KnowsRows(w)'
  <2>1. wk'[w] = [wk[w] EXCEPT !.yielded = wk[w].yielded \cup {a}, !.mem = job[JobOf(w)]]
    BY <1>1, <1>5, SkipActionType
  <2>2. wk[w].pc = "loop" BY <1>5 DEF SkipAction
  <2>3. wk'[w].pc = "loop" /\ wk'[w].job = wk[w].job /\ wk'[w].completed = wk[w].completed
    BY <1>1, <2>1, <2>2 DEF WorkerState
  <2>4. ActionsWith(JobOf(w), "FINISHED")' \subseteq wk'[w].completed
    BY <1>1, <2>2, <2>3 DEF ActionsWith, JobOf, KnowsRows
  <2> QED BY <2>3, <2>4 DEF KnowsRows, InAction
<1>6. ASSUME NEW a \in Action, BeginAction(w, a) PROVE KnowsRows(w)'
  <2>1. wk'[w] = [wk[w] EXCEPT !.pc = "lookup", !.act = a, !.yielded = wk[w].yielded \cup {a},
                               !.mem = job[JobOf(w)]]
    BY <1>1, <1>6, BeginActionType
  <2>2. wk[w].pc = "loop" /\ a \notin wk[w].completed BY <1>6 DEF BeginAction
  <2>3. /\ wk'[w].pc = "lookup" /\ wk'[w].job = wk[w].job /\ wk'[w].act = a
        /\ wk'[w].completed = wk[w].completed
    BY <1>1, <2>1 DEF WorkerState
  <2>4. ActionsWith(JobOf(w), "FINISHED")' \subseteq wk'[w].completed
    BY <1>1, <2>2, <2>3 DEF ActionsWith, JobOf, KnowsRows
  <2> QED BY <2>2, <2>3, <2>4 DEF KnowsRows, InAction
<1>7. CASE LookUpRow(w)
  <2>1. wk[w].pc = "lookup" /\ wk[w].pc \in InAction BY <1>7 DEF LookUpRow, InAction
  <2>. PICK j \in Job : j = JobOf(w) BY <1>2
  <2>. PICK a \in Action : a = wk[w].act BY <1>1, <2>1, ActOfType
  <2>2. wk'[w] = CASE Len(tja[j][a]) = 0 -> [wk[w] EXCEPT !.pc = "create"]
                   [] Len(tja[j][a]) = 1 -> [wk[w] EXCEPT !.pc = "run", !.row = 1,
                                                          !.out = tja[j][a][1]]
                   [] OTHER -> FailingJob(w)
    BY <1>1, <1>7, LookUpRowType
  <2>3. tja[j][a] \in Seq(TransitionJobActionStatus) BY <1>1 DEF TypeOK
  <2>4. a \notin ActionsWith(j, "FINISHED") /\ ActionsWith(j, "FAILED") = {}
    BY <2>1, ActsOnStartedRow
  <2>5. CASE Len(tja[j][a]) = 0
    <3>1. wk'[w] = [wk[w] EXCEPT !.pc = "create"] BY <2>2, <2>5
    <3>2. /\ wk'[w].pc = "create" /\ wk'[w].job = wk[w].job /\ wk'[w].act = wk[w].act
          /\ wk'[w].completed = wk[w].completed
      BY <1>1, <3>1 DEF WorkerState
    <3>3. tja[j][a] = <<>> BY <2>3, <2>5
    <3> QED BY <1>3, <2>1, <3>2, <3>3
  <2>6. CASE Len(tja[j][a]) = 1
    <3>1. wk'[w] = [wk[w] EXCEPT !.pc = "run", !.row = 1, !.out = tja[j][a][1]] BY <2>2, <2>6
    <3>2. /\ wk'[w].pc = "run" /\ wk'[w].job = wk[w].job /\ wk'[w].act = wk[w].act
          /\ wk'[w].completed = wk[w].completed /\ wk'[w].out = tja[j][a][1]
      BY <1>1, <3>1 DEF WorkerState
    <3>3. 1 \in DOMAIN tja[j][a] /\ tja[j][a][1] \in TransitionJobActionStatus
      BY <2>3, <2>6, SingleRow
    <3>4. tja[j][a][1] = "STARTED" BY <2>4, <3>3 DEF ActionsWith, TransitionJobActionStatus
    <3> QED BY <1>3, <2>1, <3>2, <3>4
  <2>7. CASE Len(tja[j][a]) # 0 /\ Len(tja[j][a]) # 1 BY <2>2, <2>7, FailingOrIdle
  <2> QED BY <2>5, <2>6, <2>7
<1>8. CASE ActionRaises(w) \/ Reschedule(w) \/ CommitReschedule(w)
  <2>1. /\ wk[w].pc \in {"run", "commit"} /\ wk[w].pc \in InAction /\ wk[w].out = "STARTED"
    BY <1>1, <1>8 DEF ActionRaises, Reschedule, CommitReschedule, InAction, KnowsRows
  <2>2. /\ wk'[w].pc \in {"save", "commit", "leave"} /\ wk'[w].job = wk[w].job
        /\ wk'[w].act = wk[w].act /\ wk'[w].completed = wk[w].completed
        /\ wk'[w].pc # "save" => wk'[w].out = wk[w].out
    <3>1. CASE ActionRaises(w)
      <4>1. wk'[w] = [wk[w] EXCEPT !.pc = "save", !.out = "FAILED"]
        BY <1>1, <3>1, ActionRaisesType
      <4> QED BY <1>1, <4>1 DEF WorkerState
    <3>2. CASE Reschedule(w)
      <4>1. wk'[w] = [wk[w] EXCEPT !.pc = "commit", !.mem.params = wk[w].params]
        BY <1>1, <3>2, RescheduleType
      <4> QED BY <1>1, <4>1 DEF WorkerState, Row
    <3>3. CASE CommitReschedule(w)
      <4>1. wk'[w] = [wk[w] EXCEPT !.pc = "leave"] BY <1>1, <3>3, CommitRescheduleType
      <4> QED BY <1>1, <4>1 DEF WorkerState
    <3> QED BY <1>8, <3>1, <3>2, <3>3
  <2> QED BY <1>3, <2>1, <2>2
<1> QED BY <1>4, <1>5, <1>6, <1>7, <1>8

\* The steps that write the row of an action, or carry the action out.
LEMMA ActionsKnow ==
  ASSUME SingleWorker, IInv, FailureInv, RowsInv, NEW w \in Worker,
         CreateRow(w) \/ SaveAction(w) \/ SaveRescheduled(w) \/ PerformAction(w)
  PROVE  RowsInv'
<1>1. /\ TypeOK /\ WellFormed /\ wk[w] \in WorkerState /\ KnowsRows(w) /\ WellFormedWorker(w)
      /\ wk[w].pc \in InAction
  BY ActingWorker DEF RowsInv, CreateRow, SaveAction, SaveRescheduled, PerformAction, InAction
<1>. PICK j \in Job : j = JobOf(w) BY <1>1, ActsOnStartedRow
<1>. PICK a \in Action : a = wk[w].act BY <1>1, ActsOnStartedRow
<1>2. /\ tja[j][a] \in Seq(TransitionJobActionStatus) /\ Len(tja[j][a]) <= 1
      /\ performed[j][a] \in Nat
  BY <1>1 DEF TypeOK, RowsInv, OneRowEach
<1>3. /\ a \notin ActionsWith(j, "FINISHED")
      /\ ActionsWith(j, "FINISHED") \subseteq wk[w].completed /\ a \notin wk[w].completed
  BY <1>1, ActsOnStartedRow DEF KnowsRows
<1>4. wk[w].pc \in {"save", "leave"} => /\ wk[w].row = 1 /\ Len(tja[j][a]) = 1
                                        /\ DOMAIN tja[j][a] = {1}
  <2> HAVE wk[w].pc \in {"save", "leave"}
  <2>1. wk[w].row \in DOMAIN tja[j][a] BY <1>1 DEF WellFormedWorker
  <2>2. wk[w].row = 1 /\ Len(tja[j][a]) = 1 BY <1>2, <2>1, OnlyRow
  <2> QED BY <1>2, <2>2, SingleRow
<1>5. CASE CreateRow(w)
  <2>1. UNCHANGED performed /\ wk[w].pc = "create" BY <1>5 DEF CreateRow
  <2>2. tja[j][a] = <<>> BY <1>1, <2>1 DEF KnowsRows
  <2>3. /\ tja'[j][a] = <<"STARTED">>
        /\ \A k \in Job, b \in Action : k # j \/ b # a => tja'[k][b] = tja[k][b]
    BY <1>1, <1>5, <2>2 DEF CreateRow, TypeOK
  <2>4. wk'[w] = [wk[w] EXCEPT !.pc = "run", !.out = "STARTED", !.row = Len(tja[j][a]) + 1]
    BY <1>1, <1>5, CreateRowType
  <2>5. /\ wk'[w].pc = "run" /\ wk'[w].job = wk[w].job
        /\ wk'[w].completed = wk[w].completed /\ wk'[w].act = a /\ wk'[w].out = "STARTED"
    BY <1>1, <2>4 DEF WorkerState
  <2>6. /\ "STARTED" \in TransitionJobActionStatus /\ Len(tja'[j][a]) = 1
        /\ DOMAIN tja'[j][a] = {1} /\ tja'[j][a][1] = "STARTED"
    BY <2>3 DEF TransitionJobActionStatus
  <2>7. ActionsWith(j, "FINISHED")' = ActionsWith(j, "FINISHED")
    <3>1. ASSUME NEW s \in TransitionJobActionStatus, tja'[j][a][1] = s
          PROVE  ActionsWith(j, "FINISHED")' = ActionsWith(j, "FINISHED")
                                               \cup (IF s = "FINISHED" THEN {a} ELSE {})
      <4>1. Len(tja'[j][a]) = 1 /\ DOMAIN tja'[j][a] = {1} BY <2>6
      <4>2. \A k \in Job, b \in Action : k # j \/ b # a => tja'[k][b] = tja[k][b] BY <2>3
      <4> QED BY <1>1, <3>1, <4>1, <4>2, OwnRowWritten
    <3> QED BY <2>6, <3>1
  <2>8. JobOf(w)' = j BY <2>5 DEF JobOf
  <2>9. KnowsRows(w)' BY <1>3, <2>5, <2>7, <2>8 DEF KnowsRows
  <2> QED BY <1>1, <2>1, <2>3, <2>6, <2>9, OwnRowKeeps
<1>6. CASE SaveRescheduled(w)
  <2>1. UNCHANGED performed /\ wk[w].pc = "leave" BY <1>6 DEF SaveRescheduled
  <2>2. wk[w].out = "STARTED" BY <1>1, <2>1 DEF KnowsRows
  <2>3. /\ tja'[j][a] = [tja[j][a] EXCEPT ![1] = "STARTED"]
        /\ \A k \in Job, b \in Action : k # j \/ b # a => tja'[k][b] = tja[k][b]
    BY <1>1, <1>4, <1>6, <2>1, <2>2 DEF SaveRescheduled, TypeOK
  <2>4. "STARTED" \in TransitionJobActionStatus BY DEF TransitionJobActionStatus
  <2>5. /\ Len(tja'[j][a]) = 1 /\ DOMAIN tja'[j][a] = {1} /\ tja'[j][a][1] = "STARTED"
    BY <1>2, <1>4, <2>1, <2>3, <2>4, SavedRow
  <2>6. KnowsRows(w)' BY <1>1, <1>6, SaveRescheduledType, FailingOrIdle
  <2> QED BY <1>1, <2>1, <2>3, <2>4, <2>5, <2>6, OwnRowKeeps
<1>7. CASE SaveAction(w)
  <2> DEFINE s == ActionStatus(wk[w].out)
  <2>1. UNCHANGED performed /\ wk[w].pc = "save" BY <1>7 DEF SaveAction
  <2>2. wk[w].out \in {"FINISHED", "FAILED", "FROZEN"} BY <1>1, <2>1 DEF WellFormedWorker
  <2>3. s \in TransitionJobActionStatus /\ (wk[w].out # "FAILED" => s = "FINISHED")
    BY <2>2 DEF ActionStatus, TransitionJobActionStatus
  <2>4. /\ tja'[j][a] = [tja[j][a] EXCEPT ![1] = s]
        /\ \A k \in Job, b \in Action : k # j \/ b # a => tja'[k][b] = tja[k][b]
    BY <1>1, <1>4, <1>7, <2>1 DEF SaveAction, TypeOK
  <2>5. Len(tja'[j][a]) = 1 /\ DOMAIN tja'[j][a] = {1} /\ tja'[j][a][1] = s
    BY <1>2, <1>4, <2>1, <2>3, <2>4, SavedRow
  <2>6. ActionsWith(j, "FINISHED")' = ActionsWith(j, "FINISHED")
                                      \cup (IF s = "FINISHED" THEN {a} ELSE {})
    BY <1>1, <2>3, <2>4, <2>5, OwnRowWritten
  <2>7. wk'[w] = CASE wk[w].out = "FINISHED" ->
                        [wk[w] EXCEPT !.pc = "loop", !.completed = wk[w].completed \cup {a},
                                      !.act = None, !.row = 0, !.out = "NONE"]
                   [] OTHER -> [wk[w] EXCEPT !.pc = "dump"]
    BY <1>1, <1>7, SaveActionType
  <2>8. KnowsRows(w)'
    <3>1. CASE wk[w].out = "FINISHED"
      <4>1. wk'[w] = [wk[w] EXCEPT !.pc = "loop", !.completed = wk[w].completed \cup {a},
                                   !.act = None, !.row = 0, !.out = "NONE"]
        BY <2>7, <3>1
      <4>2. /\ wk'[w].pc = "loop" /\ wk'[w].job = wk[w].job
            /\ wk'[w].completed = wk[w].completed \cup {a}
        BY <1>1, <4>1 DEF WorkerState
      <4>3. JobOf(w)' = j BY <4>2 DEF JobOf
      <4> QED BY <1>3, <2>6, <4>2, <4>3 DEF KnowsRows, InAction
    <3>2. CASE wk[w].out # "FINISHED"
      <4>1. wk'[w] = [wk[w] EXCEPT !.pc = "dump"] BY <2>7, <3>2
      <4>2. wk'[w].pc = "dump" BY <1>1, <4>1 DEF WorkerState
      <4> QED BY <4>2 DEF KnowsRows, InAction
    <3> QED BY <3>1, <3>2
  <2> HIDE DEF s
  <2> QED BY <1>1, <2>1, <2>3, <2>4, <2>5, <2>8, OwnRowKeeps
<1>8. CASE PerformAction(w)
  <2>1. UNCHANGED tja /\ wk[w].pc = "run" BY <1>8 DEF PerformAction
  <2>2. \A v \in Worker : v = w BY DEF SingleWorker
  <2>3. ~Done(j, a) BY <1>3, <2>1, <2>2 DEF RowsInv, OneRowEach, Saving
  <2>4. /\ performed'[j][a] = 1
        /\ \A k \in Job, b \in Action : k # j \/ b # a => performed'[k][b] = performed[k][b]
    BY <1>1, <1>2, <1>8, <2>3 DEF PerformAction, TypeOK, Done
  <2>5. wk'[w] = [wk[w] EXCEPT !.pc = "save", !.params = wk[w].params \cup {a},
                               !.out = IF a \in Freezing THEN "FROZEN" ELSE "FINISHED"]
    BY <1>1, <1>8, PerformActionType
  <2>6. /\ wk'[w].pc = "save" /\ wk'[w].job = wk[w].job
        /\ wk'[w].completed = wk[w].completed /\ wk'[w].act = a /\ wk'[w].out # "FAILED"
    BY <1>1, <2>5 DEF WorkerState
  <2>7. JobOf(w)' = j BY <2>6 DEF JobOf
  <2>8. \A k \in Job : ActionsWith(k, "FINISHED")' = ActionsWith(k, "FINISHED")
    BY <2>1 DEF ActionsWith
  <2>9. KnowsRows(w)' BY <1>3, <2>6, <2>7, <2>8 DEF KnowsRows
  <2>10. Saving(w, j, a)' BY <2>6, <2>7 DEF Saving
  <2>11. \A k \in Job, b \in Action : (k # j \/ b # a) =>
           (Done(k, b)' => b \in ActionsWith(k, "FINISHED"))
    BY <2>1, <2>2, <2>4 DEF RowsInv, OneRowEach, Done, Saving
  <2>12. OneRowEach' BY <2>1, <2>8, <2>10, <2>11 DEF RowsInv, OneRowEach
  <2>13. NoActionRepeated'
    <3> SUFFICES ASSUME NEW k \in Job, NEW b \in Action PROVE performed'[k][b] <= 1
      BY DEF NoActionRepeated
    <3>1. CASE k = j /\ b = a
      <4>1. performed'[k][b] = 1 BY <2>4, <3>1
      <4> QED BY <4>1
    <3>2. CASE k # j \/ b # a BY <2>4, <3>2 DEF RowsInv, NoActionRepeated
    <3> QED BY <3>1, <3>2
  <2> QED BY <2>2, <2>9, <2>12, <2>13 DEF RowsInv
<1> QED BY <1>5, <1>6, <1>7, <1>8

LEMMA RowsStep ==
  ASSUME SingleWorker, ~Exceptions, MaxCrashes = 0, IInv, FailureInv, RowsInv, [Next]_vars
  PROVE  RowsInv'
<1>1. CASE UNCHANGED vars
  BY <1>1 DEF vars, RowsInv, OneRowEach, NoActionRepeated, KnowsRows, Done, Saving, JobOf,
     ActionsWith
<1>2. ASSUME NEW w \in Worker, WorkerStep(w) PROVE RowsInv'
  BY <1>2, OutsideOfLoop, LoopKnows, ActionsKnow DEF WorkerStep
<1>3. ASSUME NEW w \in Worker, RaiseException(w) PROVE FALSE BY <1>3 DEF RaiseException
<1>4. ASSUME NEW w \in Worker, CrashWorker(w) PROVE FALSE
  BY <1>4 DEF CrashWorker, IInv, TypeOK
<1>5. ASSUME NEW r \in Request, RequestStep(r) \/ AbandonRequest(r) PROVE RowsInv'
  <2>1. UNCHANGED <<wk, tja, performed>> BY <1>5, RequestsKnow
  <2>2. OneRowEach' BY <2>1 DEF RowsInv, OneRowEach, Done, Saving, JobOf, ActionsWith
  <2>3. NoActionRepeated' BY <2>1 DEF RowsInv, NoActionRepeated
  <2>4. \A w \in Worker : KnowsRows(w)' BY <2>1 DEF RowsInv, KnowsRows, JobOf, ActionsWith
  <2> QED BY <2>2, <2>3, <2>4 DEF RowsInv
<1> QED BY <1>1, <1>2, <1>3, <1>4, <1>5 DEF Next

LEMMA InitiallyRowsInv == Init => RowsInv
<1> SUFFICES ASSUME Init PROVE RowsInv OBVIOUS
<1>1. /\ \A j \in Job, a \in Action : tja[j][a] = <<>> /\ performed[j][a] = 0
      /\ \A w \in Worker : wk[w].pc = "idle"
  BY DEF Init, IdleWorker
<1>2. Len(<<>>) <= 1 OBVIOUS
<1>3. OneRowEach BY <1>1, <1>2 DEF OneRowEach, Done
<1>4. NoActionRepeated BY <1>1 DEF NoActionRepeated
<1> QED BY <1>1, <1>3, <1>4 DEF RowsInv, KnowsRows, InAction

\* get_or_create of the row, its status and the completed actions read before the
\* loop: when a single worker is neither interrupted nor lost between the effect of
\* an action and its row, freezing, rescheduling, killing and several entries of a
\* job in the queue never carry an action out twice.
THEOREM NoActionRepeatedAlways ==
  ASSUME SingleWorker, ~Exceptions, MaxCrashes = 0 PROVE Spec => []NoActionRepeated
<1>1. Init => FailureInv /\ RowsInv BY InitiallyFailureInv, InitiallyRowsInv
<1>2. IInv /\ FailureInv /\ RowsInv /\ [Next]_vars => FailureInv' /\ RowsInv'
  BY FailureStep, RowsStep
<1>3. RowsInv => NoActionRepeated BY DEF RowsInv
<1> QED BY <1>1, <1>2, <1>3, Invariance, PTL DEF Spec

-----------------------------------------------------------------------------
(* ... and the history entry is complete *)

\* The worker looks after the row of its job, and no other row changes.
LEMMA ParamsHeld ==
  ASSUME IInv, SingleWorker, ParamsInv, NEW w \in Worker, NEW j \in Job, req' = req,
         \A k \in Job : k # j => /\ ~InHand(w, k) /\ job'[k] = job[k]
                                 /\ \A a \in Action : performed'[k][a] = performed[k][a],
         InHand(w, j)' \/ {a \in Action : Done(j, a)'} \subseteq job'[j].params,
         HoldsParams(w)'
  PROVE  ParamsInv'
<1>1. \A v \in Worker : v = w BY DEF SingleWorker
<1>2. ASSUME NEW k \in Job, \A v \in Worker : ~InHand(v, k)'
      PROVE  {a \in Action : Done(k, a)'} \subseteq job'[k].params
  <2>1. CASE k = j BY <1>2, <2>1
  <2>2. CASE k # j
    <3>1. {a \in Action : Done(k, a)} \subseteq job[k].params
      BY <1>1, <2>2 DEF ParamsInv, DoneOf
    <3>2. \A a \in Action : Done(k, a)' <=> Done(k, a) BY <2>2 DEF Done
    <3> QED BY <2>2, <3>1, <3>2
  <2> QED BY <2>1, <2>2
<1>3. \A r \in Request : req'[r].pc # "kill" BY DEF ParamsInv
<1>4. \A v \in Worker : HoldsParams(v)' BY <1>1
<1> QED BY <1>2, <1>3, <1>4 DEF ParamsInv, DoneOf

\* A worker that stays with its job, or gives it back with what it has done.
LEMMA WorkerHolds ==
  ASSUME IInv, SingleWorker, ParamsInv, NEW w \in Worker, WorkerStep(w) \/ RaiseException(w)
  PROVE  ParamsInv'
<1>1. /\ TypeOK /\ WellFormed /\ wk[w] \in WorkerState /\ HoldsParams(w) /\ WellFormedWorker(w)
      /\ req' = req
      /\ wk[w].pc # "idle" => JobOf(w) \in Job
  BY ActingWorker, JobOfWorker
     DEF ParamsInv, WorkerStep, FetchJob, StartJob, CheckObject, ReadActions, StopKilled,
     SkipAction, BeginAction, LookUpRow, CreateRow, PerformAction, ActionRaises, Reschedule,
     CommitReschedule, SaveRescheduled, SaveAction, RaiseCycleError, LeaveLoop, RecordHistory,
     StoreObject, DumpParams, MarkJob, RaiseException
<1>2. wk[w].pc \notin {"idle", "start"} =>
        /\ \A a \in Action : Done(JobOf(w), a) => a \in wk[w].params
        /\ wk[w].mem.status = "STARTED" /\ job[JobOf(w)].status = "STARTED"
  BY <1>1 DEF HoldsParams, DoneOf
\* It stays: only what it holds has to be looked at.
<1>3. ASSUME wk[w].pc \notin {"idle", "start"}, UNCHANGED <<job, performed>>,
             wk'[w].job = wk[w].job, wk'[w].pc \notin {"idle", "start", "leave"},
             wk'[w].params = wk[w].params, wk'[w].mem.status = "STARTED",
             wk'[w].pc \in {"commit", "mark"} => wk'[w].mem.params = wk[w].params
      PROVE  ParamsInv'
  <2>. PICK j \in Job : j = JobOf(w) BY <1>1, <1>3
  <2>1. JobOf(w)' = j /\ InHand(w, j)' BY <1>3 DEF InHand, JobOf
  <2>2. \A k \in Job : k # j => ~InHand(w, k) BY DEF InHand
  <2>3. HoldsParams(w)' BY <1>2, <1>3, <2>1 DEF HoldsParams, DoneOf, Done
  <2> QED BY <1>1, <1>3, <2>1, <2>2, <2>3, ParamsHeld
<1>4. CASE FetchJob(w)
  <2>. PICK j \in Job : j = Head(queue) BY <1>1, <1>4 DEF FetchJob, TypeOK
  <2>1. wk'[w] = [IdleWorker EXCEPT !.pc = "start", !.job = j, !.mem = job[j], !.was = job[j].status]
    BY <1>1, <1>4, FetchJobType
  <2>2. wk'[w].pc = "start" /\ wk'[w].job = j /\ wk'[w].mem = job[j] BY <2>1 DEF IdleWorker
  <2>3. UNCHANGED <<job, performed>> /\ wk[w].pc = "idle" BY <1>4 DEF FetchJob
  <2>4. HoldsParams(w)' BY <2>2, <2>3 DEF HoldsParams, JobOf
  <2>5. \A v \in Worker, k \in Job : ~InHand(v, k) BY <2>3 DEF InHand, SingleWorker
  <2>6. {a \in Action : Done(j, a)'} \subseteq job'[j].params
    BY <2>3, <2>5 DEF ParamsInv, DoneOf, Done
  <2> QED BY <1>1, <2>3, <2>4, <2>5, <2>6, ParamsHeld
<1>5. CASE StartJob(w)
  <2>. PICK j \in Job : j = JobOf(w) BY <1>1, <1>5 DEF StartJob
  <2>1. wk'[w] = [wk[w] EXCEPT !.pc = "check", !.mem.status = "STARTED",
                               !.params = wk[w].mem.params]
    BY <1>1, <1>5, StartJobType
  <2>2. /\ wk'[w].pc = "check" /\ wk'[w].job = j /\ wk'[w].mem.status = "STARTED"
        /\ wk'[w].params = wk[w].mem.params
    BY <1>1, <2>1 DEF WorkerState, Row, JobOf
  <2>3. UNCHANGED performed /\ wk[w].pc = "start" BY <1>5 DEF StartJob
  <2>4. /\ \A k \in Job : k # j => job'[k] = job[k]
        /\ job'[j].status = "STARTED"
    BY <1>1, <1>5 DEF StartJob, TypeOK, WorkerState, Row
  <2>5. \A v \in Worker, k \in Job : ~InHand(v, k) BY <2>3 DEF InHand, SingleWorker
  <2>6. wk[w].mem = job[j] BY <1>1, <2>3 DEF HoldsParams
  <2>7. DoneOf(j) \subseteq wk[w].mem.params BY <2>5, <2>6 DEF ParamsInv
  <2>8. JobOf(w)' = j /\ InHand(w, j)' BY <2>2 DEF JobOf, InHand
  <2>9. HoldsParams(w)' BY <2>2, <2>3, <2>4, <2>7, <2>8 DEF HoldsParams, DoneOf, Done
  <2> QED BY <1>1, <2>3, <2>4, <2>5, <2>8, <2>9, ParamsHeld
<1>6. CASE CheckObject(w)
  <2>1. wk'[w] = IF obj[ObjOf(w)] \notin Source[TransOf(w)] THEN FailingJob(w)
                 ELSE IF is_running(wk[w].mem)
                 THEN [wk[w] EXCEPT !.pc = "read", !.snap = obj[ObjOf(w)]]
                 ELSE IdleWorker
    BY <1>1, <1>6, CheckObjectType
  <2>2. UNCHANGED <<job, performed>> /\ wk[w].pc = "check" BY <1>6 DEF CheckObject
  <2>3. is_running(wk[w].mem) BY <1>2, <2>2 DEF is_running, JOB_NOT_ENDED_STATUSES
  <2>4. /\ wk'[w].job = wk[w].job /\ wk'[w].pc \in {"dump", "read"}
        /\ wk'[w].params = wk[w].params /\ wk'[w].mem = wk[w].mem
    BY <1>1, <2>1, <2>3 DEF FailingJob, WorkerState
  <2> QED BY <1>2, <1>3, <2>2, <2>4
<1>7. CASE ReadActions(w)
  <2> DEFINE c == ActionsWith(JobOf(w), "FINISHED") \cup ActionsWith(JobOf(w), "FAILED")
  <2>1. wk'[w] = IF PreviousActionsOk(JobOf(w))
                 THEN [wk[w] EXCEPT !.pc = "loop", !.completed = c]
                 ELSE FailingJob(w)
    BY <1>1, <1>7, ReadActionsType
  <2>2. UNCHANGED <<job, performed>> /\ wk[w].pc = "read" BY <1>7 DEF ReadActions
  <2>3. /\ wk'[w].job = wk[w].job /\ wk'[w].pc \in {"dump", "loop"}
        /\ wk'[w].params = wk[w].params /\ wk'[w].mem = wk[w].mem
    BY <1>1, <2>1 DEF FailingJob, WorkerState
  <2> QED BY <1>2, <1>3, <2>2, <2>3
<1>8. CASE StopKilled(w)
  <2>1. wk[w].pc = "loop" /\ job[JobOf(w)].status = "KILLED" BY <1>8 DEF StopKilled
  <2> QED BY <1>2, <2>1
<1>9. ASSUME NEW a \in Action, SkipAction(w, a) \/ BeginAction(w, a) PROVE ParamsInv'
  <2>1. UNCHANGED <<job, performed>> /\ wk[w].pc = "loop" BY <1>9 DEF SkipAction, BeginAction
  <2>2. /\ wk'[w].job = wk[w].job /\ wk'[w].pc \in {"loop", "lookup"}
        /\ wk'[w].params = wk[w].params /\ wk'[w].mem = job[JobOf(w)]
    <3>1. CASE SkipAction(w, a)
      <4>1. wk'[w] = [wk[w] EXCEPT !.yielded = wk[w].yielded \cup {a}, !.mem = job[JobOf(w)]]
        BY <1>1, <3>1, SkipActionType
      <4> QED BY <1>1, <2>1, <4>1 DEF WorkerState
    <3>2. CASE BeginAction(w, a)
      <4>1. wk'[w] = [wk[w] EXCEPT !.pc = "lookup", !.act = a,
                                   !.yielded = wk[w].yielded \cup {a}, !.mem = job[JobOf(w)]]
        BY <1>1, <3>2, BeginActionType
      <4> QED BY <1>1, <4>1 DEF WorkerState
    <3> QED BY <1>9, <3>1, <3>2
  <2> QED BY <1>2, <1>3, <2>1, <2>2
<1>10. CASE LookUpRow(w)
  <2>1. wk'[w] = CASE Len(tja[JobOf(w)][wk[w].act]) = 0 -> [wk[w] EXCEPT !.pc = "create"]
                   [] Len(tja[JobOf(w)][wk[w].act]) = 1 ->
                        [wk[w] EXCEPT !.pc = "run", !.row = 1,
                                      !.out = tja[JobOf(w)][wk[w].act][1]]
                   [] OTHER -> FailingJob(w)
    BY <1>1, <1>10, LookUpRowType
  <2>2. UNCHANGED <<job, performed>> /\ wk[w].pc = "lookup" BY <1>10 DEF LookUpRow
  <2>3. \/ wk'[w] = [wk[w] EXCEPT !.pc = "create"]
        \/ wk'[w] = [wk[w] EXCEPT !.pc = "run", !.row = 1, !.out = tja[JobOf(w)][wk[w].act][1]]
        \/ wk'[w] = FailingJob(w)
    BY <2>1
  <2>4. /\ wk'[w].job = wk[w].job /\ wk'[w].pc \in {"create", "run", "dump"}
        /\ wk'[w].params = wk[w].params /\ wk'[w].mem = wk[w].mem
    BY <1>1, <2>3 DEF FailingJob, WorkerState
  <2> QED BY <1>2, <1>3, <2>2, <2>4
<1>11. CASE CreateRow(w) \/ ActionRaises(w) \/ SaveAction(w)
  <2>1. UNCHANGED <<job, performed>> /\ wk[w].pc \in {"create", "run", "save"}
    BY <1>11 DEF CreateRow, ActionRaises, SaveAction
  <2>2. /\ wk'[w].job = wk[w].job /\ wk'[w].pc \in {"run", "save", "loop", "dump"}
        /\ wk'[w].params = wk[w].params /\ wk'[w].mem = wk[w].mem
    <3>1. CASE CreateRow(w)
      <4>1. wk'[w] = [wk[w] EXCEPT !.pc = "run", !.out = "STARTED",
                                   !.row = Len(tja[JobOf(w)][wk[w].act]) + 1]
        BY <1>1, <3>1, CreateRowType
      <4> QED BY <1>1, <4>1 DEF WorkerState
    <3>2. CASE ActionRaises(w)
      <4>1. wk'[w] = [wk[w] EXCEPT !.pc = "save", !.out = "FAILED"]
        BY <1>1, <3>2, ActionRaisesType
      <4> QED BY <1>1, <4>1 DEF WorkerState
    <3>3. CASE SaveAction(w)
      <4>1. \/ wk'[w] = [wk[w] EXCEPT !.pc = "loop", !.completed = wk[w].completed \cup {wk[w].act},
                                      !.act = None, !.row = 0, !.out = "NONE"]
            \/ wk'[w] = [wk[w] EXCEPT !.pc = "dump"]
        BY <1>1, <3>3, SaveActionType
      <4> QED BY <1>1, <4>1 DEF WorkerState
    <3> QED BY <1>11, <3>1, <3>2, <3>3
  <2> QED BY <1>2, <1>3, <2>1, <2>2
<1>12. CASE Reschedule(w)
  <2>1. wk'[w] = [wk[w] EXCEPT !.pc = "commit", !.mem.params = wk[w].params]
    BY <1>1, <1>12, RescheduleType
  <2>2. UNCHANGED <<job, performed>> /\ wk[w].pc = "run" BY <1>12 DEF Reschedule
  <2>3. /\ wk'[w].job = wk[w].job /\ wk'[w].pc = "commit" /\ wk'[w].params = wk[w].params
        /\ wk'[w].mem.status = wk[w].mem.status /\ wk'[w].mem.params = wk[w].params
    BY <1>1, <2>1 DEF WorkerState, Row
  <2> QED BY <1>2, <1>3, <2>2, <2>3
<1>13. CASE RaiseCycleError(w) \/ LeaveLoop(w) \/ RecordHistory(w) \/ StoreObject(w)
  <2>1. UNCHANGED <<job, performed>> /\ wk[w].pc \in {"loop", "record", "store"}
    BY <1>13 DEF RaiseCycleError, LeaveLoop, RecordHistory, StoreObject
  <2>2. \/ wk'[w] = FailingJob(w)
        \/ wk'[w] = [wk[w] EXCEPT !.pc = "record"]
        \/ wk'[w] = [wk[w] EXCEPT !.pc = "store"]
        \/ wk'[w] = [wk[w] EXCEPT !.pc = "dump", !.out = "FINISHED"]
    BY <1>1, <1>13, RaiseCycleErrorType, LeaveLoopType, RecordHistoryType, StoreObjectType
  <2>3. /\ wk'[w].job = wk[w].job /\ wk'[w].pc \in {"dump", "record", "store"}
        /\ wk'[w].params = wk[w].params /\ wk'[w].mem = wk[w].mem
    BY <1>1, <2>2 DEF FailingJob, WorkerState
  <2> QED BY <1>2, <1>3, <2>1, <2>3
<1>14. CASE PerformAction(w)
  <2>. PICK j \in Job : j = JobOf(w) BY <1>1, <1>14 DEF PerformAction
  <2>. PICK a \in Action : a = wk[w].act BY <1>1, <1>14, ActOfType DEF PerformAction, InAction
  <2>1. wk'[w] = [wk[w] EXCEPT !.pc = "save", !.params = wk[w].params \cup {a},
                               !.out = IF a \in Freezing THEN "FROZEN" ELSE "FINISHED"]
    BY <1>1, <1>14, PerformActionType
  <2>2. /\ wk'[w].pc = "save" /\ wk'[w].job = j /\ wk'[w].mem = wk[w].mem
        /\ wk'[w].params = wk[w].params \cup {a}
    BY <1>1, <2>1 DEF WorkerState, JobOf
  <2>3. UNCHANGED job /\ wk[w].pc = "run" BY <1>14 DEF PerformAction
  <2>4. \A k \in Job, b \in Action : k # j \/ b # a => performed'[k][b] = performed[k][b]
    BY <1>1, <1>14 DEF PerformAction, TypeOK
  <2>5. JobOf(w)' = j /\ InHand(w, j)' BY <2>2 DEF JobOf, InHand
  <2>6. \A b \in Action : Done(j, b)' => b \in wk[w].params \cup {a}
    BY <1>2, <2>3, <2>4 DEF Done
  <2>7. HoldsParams(w)' BY <1>2, <2>2, <2>3, <2>5, <2>6 DEF HoldsParams, DoneOf
  <2>8. \A k \in Job : k # j => ~InHand(w, k) BY DEF InHand
  <2> QED BY <1>1, <2>3, <2>4, <2>5, <2>7, <2>8, ParamsHeld
<1>15. CASE CommitReschedule(w)
  <2>. PICK j \in Job : j = JobOf(w) BY <1>1, <1>15 DEF CommitReschedule
  <2>1. wk'[w] = [wk[w] EXCEPT !.pc = "leave"] BY <1>1, <1>15, CommitRescheduleType
  <2>2. /\ wk'[w].pc = "leave" /\ wk'[w].job = j /\ wk'[w].mem = wk[w].mem
        /\ wk'[w].params = wk[w].params
    BY <1>1, <2>1 DEF WorkerState, JobOf
  <2>3. UNCHANGED performed /\ wk[w].pc = "commit" BY <1>15 DEF CommitReschedule
  <2>4. (\A k \in Job : k # j => job'[k] = job[k]) /\ job'[j] = wk[w].mem
    BY <1>1, <1>15 DEF CommitReschedule, TypeOK
  <2>5. JobOf(w)' = j BY <2>2 DEF JobOf
  <2>6. wk[w].mem.params = wk[w].params BY <1>1, <2>3 DEF HoldsParams
  <2>7. \A b \in Action : Done(j, b)' => b \in wk[w].params BY <1>2, <2>3 DEF Done
  <2>8. HoldsParams(w)' BY <1>2, <2>2, <2>3, <2>4, <2>5, <2>7 DEF HoldsParams, DoneOf
  <2>9. {b \in Action : Done(j, b)'} \subseteq job'[j].params BY <2>4, <2>6, <2>7
  <2>10. \A k \in Job : k # j => ~InHand(w, k) BY DEF InHand
  <2> QED BY <1>1, <2>3, <2>4, <2>8, <2>9, <2>10, ParamsHeld
<1>16. CASE SaveRescheduled(w)
  <2>. PICK j \in Job : j = JobOf(w) BY <1>1, <1>16 DEF SaveRescheduled
  <2>1. wk'[w] = IdleWorker BY <1>1, <1>16, SaveRescheduledType
  <2>2. HoldsParams(w)' BY <2>1 DEF HoldsParams, IdleWorker
  <2>3. UNCHANGED <<job, performed>> /\ wk[w].pc = "leave" BY <1>16 DEF SaveRescheduled
  <2>4. \A v \in Worker, k \in Job : ~InHand(v, k) BY <2>3 DEF InHand, SingleWorker
  <2>5. {b \in Action : Done(j, b)'} \subseteq job'[j].params
    BY <2>3, <2>4 DEF ParamsInv, DoneOf, Done
  <2> QED BY <1>1, <2>2, <2>3, <2>4, <2>5, ParamsHeld
<1>17. CASE DumpParams(w)
  <2>. PICK j \in Job : j = JobOf(w) BY <1>1, <1>17 DEF DumpParams
  <2>1. wk'[w] = [wk[w] EXCEPT !.pc = "mark", !.mem.params = wk[w].params]
    BY <1>1, <1>17, DumpParamsType
  <2>2. /\ wk'[w].pc = "mark" /\ wk'[w].job = j /\ wk'[w].mem.status = wk[w].mem.status
        /\ wk'[w].params = wk[w].params /\ wk'[w].mem.params = wk[w].params
    BY <1>1, <2>1 DEF WorkerState, Row, JobOf
  <2>3. UNCHANGED performed /\ wk[w].pc = "dump" BY <1>17 DEF DumpParams
  <2>4. /\ \A k \in Job : k # j => job'[k] = job[k]
        /\ job'[j].status = wk[w].mem.status
    BY <1>1, <1>17 DEF DumpParams, TypeOK, WorkerState, Row
  <2>5. JobOf(w)' = j /\ InHand(w, j)' BY <2>2 DEF JobOf, InHand
  <2>6. HoldsParams(w)' BY <1>2, <2>2, <2>3, <2>4, <2>5 DEF HoldsParams, DoneOf, Done
  <2>7. \A k \in Job : k # j => ~InHand(w, k) BY DEF InHand
  <2> QED BY <1>1, <2>3, <2>4, <2>5, <2>6, <2>7, ParamsHeld
<1>18. CASE MarkJob(w)
  <2>. PICK j \in Job : j = JobOf(w) BY <1>1, <1>18 DEF MarkJob
  <2>1. wk'[w] = IdleWorker BY <1>1, <1>18, MarkJobType
  <2>2. HoldsParams(w)' BY <2>1 DEF HoldsParams, IdleWorker
  <2>3. UNCHANGED performed /\ wk[w].pc = "mark" BY <1>18 DEF MarkJob
  <2>4. /\ \A k \in Job : k # j => job'[k] = job[k]
        /\ job'[j].params = wk[w].mem.params
    BY <1>1, <1>18 DEF MarkJob, TypeOK, WorkerState, Row
  <2>5. wk[w].mem.params = wk[w].params BY <1>1, <2>3 DEF HoldsParams
  <2>6. {b \in Action : Done(j, b)'} \subseteq job'[j].params
    BY <1>2, <2>3, <2>4, <2>5 DEF Done
  <2>7. \A k \in Job : k # j => ~InHand(w, k) BY DEF InHand
  <2> QED BY <1>1, <2>2, <2>3, <2>4, <2>6, <2>7, ParamsHeld
<1>19. CASE RaiseException(w)
  <2>1. UNCHANGED <<job, performed>> /\ wk[w].pc \notin {"idle", "start"}
    BY <1>19 DEF RaiseException
  <2>2. \/ wk'[w] = FailingJob(w)
        \/ wk'[w] = [wk[w] EXCEPT !.pc = "save", !.out = "FAILED"]
    BY <1>1, <1>19, RaiseExceptionType
  <2>3. /\ wk'[w].job = wk[w].job /\ wk'[w].pc \in {"dump", "save"}
        /\ wk'[w].params = wk[w].params /\ wk'[w].mem = wk[w].mem
    BY <1>1, <2>2 DEF FailingJob, WorkerState
  <2> QED BY <1>2, <1>3, <2>1, <2>3
<1> QED BY <1>4, <1>5, <1>6, <1>7, <1>8, <1>9, <1>10, <1>11, <1>12, <1>13, <1>14, <1>15, <1>16,
       <1>17, <1>18, <1>19 DEF WorkerStep

\* Requests create rows and kill jobs; nobody kills here.
LEMMA RequestsHold ==
  ASSUME KillRequest = {}, IInv, ParamsInv, NEW r \in Request,
         RequestStep(r) \/ AbandonRequest(r)
  PROVE  ParamsInv'
<1>1. UNCHANGED <<wk, performed>> /\ TypeOK
  BY DEF RequestStep, FetchObjects, CheckInstances, RejectRequest, CreateJob, EnqueueJob,
     RunSynchronously, FailSynchronously, FetchJobToKill, KillJob, MarkAsDone, Unfreeze,
     AbandonRequest, IInv
<1>2. req[r].pc # "kill" /\ r \notin KillRequest BY DEF ParamsInv
<1>3. req[r] \in RequestState BY <1>1 DEF TypeOK
<1>4. (\A q \in Request : q # r => req'[q] = req[q]) /\ req'[r].pc # "kill"
  <2>1. CASE FetchObjects(r)
    BY <1>1, <2>1, NewRequestType DEF FetchObjects, TypeOK, NewRequest
  <2>2. CASE RejectRequest(r) \/ RunSynchronously(r) \/ FailSynchronously(r) \/ Unfreeze(r)
             \/ AbandonRequest(r)
    BY <1>1, <2>2 DEF RejectRequest, RunSynchronously, FailSynchronously, Unfreeze,
       AbandonRequest, TypeOK, Finished, NewRequest
  <2>3. CASE CheckInstances(r) \/ EnqueueJob(r)
    BY <1>1, <1>3, <2>3 DEF CheckInstances, EnqueueJob, TypeOK, Finished, NewRequest, RequestState
  <2>4. CASE CreateJob(r) BY <1>1, <1>3, <2>4 DEF CreateJob, TypeOK, RequestState
  <2>5. CASE MarkAsDone(r)
    BY <1>1, <1>3, <2>5 DEF MarkAsDone, TypeOK, Finished, NewRequest, RequestState
  <2> QED BY <1>2, <2>1, <2>2, <2>3, <2>4, <2>5 DEF RequestStep, FetchJobToKill, KillJob
<1>5. \A k \in Job : job'[k] = job[k] \/ ~Exists(k)
  <2>1. CASE CreateJob(r) BY <1>1, <2>1 DEF CreateJob, TypeOK
  <2> QED BY <1>2, <2>1 DEF RequestStep, FetchObjects, CheckInstances, RejectRequest, EnqueueJob,
       RunSynchronously, FailSynchronously, FetchJobToKill, KillJob, MarkAsDone, Unfreeze,
       AbandonRequest
<1>6. ASSUME NEW k \in Job, \A w \in Worker : ~InHand(w, k)'
      PROVE  {a \in Action : Done(k, a)'} \subseteq job'[k].params
  <2>1. \A a \in Action : Done(k, a)' <=> Done(k, a) BY <1>1 DEF Done
  <2>2. CASE ~Exists(k) BY <2>1, <2>2 DEF IInv, WellFormed, WellFormedRows
  <2>3. CASE job'[k] = job[k]
    <3>1. \A w \in Worker : ~InHand(w, k) BY <1>1, <1>6 DEF InHand, JobOf
    <3> QED BY <2>1, <2>3, <3>1 DEF ParamsInv, DoneOf
  <2> QED BY <1>5, <2>2, <2>3
<1>7. ASSUME NEW w \in Worker PROVE HoldsParams(w)'
  <2>1. HoldsParams(w) BY DEF ParamsInv
  <2>2. CASE wk[w].pc = "idle" BY <1>1, <2>2 DEF HoldsParams
  <2>3. CASE wk[w].pc # "idle"
    <3>1. JobOf(w) \in Job /\ Exists(JobOf(w)) BY <2>3, JobOfWorker
    <3>2. job'[JobOf(w)] = job[JobOf(w)] BY <1>5, <3>1
    <3> QED BY <1>1, <2>1, <3>2 DEF HoldsParams, DoneOf, Done, JobOf
  <2> QED BY <2>2, <2>3
<1>8. \A q \in Request : req'[q].pc # "kill" BY <1>4 DEF ParamsInv
<1> QED BY <1>6, <1>7, <1>8 DEF ParamsInv, DoneOf

LEMMA ParamsStep ==
  ASSUME SingleWorker, MaxCrashes = 0, KillRequest = {}, IInv, ParamsInv, [Next]_vars
  PROVE  ParamsInv'
<1>1. CASE UNCHANGED vars
  BY <1>1 DEF vars, ParamsInv, HoldsParams, DoneOf, Done, InHand, JobOf
<1>2. ASSUME NEW w \in Worker, CrashWorker(w) PROVE FALSE
  BY <1>2 DEF CrashWorker, IInv, TypeOK
<1> QED BY <1>1, <1>2, WorkerHolds, RequestsHold DEF Next

LEMMA InitiallyParamsInv == Init => ParamsInv
<1> SUFFICES ASSUME Init PROVE ParamsInv OBVIOUS
<1>1. /\ \A j \in Job, a \in Action : performed[j][a] = 0
      /\ \A r \in Request : req[r].pc = "new"
      /\ \A w \in Worker : wk[w].pc = "idle"
  BY DEF Init, NewRequest, IdleWorker
<1> QED BY <1>1 DEF ParamsInv, HoldsParams, DoneOf, Done

\* _update_dumped_params and _restore_params: with a single worker that does not die
\* and no kill, the history entry is made from what every action of the transition
\* contributed, in whichever run of the job it was carried out, exceptions or not.
THEOREM HistoryIsCompleteAlways ==
  ASSUME SingleWorker, MaxCrashes = 0, KillRequest = {} PROVE Spec => []HistoryIsComplete
<1>1. Init => ParamsInv BY InitiallyParamsInv
<1>2. IInv /\ ParamsInv /\ [Next]_vars => ParamsInv' BY ParamsStep
<1>3. IInv /\ ParamsInv => HistoryIsComplete
  <2> SUFFICES ASSUME IInv, ParamsInv, NEW w \in Worker, wk[w].pc = "record"
               PROVE  ActsOf(w) \subseteq wk[w].params
    BY DEF HistoryIsComplete
  <2>1. ActsOf(w) \subseteq Action BY JobOfWorker
  <2>2. \A a \in ActsOf(w) : Done(JobOf(w), a) BY ActingWorker DEF WorkerIsRight
  <2> QED BY <2>1, <2>2 DEF ParamsInv, HoldsParams, DoneOf
<1> QED BY <1>1, <1>2, <1>3, Invariance, PTL DEF Spec
=============================================================================
