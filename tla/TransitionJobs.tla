---------------------------- MODULE TransitionJobs ----------------------------
(***************************************************************************)
(* Asynchronous transitions: the job rows of ralph.lib.external_services,  *)
(* the RQ queue they are handed over through, the web requests that check, *)
(* create, kill and unfreeze them, and the workers that execute            *)
(* ralph.lib.transitions.async step by step.                               *)
(*                                                                         *)
(* Every step of a request or of a worker is one access to what they       *)
(* share: the database in autocommit mode, where Job.save() writes the     *)
(* whole row it holds in memory, or the queue.  Between two steps anything *)
(* else may happen.                                                        *)
(***************************************************************************)
EXTENDS Integers, Sequences, FiniteSets

CONSTANTS
  Object,          \* the assets transitions are run on
  Status,          \* the values of their status field
  Transition,      \* the configured transitions ...
  Action,          \* ... and the actions they are made of
  Job,             \* the identifiers (UUIDs) of job rows
  Worker,          \* the RQ worker processes
  RunRequest,      \* web requests that run a transition,
  KillRequest,     \* that kill a job,
  PingRequest,     \* and that report a deployment as done
  None,            \* no transition, object or job
  Keep,            \* TRANSITION_ORIGINAL_STATUS, as the target of a transition
  Actions,         \* the actions selected for a transition
  RunAfter,        \* run_after of an action
  Source, Target,  \* Transition.source and Transition.target
  Async,           \* the transitions for which is_async holds
  Freezing,        \* actions that raise FreezeAsyncTransition
  Waiting,         \* actions that may raise RescheduleAsyncTransitionActionLater
  NoSave,          \* actions with disable_save_object
  Exceptions,      \* do exceptions occur outside of actions?
  MaxReschedules,  \* bound: how often an action is rescheduled, in all
  MaxCrashes       \* bound: how often a process dies, in all

Request == RunRequest \cup KillRequest \cup PingRequest

ASSUME ConfigAssumption ==
  /\ Actions \in [Transition -> SUBSET Action]
  /\ RunAfter \in [Action -> SUBSET Action]
  /\ Source \in [Transition -> SUBSET Status]
  /\ Target \in [Transition -> Status \cup {Keep}]
  /\ Async \subseteq Transition
  /\ Freezing \subseteq Action /\ Waiting \subseteq Action /\ NoSave \subseteq Action
  /\ None \notin Job \cup Object \cup Transition \cup Action \cup Status
  /\ Keep \notin Status
  /\ Exceptions \in BOOLEAN
  /\ MaxReschedules \in Nat /\ MaxCrashes \in Nat

VARIABLES
  job,          \* the committed job rows: status and dumped params
  about,        \* the object and the transition of a job row
  tja,          \* the statuses of the TransitionJobAction rows of a job's action
  obj,          \* the status field of the objects
  queue,        \* the job ids in the RQ queue
  req,          \* the web requests
  wk,           \* the workers
  performed,    \* how often an action of a job was carried out and committed
  history,      \* how many TransitionsHistory rows a job has written
  reschedules, crashes

vars == <<job, about, tja, obj, queue, req, wk, performed, history,
          reschedules, crashes>>

-----------------------------------------------------------------------------
(* Rows, requests and workers *)

JobStatus == {"QUEUED", "FINISHED", "FAILED", "STARTED", "FROZEN", "KILLED"}
JOB_NOT_ENDED_STATUSES == {"QUEUED", "STARTED", "FROZEN"}
TransitionJobActionStatus == {"STARTED", "FINISHED", "FAILED"}

\* history_kwargs and shared_params are abstracted to the set of the actions
\* whose contribution they hold.
Row == [status : JobStatus \cup {"ABSENT"}, params : SUBSET Action]
NoRow == [status |-> "ABSENT", params |-> {}]

NewRequest == [pc |-> "new", trans |-> None, snap |-> [o \in Object |-> None],
               todo |-> {}, job |-> None, row |-> NoRow]
Finished == [NewRequest EXCEPT !.pc = "done"]

IdleWorker == [pc |-> "idle", job |-> None, was |-> "ABSENT", mem |-> NoRow,
               params |-> {}, snap |-> None, yielded |-> {}, completed |-> {},
               act |-> None, row |-> 0, out |-> "NONE"]

RequestPc == {"new", "check", "create", "enqueue", "sync", "kill", "unfreeze", "done"}
WorkerPc == {"idle", "start", "check", "read", "loop", "lookup", "create", "run",
             "commit", "leave", "save", "dump", "mark", "record", "store"}

RequestState == [pc : RequestPc, trans : Transition \cup {None},
                 snap : [Object -> Status \cup {None}], todo : SUBSET Object,
                 job : Job \cup {None}, row : Row]
WorkerState == [pc : WorkerPc, job : Job \cup {None}, was : JobStatus \cup {"ABSENT"},
                mem : Row, params : SUBSET Action, snap : Status \cup {None},
                yielded : SUBSET Action, completed : SUBSET Action,
                act : Action \cup {None}, row : Nat, out : JobStatus \cup {"NONE"}]

TypeOK ==
  /\ job \in [Job -> Row]
  /\ about \in [Job -> [obj : Object \cup {None}, trans : Transition \cup {None}]]
  /\ tja \in [Job -> [Action -> Seq(TransitionJobActionStatus)]]
  /\ obj \in [Object -> Status]
  /\ queue \in Seq(Job)
  /\ req \in [Request -> RequestState]
  /\ wk \in [Worker -> WorkerState]
  /\ performed \in [Job -> [Action -> Nat]]
  /\ history \in [Job -> Nat]
  /\ reschedules \in Nat /\ crashes \in Nat

Exists(j) == job[j].status # "ABSENT"
is_running(row) == row.status \in JOB_NOT_ENDED_STATUSES

\* What a worker is working on.
JobOf(w) == wk[w].job
TransOf(w) == about[JobOf(w)].trans
ObjOf(w) == about[JobOf(w)].obj
ActsOf(w) == Actions[TransOf(w)]

Init ==
  /\ job = [j \in Job |-> NoRow]
  /\ about = [j \in Job |-> [obj |-> None, trans |-> None]]
  /\ tja = [j \in Job |-> [a \in Action |-> <<>>]]
  /\ obj \in [Object -> Status]
  /\ queue = <<>>
  /\ req = [r \in Request |-> NewRequest]
  /\ wk = [w \in Worker |-> IdleWorker]
  /\ performed = [j \in Job |-> [a \in Action |-> 0]]
  /\ history = [j \in Job |-> 0]
  /\ reschedules = 0 /\ crashes = 0

-----------------------------------------------------------------------------
(* Web requests *)

\* Only the transaction a rescheduling action runs in holds a row lock across
\* steps: whoever wants to write the same row waits for its commit.
RowLocked(j) == \E w \in Worker : wk[w].pc = "commit" /\ JobOf(w) = j

\* Does _check_instances_for_transition find an active job of the object?
HasActiveJob(o) == \E j \in Job : about[j].obj = o /\ is_running(job[j])

\* dispatch: the objects are fetched, and never again in this request.
FetchObjects(r) ==
  /\ r \in RunRequest /\ req[r].pc = "new"
  /\ \E t \in Transition, S \in (SUBSET Object) \ {{}} :
       req' = [req EXCEPT ![r] =
                 [NewRequest EXCEPT !.pc = "check", !.trans = t, !.todo = S,
                    !.snap = [o \in Object |-> IF o \in S THEN obj[o] ELSE None]]]
  /\ UNCHANGED <<job, about, tja, obj, queue, wk, performed, history,
                 reschedules, crashes>>

Allowed(r) ==
  LET t == req[r].trans IN
  /\ \A o \in req[r].todo : req[r].snap[o] \in Source[t]
  /\ t \in Async => \A o \in req[r].todo : ~HasActiveJob(o)

\* post: _check_instances_for_transition and the validation of the form.
CheckInstances(r) ==
  /\ req[r].pc = "check" /\ Allowed(r)
  /\ req' = [req EXCEPT ![r].pc = IF req[r].trans \in Async THEN "create" ELSE "sync"]
  /\ UNCHANGED <<job, about, tja, obj, queue, wk, performed, history,
                 reschedules, crashes>>

\* A wrong status, another job, a precondition of an action or a form field.
RejectRequest(r) ==
  /\ req[r].pc = "check"
  /\ req' = [req EXCEPT ![r] = Finished]
  /\ UNCHANGED <<job, about, tja, obj, queue, wk, performed, history,
                 reschedules, crashes>>

\* Mutant: without transaction.commit the row is not there for a worker.
CreateJobUncommitted(r) ==
  /\ req[r].pc = "create"
  /\ \E o \in req[r].todo, j \in Job :
       /\ ~Exists(j)
       /\ about' = [about EXCEPT ![j] = [obj |-> o, trans |-> req[r].trans]]
       /\ req' = [req EXCEPT ![r] = [@ EXCEPT !.pc = "enqueue", !.job = j,
                                              !.todo = req[r].todo \ {o}]]
  /\ UNCHANGED <<job, tja, obj, queue, wk, performed, history, reschedules, crashes>>

\* TransitionJob.run for the next instance: the row is created and committed ...
CreateJob(r) ==
  /\ req[r].pc = "create"
  /\ \E o \in req[r].todo, j \in Job :
       /\ ~Exists(j)
       /\ job' = [job EXCEPT ![j] = [status |-> "QUEUED", params |-> {}]]
       /\ about' = [about EXCEPT ![j] = [obj |-> o, trans |-> req[r].trans]]
       /\ req' = [req EXCEPT ![r] = [@ EXCEPT !.pc = "enqueue", !.job = j,
                                              !.todo = req[r].todo \ {o}]]
  /\ UNCHANGED <<tja, obj, queue, wk, performed, history, reschedules, crashes>>

\* ... and its id is put into the queue.
EnqueueJob(r) ==
  /\ req[r].pc = "enqueue"
  /\ queue' = Append(queue, req[r].job)
  /\ req' = [req EXCEPT ![r] = IF req[r].todo = {} THEN Finished
                               ELSE [@ EXCEPT !.pc = "create", !.job = None]]
  /\ UNCHANGED <<job, about, tja, obj, wk, performed, history, reschedules, crashes>>

\* The status of object o after _post_transition_instance_processing, when the
\* instance in memory was read with status s: the whole instance is saved.
StoredStatus(t, o, s) ==
  IF Actions[t] \cap NoSave # {} THEN obj[o]
  ELSE IF Target[t] = Keep THEN s ELSE Target[t]

\* run_field_transition, in one database transaction: the objects are saved as
\* they were fetched, with the target status.
RunSynchronously(r) ==
  /\ req[r].pc = "sync"
  /\ obj' = [o \in Object |-> IF o \in req[r].todo
                               THEN StoredStatus(req[r].trans, o, req[r].snap[o])
                               ELSE obj[o]]
  /\ req' = [req EXCEPT ![r] = Finished]
  /\ UNCHANGED <<job, about, tja, queue, wk, performed, history, reschedules, crashes>>

\* An action raises: run_field_transition returns False and saves no object.
FailSynchronously(r) ==
  /\ req[r].pc = "sync"
  /\ req' = [req EXCEPT ![r] = Finished]
  /\ UNCHANGED <<job, about, tja, obj, queue, wk, performed, history,
                 reschedules, crashes>>

\* KillTransitionJobView: the row is fetched ...
FetchJobToKill(r) ==
  /\ r \in KillRequest /\ req[r].pc = "new"
  /\ \E j \in Job :
       /\ Exists(j)
       /\ req' = [req EXCEPT ![r] = [@ EXCEPT !.pc = "kill", !.job = j, !.row = job[j]]]
  /\ UNCHANGED <<job, about, tja, obj, queue, wk, performed, history,
                 reschedules, crashes>>

\* ... and saved as killed, whatever happened to it since.
KillJob(r) ==
  /\ req[r].pc = "kill" /\ ~RowLocked(req[r].job)
  /\ job' = [job EXCEPT ![req[r].job] = [req[r].row EXCEPT !.status = "KILLED"]]
  /\ req' = [req EXCEPT ![r] = Finished]
  /\ UNCHANGED <<about, tja, obj, queue, wk, performed, history, reschedules, crashes>>

\* done_ping: a deployment is a job whose transition has a freezing action.
IsDeployment(j) == Exists(j) /\ Actions[about[j].trans] \cap Freezing # {}

MarkAsDone(r) ==
  /\ r \in PingRequest /\ req[r].pc = "new"
  /\ \E j \in Job :
       /\ IsDeployment(j)
       /\ req' = [req EXCEPT ![r] = IF job[j].status = "FROZEN"
                                    THEN [@ EXCEPT !.pc = "unfreeze", !.job = j]
                                    ELSE Finished]
  /\ UNCHANGED <<job, about, tja, obj, queue, wk, performed, history,
                 reschedules, crashes>>

Unfreeze(r) ==
  /\ req[r].pc = "unfreeze"
  /\ queue' = Append(queue, req[r].job)
  /\ req' = [req EXCEPT ![r] = Finished]
  /\ UNCHANGED <<job, about, tja, obj, wk, performed, history, reschedules, crashes>>

\* The web process dies, or the queue cannot be reached.
AbandonRequest(r) ==
  /\ req[r].pc \in {"create", "enqueue", "unfreeze"} /\ crashes < MaxCrashes
  /\ crashes' = crashes + 1
  /\ req' = [req EXCEPT ![r] = Finished]
  /\ UNCHANGED <<job, about, tja, obj, queue, wk, performed, history, reschedules>>

-----------------------------------------------------------------------------
(* Workers *)

\* RQ pops a job id and run_async_transition fetches the row.
FetchJob(w) ==
  /\ wk[w].pc = "idle" /\ queue # <<>>
  /\ queue' = Tail(queue)
  /\ wk' = [wk EXCEPT ![w] = [IdleWorker EXCEPT !.pc = "start", !.job = Head(queue),
                                !.mem = job[Head(queue)],
                                !.was = job[Head(queue)].status]]
  /\ UNCHANGED <<job, about, tja, obj, req, performed, history, reschedules, crashes>>

\* Job.start: whatever the row says by now, it says STARTED afterwards.
StartJob(w) ==
  /\ wk[w].pc = "start" /\ ~RowLocked(JobOf(w))
  /\ job' = [job EXCEPT ![JobOf(w)] = [wk[w].mem EXCEPT !.status = "STARTED"]]
  /\ wk' = [wk EXCEPT ![w] = [@ EXCEPT !.pc = "check", !.mem.status = "STARTED",
                                       !.params = wk[w].mem.params]]
  /\ UNCHANGED <<about, tja, obj, queue, req, performed, history, reschedules, crashes>>

\* Mutant: run_async_transition lets the exception out without Job.fail.
UncaughtFailure(w) == IdleWorker

\* Any exception ends in Job.fail, which dumps the params and then sets FAILED.
FailingJob(w) == [wk[w] EXCEPT !.pc = "dump", !.out = "FAILED"]

\* The object is read and must still have a source status of the transition.
CheckObject(w) ==
  /\ wk[w].pc = "check"
  /\ wk' = [wk EXCEPT ![w] =
              IF obj[ObjOf(w)] \notin Source[TransOf(w)] THEN FailingJob(w)
              ELSE IF is_running(wk[w].mem) THEN [@ EXCEPT !.pc = "read",
                                                           !.snap = obj[ObjOf(w)]]
              ELSE IdleWorker]
  /\ UNCHANGED <<job, about, tja, obj, queue, req, performed, history,
                 reschedules, crashes>>

\* The actions of job j that have a row with status s.
ActionsWith(j, s) == {a \in Action : \E i \in DOMAIN tja[j][a] : tja[j][a][i] = s}

\* Mutant: only the number of started actions is checked.
PreviousActionsStarted(j) ==
  \A a, b \in ActionsWith(j, "STARTED") :
    /\ a = b
    /\ \A i, k \in DOMAIN tja[j][a] :
         tja[j][a][i] = "STARTED" /\ tja[j][a][k] = "STARTED" => i = k

\* _check_previous_actions: none has failed and at most one row is started.
PreviousActionsOk(j) ==
  /\ ActionsWith(j, "FAILED") = {}
  /\ \A a, b \in ActionsWith(j, "STARTED") :
       /\ a = b
       /\ \A i, k \in DOMAIN tja[j][a] :
            tja[j][a][i] = "STARTED" /\ tja[j][a][k] = "STARTED" => i = k

\* Mutant: a started action counts as completed.
ReadActionsStartedDone(w) ==
  /\ wk[w].pc = "read"
  /\ wk' = [wk EXCEPT ![w] =
              IF PreviousActionsOk(JobOf(w))
              THEN [@ EXCEPT !.pc = "loop",
                             !.completed = {a \in Action : tja[JobOf(w)][a] # <<>>}]
              ELSE FailingJob(w)]
  /\ UNCHANGED <<job, about, tja, obj, queue, req, performed, history,
                 reschedules, crashes>>

\* Mutant: completed actions are not skipped when a job is resumed.
ReadActionsForgetful(w) ==
  /\ wk[w].pc = "read"
  /\ wk' = [wk EXCEPT ![w] = IF PreviousActionsOk(JobOf(w))
                             THEN [@ EXCEPT !.pc = "loop"] ELSE FailingJob(w)]
  /\ UNCHANGED <<job, about, tja, obj, queue, req, performed, history,
                 reschedules, crashes>>

ReadActions(w) ==
  /\ wk[w].pc = "read"
  /\ wk' = [wk EXCEPT ![w] =
              IF PreviousActionsOk(JobOf(w))
              THEN [@ EXCEPT !.pc = "loop",
                             !.completed = ActionsWith(JobOf(w), "FINISHED")
                                           \cup ActionsWith(JobOf(w), "FAILED")]
              ELSE FailingJob(w)]
  /\ UNCHANGED <<job, about, tja, obj, queue, req, performed, history,
                 reschedules, crashes>>

\* Mutant: run_after is ignored.
ReadyAnyOrder(t, a, y) == a \in Actions[t] \ y

\* _sort_graph_topologically has taken the actions in y from the graph of
\* transition t: may it yield a next?  A requirement that is not selected for
\* the transition has no node, and orders nothing.
Ready(t, a, y) == a \in Actions[t] \ y /\ RunAfter[a] \cap Actions[t] \subseteq y

\* The head of the loop: an action is yielded and the row is refreshed (but not
\* the params, which were restored once).
StopKilled(w) ==
  /\ wk[w].pc = "loop" /\ \E a \in Action : Ready(TransOf(w), a, wk[w].yielded)
  /\ job[JobOf(w)].status = "KILLED"
  /\ wk' = [wk EXCEPT ![w] = IdleWorker]
  /\ UNCHANGED <<job, about, tja, obj, queue, req, performed, history,
                 reschedules, crashes>>

SkipAction(w, a) ==
  /\ wk[w].pc = "loop" /\ Ready(TransOf(w), a, wk[w].yielded)
  /\ job[JobOf(w)].status # "KILLED"
  /\ a \in wk[w].completed
  /\ wk' = [wk EXCEPT ![w] = [@ EXCEPT !.yielded = wk[w].yielded \cup {a}, !.mem = job[JobOf(w)]]]
  /\ UNCHANGED <<job, about, tja, obj, queue, req, performed, history,
                 reschedules, crashes>>

BeginAction(w, a) ==
  /\ wk[w].pc = "loop" /\ Ready(TransOf(w), a, wk[w].yielded)
  /\ job[JobOf(w)].status # "KILLED"
  /\ a \notin wk[w].completed
  /\ wk' = [wk EXCEPT ![w] = [@ EXCEPT !.pc = "lookup", !.act = a,
                                       !.yielded = wk[w].yielded \cup {a}, !.mem = job[JobOf(w)]]]
  /\ UNCHANGED <<job, about, tja, obj, queue, req, performed, history,
                 reschedules, crashes>>

\* TransitionJobAction.objects.get_or_create: no constraint keeps the rows
\* unique, so two workers may both create one.
LookUpRow(w) ==
  /\ wk[w].pc = "lookup"
  /\ wk' = [wk EXCEPT ![w] =
              CASE Len(tja[JobOf(w)][wk[w].act]) = 0 -> [@ EXCEPT !.pc = "create"]
                [] Len(tja[JobOf(w)][wk[w].act]) = 1 ->
                     [@ EXCEPT !.pc = "run", !.row = 1, !.out = tja[JobOf(w)][wk[w].act][1]]
                [] OTHER -> FailingJob(w)]
  /\ UNCHANGED <<job, about, tja, obj, queue, req, performed, history,
                 reschedules, crashes>>

CreateRow(w) ==
  /\ wk[w].pc = "create"
  /\ tja' = [tja EXCEPT ![JobOf(w)][wk[w].act] = Append(@, "STARTED")]
  /\ wk' = [wk EXCEPT ![w] = [@ EXCEPT !.pc = "run", !.out = "STARTED",
                                !.row = Len(tja[JobOf(w)][wk[w].act]) + 1]]
  /\ UNCHANGED <<job, about, obj, queue, req, performed, history, reschedules, crashes>>

\* The action is carried out in a transaction of its own: it returns, or raises
\* FreezeAsyncTransition, and what it did is committed.
PerformAction(w) ==
  /\ wk[w].pc = "run"
  /\ performed' = [performed EXCEPT ![JobOf(w)][wk[w].act] = @ + 1]
  /\ wk' = [wk EXCEPT ![w] =
              [@ EXCEPT !.pc = "save", !.params = wk[w].params \cup {wk[w].act},
                        !.out = IF wk[w].act \in Freezing THEN "FROZEN" ELSE "FINISHED"]]
  /\ UNCHANGED <<job, about, tja, obj, queue, req, history, reschedules, crashes>>

\* It raises anything else and is rolled back.
ActionRaises(w) ==
  /\ wk[w].pc = "run"
  /\ wk' = [wk EXCEPT ![w] = [@ EXCEPT !.pc = "save", !.out = "FAILED"]]
  /\ UNCHANGED <<job, about, tja, obj, queue, req, performed, history,
                 reschedules, crashes>>

\* Mutant: the job is saved but not enqueued again.
RescheduleUnqueued(w) ==
  /\ wk[w].pc = "run" /\ wk[w].act \in Waiting /\ reschedules < MaxReschedules
  /\ ~RowLocked(JobOf(w))
  /\ reschedules' = reschedules + 1
  /\ wk' = [wk EXCEPT ![w] = [@ EXCEPT !.pc = "commit", !.mem.params = wk[w].params]]
  /\ UNCHANGED <<job, about, tja, obj, queue, req, performed, history, crashes>>

\* It raises RescheduleAsyncTransitionActionLater: Job.reschedule saves the row
\* and enqueues the job while the transaction of the action is still open.
Reschedule(w) ==
  /\ wk[w].pc = "run" /\ wk[w].act \in Waiting /\ reschedules < MaxReschedules
  /\ ~RowLocked(JobOf(w))
  /\ queue' = Append(queue, JobOf(w))
  /\ reschedules' = reschedules + 1
  /\ wk' = [wk EXCEPT ![w] = [@ EXCEPT !.pc = "commit", !.mem.params = wk[w].params]]
  /\ UNCHANGED <<job, about, tja, obj, req, performed, history, crashes>>

CommitReschedule(w) ==
  /\ wk[w].pc = "commit"
  /\ job' = [job EXCEPT ![JobOf(w)] = wk[w].mem]
  /\ wk' = [wk EXCEPT ![w] = [@ EXCEPT !.pc = "leave"]]
  /\ UNCHANGED <<about, tja, obj, queue, req, performed, history, reschedules, crashes>>

\* Mutant: the status of the job is stored for the action.
ActionStatusOfJob(out) == out

\* The finally clause saves the row of the action.  FROZEN is not a status of
\* an action: a freezing action counts as finished.
ActionStatus(out) == IF out = "FROZEN" THEN "FINISHED" ELSE out

SaveAction(w) ==
  /\ wk[w].pc = "save"
  /\ tja' = [tja EXCEPT ![JobOf(w)][wk[w].act][wk[w].row] = ActionStatus(wk[w].out)]
  /\ wk' = [wk EXCEPT ![w] =
              CASE wk[w].out = "FINISHED" ->
                     [@ EXCEPT !.pc = "loop", !.completed = wk[w].completed \cup {wk[w].act},
                               !.act = None, !.row = 0, !.out = "NONE"]
                [] OTHER -> [@ EXCEPT !.pc = "dump"]]  \* failed or frozen
  /\ UNCHANGED <<job, about, obj, queue, req, performed, history, reschedules, crashes>>

\* After a reschedule the row is saved as it was found.
SaveRescheduled(w) ==
  /\ wk[w].pc = "leave"
  /\ tja' = [tja EXCEPT ![JobOf(w)][wk[w].act][wk[w].row] = wk[w].out]
  /\ wk' = [wk EXCEPT ![w] = IdleWorker]
  /\ UNCHANGED <<job, about, obj, queue, req, performed, history, reschedules, crashes>>

\* The generator is exhausted without having yielded every action: CycleError.
RaiseCycleError(w) ==
  /\ wk[w].pc = "loop" /\ wk[w].yielded # ActsOf(w)
  /\ \A a \in Action : ~Ready(TransOf(w), a, wk[w].yielded)
  /\ wk' = [wk EXCEPT ![w] = FailingJob(w)]
  /\ UNCHANGED <<job, about, tja, obj, queue, req, performed, history,
                 reschedules, crashes>>

\* Mutant: the loop ends with the first action that is done.
LeaveLoopEarly(w) ==
  /\ wk[w].pc = "loop" /\ wk[w].yielded # {}
  /\ wk' = [wk EXCEPT ![w].pc = "record"]
  /\ UNCHANGED <<job, about, tja, obj, queue, req, performed, history,
                 reschedules, crashes>>

\* Mutant: the object is saved without a history entry.
LeaveLoopUnrecorded(w) ==
  /\ wk[w].pc = "loop" /\ wk[w].yielded = ActsOf(w)
  /\ wk' = [wk EXCEPT ![w].pc = "store"]
  /\ UNCHANGED <<job, about, tja, obj, queue, req, performed, history,
                 reschedules, crashes>>

LeaveLoop(w) ==
  /\ wk[w].pc = "loop" /\ wk[w].yielded = ActsOf(w)
  /\ wk' = [wk EXCEPT ![w].pc = "record"]
  /\ UNCHANGED <<job, about, tja, obj, queue, req, performed, history,
                 reschedules, crashes>>

\* _post_transition_instance_processing writes a history entry ...
RecordHistory(w) ==
  /\ wk[w].pc = "record"
  /\ history' = [history EXCEPT ![JobOf(w)] = @ + 1]
  /\ wk' = [wk EXCEPT ![w].pc = "store"]
  /\ UNCHANGED <<job, about, tja, obj, queue, req, performed, reschedules, crashes>>

\* ... and saves the object as it was read when the worker started.
StoreObject(w) ==
  /\ wk[w].pc = "store"
  /\ obj' = [obj EXCEPT ![ObjOf(w)] = StoredStatus(TransOf(w), ObjOf(w), wk[w].snap)]
  /\ wk' = [wk EXCEPT ![w] = [@ EXCEPT !.pc = "dump", !.out = "FINISHED"]]
  /\ UNCHANGED <<job, about, tja, queue, req, performed, history, reschedules, crashes>>

\* Mutant: the row is saved without dumping the params.
DumpNothing(w) ==
  /\ wk[w].pc = "dump" /\ ~RowLocked(JobOf(w))
  /\ job' = [job EXCEPT ![JobOf(w)] = wk[w].mem]
  /\ wk' = [wk EXCEPT ![w].pc = "mark"]
  /\ UNCHANGED <<about, tja, obj, queue, req, performed, history, reschedules, crashes>>

\* Job.freeze, Job.fail and Job.success: _update_dumped_params saves the row,
\* with the status it had when it was last read ...
DumpParams(w) ==
  /\ wk[w].pc = "dump" /\ ~RowLocked(JobOf(w))
  /\ job' = [job EXCEPT ![JobOf(w)] = [wk[w].mem EXCEPT !.params = wk[w].params]]
  /\ wk' = [wk EXCEPT ![w] = [@ EXCEPT !.pc = "mark", !.mem.params = wk[w].params]]
  /\ UNCHANGED <<about, tja, obj, queue, req, performed, history, reschedules, crashes>>

\* ... and then the new status is saved.
MarkJob(w) ==
  /\ wk[w].pc = "mark" /\ ~RowLocked(JobOf(w))
  /\ job' = [job EXCEPT ![JobOf(w)] = [wk[w].mem EXCEPT !.status = wk[w].out]]
  /\ wk' = [wk EXCEPT ![w] = IdleWorker]
  /\ UNCHANGED <<about, tja, obj, queue, req, performed, history, reschedules, crashes>>

\* Anything else may raise as well: a precondition, a lost connection, the time
\* limit of the RQ job.  An exception out of the open transaction rolls it back
\* and counts as a failure of the action.
RaiseException(w) ==
  /\ Exceptions
  /\ \/ wk[w].pc \in {"check", "read", "loop", "lookup", "create", "leave", "save", "record", "store"}
     \/ wk[w].pc \in {"dump", "mark"} /\ wk[w].out # "FAILED"
     \/ wk[w].pc = "commit"
  /\ wk' = [wk EXCEPT ![w] = IF wk[w].pc = "commit"
                             THEN [@ EXCEPT !.pc = "save", !.out = "FAILED"]
                             ELSE FailingJob(w)]
  /\ UNCHANGED <<job, about, tja, obj, queue, req, performed, history,
                 reschedules, crashes>>

\* The worker dies; so it does when Job.fail itself raises, e.g. because the
\* dumped params cannot be restored.  What it had not committed is lost.
CrashWorker(w) ==
  /\ wk[w].pc # "idle" /\ crashes < MaxCrashes
  /\ crashes' = crashes + 1
  /\ wk' = [wk EXCEPT ![w] = IdleWorker]
  /\ UNCHANGED <<job, about, tja, obj, queue, req, performed, history, reschedules>>

-----------------------------------------------------------------------------
RequestStep(r) ==
  \/ FetchObjects(r) \/ CheckInstances(r) \/ RejectRequest(r)
  \/ CreateJob(r) \/ EnqueueJob(r) \/ RunSynchronously(r) \/ FailSynchronously(r)
  \/ FetchJobToKill(r) \/ KillJob(r) \/ MarkAsDone(r) \/ Unfreeze(r)

WorkerStep(w) ==
  \/ FetchJob(w) \/ StartJob(w) \/ CheckObject(w) \/ ReadActions(w)
  \/ StopKilled(w) \/ (\E a \in Action : SkipAction(w, a) \/ BeginAction(w, a))
  \/ LookUpRow(w) \/ CreateRow(w)
  \/ PerformAction(w) \/ ActionRaises(w) \/ Reschedule(w)
  \/ CommitReschedule(w) \/ SaveRescheduled(w) \/ SaveAction(w)
  \/ RaiseCycleError(w) \/ LeaveLoop(w) \/ RecordHistory(w) \/ StoreObject(w)
  \/ DumpParams(w) \/ MarkJob(w)

Next ==
  \/ \E r \in Request : RequestStep(r) \/ AbandonRequest(r)
  \/ \E w \in Worker : WorkerStep(w) \/ RaiseException(w) \/ CrashWorker(w)

Spec == Init /\ [][Next]_vars

\* Web and worker processes that live keep going; nothing is promised about
\* users, crashes and exceptions.
FairSpec ==
  /\ Spec
  /\ \A r \in Request : WF_vars(CreateJob(r)) /\ WF_vars(EnqueueJob(r))
  /\ \A r \in Request : WF_vars(Unfreeze(r))
  /\ \A w \in Worker : WF_vars(WorkerStep(w))

-----------------------------------------------------------------------------
(* Safety *)

Done(j, a) == performed[j][a] > 0
ActionsOf(j) == Actions[about[j].trans]

\* "commit transaction to allow worker to fetch it using job id": whatever a
\* worker can pop from the queue is the id of a committed row.
QueuedJobsAreCommitted ==
  /\ \A i \in DOMAIN queue : Exists(queue[i])
  /\ \A w \in Worker : wk[w].pc # "idle" => Exists(JobOf(w))

\* run_after holds across freezing, rescheduling, crashes and several workers
\* on one job: no action was carried out before those it has to follow.
RequirementsFirst ==
  \A j \in Job : Exists(j) =>
    \A a \in ActionsOf(j) : Done(j, a) =>
      \A b \in RunAfter[a] \cap ActionsOf(j) : Done(j, b)

\* A history entry says the transition happened: every action was carried out.
HistoryAfterAllActions ==
  \A j \in Job : Exists(j) /\ history[j] > 0 => \A a \in ActionsOf(j) : Done(j, a)

\* A job that is shown as finished has left its history entry.
SuccessIsRecorded == \A j \in Job : job[j].status = "FINISHED" => history[j] > 0

\* The three promises above as a specification of their own, and the state of
\* this one seen as its state.
Promise == INSTANCE TransitionRun WITH
  trans    <- [j \in Job |-> about[j].trans],
  done     <- [j \in Job |-> {a \in Action : performed[j][a] > 0}],
  recorded <- {j \in Job : history[j] > 0},
  finished <- {j \in Job : job[j].status = "FINISHED"}

\* Whatever the workers do, a transition is run as TransitionRun promises.
KeepsPromise == Promise!Spec

\* A worker that still has to execute job j.
Handles(w, j) == wk[w].pc \notin {"idle", "leave"} /\ JobOf(w) = j

\* A request is about to enqueue job j, it is queued, or a worker has it.
Queued(j) == \E i \in DOMAIN queue : queue[i] = j
OnItsWay(j) ==
  \/ \E r \in Request : req[r].pc = "enqueue" /\ req[r].job = j
  \/ Queued(j)
  \/ \E w \in Worker : Handles(w, j)

\* As long as no process dies, a job that is queued or started is on its way.
\* (The view refuses new transitions of the object while it is not ended.)
ActiveJobsAreHandled ==
  crashes = 0 =>
    \A j \in Job : job[j].status \in {"QUEUED", "STARTED"} => OnItsWay(j)

\* The object of a step is transformed by a synchronous request that was let
\* through for it, or has a job with a history entry and all actions behind it.
StoreIsRecorded ==
  \A o \in Object : obj'[o] # obj[o] =>
    \/ \E r \in Request : req[r].pc = "sync" /\ o \in req[r].todo
    \/ \E j \in Job : /\ about[j].obj = o /\ history[j] > 0
                      /\ \A a \in ActionsOf(j) : Done(j, a)

\* A worker changes the status of no object but its job's, and only after the
\* history entry of the job.
StoresAreRecorded == [][StoreIsRecorded]_vars

-----------------------------------------------------------------------------
(* Why the promises hold: the inductive invariant *)

\* Committed rows have an object and a transition, and only they a history.
WellFormedRows ==
  \A j \in Job :
    /\ Exists(j) => about[j].obj \in Object /\ about[j].trans \in Transition
    /\ ~Exists(j) => /\ about[j].trans = None /\ history[j] = 0
                     /\ \A a \in Action : ~Done(j, a)

WellFormedRequest(r) ==
  /\ req[r].pc \in {"check", "create", "enqueue", "sync"} => req[r].trans \in Transition
  /\ req[r].pc \in {"check", "sync"} => \A o \in req[r].todo : req[r].snap[o] \in Status
  /\ req[r].pc \in {"enqueue", "kill", "unfreeze"} =>
       req[r].job \in Job /\ Exists(req[r].job)

\* The locals of a worker that are set at its program counter.
InAction == {"lookup", "create", "run", "commit", "leave", "save"}

WellFormedWorker(w) ==
  /\ wk[w].pc # "idle" => JobOf(w) \in Job /\ Exists(JobOf(w)) /\ wk[w].mem.status # "ABSENT"
  /\ wk[w].pc \in InAction \cup {"read", "loop", "record", "store"} => wk[w].snap \in Status
  /\ wk[w].pc \in InAction => wk[w].act \in ActsOf(w)
  /\ wk[w].pc \in {"run", "commit", "leave", "save"} =>
       wk[w].row \in DOMAIN tja[JobOf(w)][wk[w].act]
  /\ wk[w].pc \in {"run", "commit", "leave"} => wk[w].out \in TransitionJobActionStatus
  /\ wk[w].pc \in {"save", "dump", "mark"} => wk[w].out \in {"FINISHED", "FAILED", "FROZEN"}

WellFormed ==
  /\ WellFormedRows
  /\ \A r \in Request : WellFormedRequest(r)
  /\ \A w \in Worker : WellFormedWorker(w)
  /\ \A i \in DOMAIN queue : Exists(queue[i])

\* What the rows say of the actions is true: ...
RowsAreTrue ==
  \A j \in Job, a \in Action : \A i \in DOMAIN tja[j][a] :
    tja[j][a][i] = "FINISHED" => Done(j, a)

\* ... and so is what a worker made of them, or is about to write.
WorkerIsRight(w) ==
  /\ wk[w].pc \in {"start", "check", "read"} => wk[w].yielded = {}
  /\ wk[w].pc \in InAction \cup {"loop"} => \A a \in wk[w].completed : Done(JobOf(w), a)
  /\ wk[w].pc = "loop" => \A a \in wk[w].yielded : Done(JobOf(w), a)
  /\ wk[w].pc \in InAction =>
       /\ \A a \in wk[w].yielded \ {wk[w].act} : Done(JobOf(w), a)
       /\ \A a \in RunAfter[wk[w].act] \cap ActsOf(w) : Done(JobOf(w), a)
  /\ wk[w].pc \in {"run", "commit", "leave"} /\ wk[w].out = "FINISHED"
       => Done(JobOf(w), wk[w].act)
  /\ wk[w].pc = "save" /\ wk[w].out # "FAILED" => Done(JobOf(w), wk[w].act)
  /\ wk[w].pc = "record" => \A a \in ActsOf(w) : Done(JobOf(w), a)
  /\ wk[w].pc = "store" => history[JobOf(w)] > 0
  /\ wk[w].pc \in {"dump", "mark"} /\ wk[w].out = "FINISHED" => history[JobOf(w)] > 0
  /\ wk[w].pc # "idle" /\ wk[w].mem.status = "FINISHED" => history[JobOf(w)] > 0

IInv ==
  /\ TypeOK /\ WellFormed
  /\ RowsAreTrue /\ \A w \in Worker : WorkerIsRight(w)
  /\ RequirementsFirst /\ HistoryAfterAllActions /\ SuccessIsRecorded

\* Why no job is lost: a worker that gave its job back has queued it before, and
\* whoever has taken it from the queue since waits for the row.
HandedOver(w) ==
  wk[w].pc = "commit" =>
    \/ Queued(JobOf(w))
    \/ \E v \in Worker : wk[v].pc = "start" /\ JobOf(v) = JobOf(w)

\* Job.start comes before the test of is_running, so nobody is sent home there.
StartedBeforeChecked(w) == wk[w].pc = "check" => wk[w].mem.status = "STARTED"

HandledInv ==
  /\ ActiveJobsAreHandled
  /\ crashes = 0 => \A w \in Worker : HandedOver(w)
  /\ \A w \in Worker : StartedBeforeChecked(w)

-----------------------------------------------------------------------------
(* What holds when the jobs are executed by a single worker *)

\* An action that was carried out is not carried out again.
NoActionRepeated == \A j \in Job, a \in Action : performed[j][a] <= 1

\* A job with a failed action does not end as finished.
NoSuccessAfterFailure ==
  \A j \in Job : job[j].status = "FINISHED" => ActionsWith(j, "FAILED") = {}

\* history_kwargs, from which the history entry is made, hold what every action
\* of the transition contributed, whichever run of the job it was carried out in.
HistoryIsComplete ==
  \A w \in Worker : wk[w].pc = "record" => ActsOf(w) \subseteq wk[w].params

\* There is no second worker.
SingleWorker == \A v, w \in Worker : v = w

\* What a worker knows of failures: where it goes on, or has come to the end, no
\* action of its job has failed; and the job is not FINISHED meanwhile.
KnowsFailures(w) ==
  /\ \/ wk[w].pc \in InAction \cup {"loop", "record", "store"}
     \/ wk[w].pc \in {"dump", "mark"} /\ wk[w].out = "FINISHED"
     => ActionsWith(JobOf(w), "FAILED") = {}
  /\ wk[w].pc \notin {"idle", "start"} =>
       wk[w].mem.status # "FINISHED" /\ job[JobOf(w)].status # "FINISHED"

FailureInv == NoSuccessAfterFailure /\ \A w \in Worker : KnowsFailures(w)

\* What an action of job j has left if neither exceptions nor crashes come between
\* its effect and its row: at most one row, and an effect only if the row says
\* FINISHED or is about to.
Saving(w, j, a) ==
  wk[w].pc = "save" /\ JobOf(w) = j /\ wk[w].act = a /\ wk[w].out # "FAILED"
OneRowEach ==
  \A j \in Job, a \in Action :
    /\ Len(tja[j][a]) <= 1
    /\ Done(j, a) => a \in ActionsWith(j, "FINISHED") \/ \E w \in Worker : Saving(w, j, a)

\* The worker has seen every finished row, and the row it acts on is a started one.
KnowsRows(w) ==
  /\ wk[w].pc \in InAction \cup {"loop"} => ActionsWith(JobOf(w), "FINISHED") \subseteq wk[w].completed
  /\ wk[w].pc \in InAction => wk[w].act \notin wk[w].completed
  /\ wk[w].pc = "create" => tja[JobOf(w)][wk[w].act] = <<>>
  /\ wk[w].pc \in {"run", "commit", "leave"} => wk[w].out = "STARTED"

RowsInv == OneRowEach /\ NoActionRepeated /\ \A w \in Worker : KnowsRows(w)

\* The params of the row hold what was done, or those of the worker that has the
\* job in hand.  Nobody else writes the row then, unless the job is killed.
DoneOf(j) == {a \in Action : Done(j, a)}
InHand(w, j) == wk[w].pc \notin {"idle", "start", "leave"} /\ JobOf(w) = j
HoldsParams(w) ==
  /\ wk[w].pc = "start" => wk[w].mem = job[JobOf(w)]
  /\ wk[w].pc \notin {"idle", "start"} =>
       /\ DoneOf(JobOf(w)) \subseteq wk[w].params
       /\ wk[w].mem.status = "STARTED" /\ job[JobOf(w)].status = "STARTED"
  /\ wk[w].pc \in {"commit", "mark"} => wk[w].mem.params = wk[w].params

ParamsInv ==
  /\ \A r \in Request : req[r].pc # "kill"
  /\ \A j \in Job : (\A w \in Worker : ~InHand(w, j)) => DoneOf(j) \subseteq job[j].params
  /\ \A w \in Worker : HoldsParams(w)

-----------------------------------------------------------------------------
(* What a comment of the code says, and it does not keep *)

\* "allow for only one async transition at a time"
OneAsyncJobPerObject ==
  \A i, j \in Job : is_running(job[i]) /\ is_running(job[j])
                    /\ about[i].obj = about[j].obj => i = j

-----------------------------------------------------------------------------
(* Liveness *)

\* A job that was enqueued does not stay queued or started for ever.
JobsSettle ==
  \A j \in Job : job[j].status \in {"QUEUED", "STARTED"}
                 ~> job[j].status \in {"FINISHED", "FAILED", "FROZEN", "KILLED"}

=============================================================================
