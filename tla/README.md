# A verification development for Ralph

Ralph is a data center and asset management system written with Django: a
relational database, web and REST front ends, background workers that take jobs
from a Redis queue (RQ), and agents that fetch their configuration over HTTP.
This directory holds TLA+ specifications of the parts of it whose behaviour is
hard to test, the TLC configurations that check them, and machine-checked
proofs about them. Source paths below are relative to `src/src/ralph/` unless
they begin with `contrib/` or `docs/`.

## 1. Inventory

Everything shares one MySQL database (READ COMMITTED, `ATOMIC_REQUESTS`,
autocommit elsewhere). Components interact through its rows, through the RQ
queue, and through HTTP requests of machines and agents.

| component | state | operations | what is hard | correct when |
|---|---|---|---|---|
| Asynchronous transition jobs: `lib/transitions/async.py`, `lib/external_services/` | `Job`/`TransitionJob` rows (status, dumped params), `TransitionJobAction` rows, the RQ queue, `TransitionsHistory` | run, start, freeze, unfreeze, reschedule, kill, fail, success, and the loop over the actions | several workers on one job, whole-row saves of stale rows, worker crashes, a queue outside of the database transaction | actions in order, history and success only for complete transitions, active jobs are on their way |
| Transition requests: `lib/transitions/models.py`, `views.py`, `api/views.py` | the objects' status field, the configured transitions | check, validate, run synchronously or create jobs | check and act in different steps, partial effects of a failed action | status changes come from complete, allowed transitions |
| Deployment: `deployment/` | jobs whose transition has the `deploy` action; addresses, hostnames, DHCP entries | clean_*, assign_*, create_dhcp_entries, wait_for_dhcp_servers, deploy, pings | repeated and early pings, waiting for agents | one deployment per ping, entries of the right object |
| Networks and addresses: `networks/models/networks.py` | the tree of networks, `IPAddress.network`, `number` | save, delete and re-address a network, save an address | a change re-parents many rows one by one | every address is in the smallest network around it |
| Free addresses: the same file, `deployment/deployment.py` | addresses | get_first_free_ip, issue_next_free_ip | concurrent requests, full networks | no address twice, none outside of the usable range |
| Hostname counters: `assets/models/assets.py` | `AssetLastHostname` rows | increment_hostname, get_next_free_hostname | increment and read are two statements | no hostname twice |
| DHCP service: `dhcp/views.py`, `dhcp/models.py` | entries, `DHCPServer.last_synchronized` | entries, networks, sync | timestamps in seconds, deletions | an agent that is up to date has the current entries |
| DHCP agent: `contrib/dhcp_agent/dhcp_agent.py` | cached Last-Modified, the configuration file | download, write, restart, confirm | failures between the steps | a confirmed configuration is running |
| Load balancer events: `data_center/subscribers.py` | `VIP`, `IPAddress`, `Ethernet`, `Cluster` rows | create, update, delete events | repeated and reordered events, partial handling | a VIP's address and cluster agree; no orphans |
| Data center assets: `data_center/models/` | assets, racks, management addresses | save, clean, management_ip | validations only in `clean` | one management address per host |
| Licences, accessories | assigned quantities | assign, release | read-modify-write | assigned quantities add up |
| Signals: `signals.py` | a mark on the instance | post_commit | one instance saved in two transactions | every commit is published |
| Back office assets: `back_office/models.py` | assets, owners and users, hostnames, licences | the actions of their transitions, conversion to a data center asset and back | actions share one object in memory, a failing action does not roll back what went before | history only of whole transitions; hostnames are never given twice |
| Cloud sync: `virtual/management/commands/openstack_sync.py`, `lib/openstack/`, `virtual/models.py` | hosts, projects, flavors and addresses that mirror OpenStack | full and incremental runs, REST saves and deletes | a run works on lists that grow old, row by row without a transaction | what is alive stays; Ralph gets to agree with OpenStack |
| Custom fields: `lib/custom_fields/` | values, and the links they are inherited along | create, update, destroy, clear children, read, prefetch, filter | links and values change under a form that deletes | all reads agree; clearing reaches what inherits |
| DNS client, permissions, polymorphic querysets, imports, reports, registries, attachments, admin, API framework, settings | | | | data definitions, queries, rendering, or clients of external services; not modelled |

`PROJECT.json` lists every component with its sources and the hazards with the
line where each of them bites.

## 2. Plan

Done, in this order:

1. `TransitionJobs` with the abstract `TransitionRun`: requests, queue and
   workers; proved (sections 3 to 5).
2. `Networks`: the tree of networks and the network of every address; proved
   (section 6).
3. `AssetTransitions`: synchronous transitions action by action; proved (section 7).
4. `DhcpSync`: service, agents and waiting deployments; proved but for liveness
   (section 8).
5. `Deployments`: the actions of a deployment, composed with address allocation,
   hostname counters and the forms of users; proved (section 9).
6. `VipEvents`: load balancer events and management addresses; proved (section 10).
7. `CloudSync`: the mirror of OpenStack; proved but for liveness (section 11).
8. `CustomFields`: inherited values; proved (section 12).

Left:

  - licences and accessories (assigned quantities), post-commit signals and the
    rows of blades that follow their chassis, rack placement;
  - transitions over several objects whose queue fails between two of them.

## 3. Asynchronous transitions: the modules

| module | content |
|---|---|
| `TransitionJobs` | the system: rows, queue, web requests, workers; properties and the inductive invariant |
| `TransitionRun` | the abstract specification: what a job promises, without queue, rows or workers |
| `MCTransitionJobs` | four transitions and six actions for TLC |
| `TransitionJobsProofs` | the invariant, the safety theorems and the refinement |

### State

| variable | in the code |
|---|---|
| `job` | `Job.status` and `Job._dumped_params` of the committed rows; of the params only which actions have contributed to `history_kwargs` and `shared_params` |
| `about` | `TransitionJob.obj` and `.transition` |
| `tja` | the `TransitionJobAction` rows of a job and an action, a sequence because nothing makes them unique |
| `obj` | the status field of the objects (`TransitionField`) |
| `queue` | the job ids in the RQ queue |
| `req[r]` | a web request: where it is, the objects as `dispatch` fetched them (`snap`), those without a job yet (`todo`), the job it works on |
| `wk[w]` | a worker in `run_async_transition`: its copy of the row (`mem`), `Job._params` (`params`), the object as it was read (`snap`), `completed_actions_names`, what the sort has yielded, the current action and the status its row will get (`out`) |
| `performed`, `history` | counts of committed actions and of `TransitionsHistory` rows: they observe, nothing reads them |

### Steps

A step is one access to the database or to the queue. The views that run
transitions are not atomic (`NonAtomicView`), and a worker runs in autocommit
mode except for the transaction around an action, so anything may happen between
two steps. `Job.save()` writes the whole row as the process holds it; the model
keeps that, since most hazards come from it. Workers run

    FetchJob -> StartJob -> CheckObject -> ReadActions -> loop
    loop: StopKilled | SkipAction | BeginAction | RaiseCycleError | LeaveLoop
    BeginAction -> LookUpRow -> CreateRow? -> PerformAction | ActionRaises | Reschedule
    PerformAction, ActionRaises -> SaveAction -> loop | DumpParams -> MarkJob
    Reschedule -> CommitReschedule -> SaveRescheduled
    LeaveLoop -> RecordHistory -> StoreObject -> DumpParams -> MarkJob

and may, in between, meet an exception (`RaiseException`, which ends in
`Job.fail`) or die (`CrashWorker`). `freeze`, `fail` and `success` are
`DumpParams` and `MarkJob`, because `_update_dumped_params` saves the row once
before the status is saved. `Reschedule` enqueues inside of the transaction of
the action; until `CommitReschedule` the row is locked, and whoever wants to
write it waits (`RowLocked`).

What an action does to its object is abstracted to its outcome: it returns,
freezes, raises or is rescheduled. The order in which the sort yields actions
that do not depend on each other is nondeterministic (the code iterates over a
dict of the configured actions). Requests are one-shot; a user who comes back is
another request.

### Properties

Safety: `QueuedJobsAreCommitted`, `RequirementsFirst`, `HistoryAfterAllActions`,
`SuccessIsRecorded`, `ActiveJobsAreHandled`; for steps `StoresAreRecorded`; the
refinement `KeepsPromise`. With a single worker also `NoSuccessAfterFailure`; if
that worker does not die and nobody kills jobs, `HistoryIsComplete`; if it does
not die and nothing raises outside of actions, `NoActionRepeated`. Liveness:
`JobsSettle`.

One statement of the code's comments does not hold: `OneAsyncJobPerObject` has a
run with a counterexample and an entry under "findings".

## 4. Asynchronous transitions: the runs

| run | configuration | shows |
|---|---|---|
| `jobs_two_workers` | one deployment job, two workers, a kill, two pings, one reschedule, one crash, exceptions | the safety properties and the refinement under every interleaving of all operations on one job |
| `jobs_one_worker` | one worker, two requests, two objects; transitions that deploy, that have a cycle and that are synchronous; two pings, a reschedule | what a single worker guarantees in addition |
| `jobs_settle` | fairness, no crashes | jobs end or freeze |
| `one_job_per_object` | two requests, one object | the counterexample |

The three properties of a single worker do not hold in the configuration of
`jobs_two_workers`, and TLC finds a counterexample as soon as one of their
assumptions is dropped: a second worker breaks each of them; a process that dies
breaks `NoActionRepeated` and `HistoryIsComplete` (the action is done and its row
or the dumped params are lost); an exception between the action and the save
of its row breaks `NoActionRepeated`; a kill, which saves the row with the params it had
when it was fetched and ends a run without a dump, breaks `HistoryIsComplete` when the
job is started again. Hence a run of their own. With fairness it would take several times as long, so liveness has one too.

Bounds: `MaxReschedules` and `MaxCrashes` bound how often an action is
rescheduled and how often a process dies, in all; the sets of requests bound
what users do. One reschedule and two pings already put the same job three times
into the queue, more often than there are workers, which is what it takes to
have two runs of a job overlap and a third find their rows. Two jobs and two
objects suffice for the properties that relate a job to another one's object;
the others are about one job. The proofs need none of these bounds. Deadlock is
not checked: when all requests are answered and the queue is empty the system
rests. Workers and pings are symmetric; the run with a liveness property uses no
symmetry.

Fairness (`FairSpec`): a request that has created a job goes on to enqueue it and
to create the next one, a ping that found the job frozen enqueues it, and a
worker takes its next step. These are straight-line code of processes that are
restarted by their supervisors. Nothing is assumed of users or of pings, and
exceptions and crashes are never forced. Of actions that wait (`Reschedule`) it is assumed that
they become ready: `MaxReschedules = 1` lets one be rescheduled only once, and without a
bound a job may be rescheduled for ever. Each is weak
fairness of the steps of one process; a worker that waits for a row lock waits
for a worker that is about to commit.

## 5. The proofs

`TransitionJobsProofs` proves, for any configuration that satisfies
`ConfigAssumption` (only the types of the constants; `None` and `Keep` are no
ordinary values) and without bounds on jobs, workers, requests, reschedules and
crashes:

| theorem | statement |
|---|---|
| `Invariance` | `Spec => []IInv` |
| `TypeCorrect` | `Spec => []TypeOK` |
| `QueuedJobsAreCommittedAlways` | `Spec => []QueuedJobsAreCommitted` |
| `RequirementsFirstAlways` | `Spec => []RequirementsFirst` |
| `HistoryAfterAllActionsAlways` | `Spec => []HistoryAfterAllActions` |
| `SuccessIsRecordedAlways` | `Spec => []SuccessIsRecorded` |
| `StoresAreRecordedAlways` | `Spec => StoresAreRecorded` |
| `ActiveJobsAreHandledAlways` | `Spec => []ActiveJobsAreHandled` |
| `NoSuccessAfterFailureAlways` | `Spec => []NoSuccessAfterFailure`, if `SingleWorker` |
| `NoActionRepeatedAlways` | `Spec => []NoActionRepeated`, if `SingleWorker`, `~Exceptions` and `MaxCrashes = 0` |
| `HistoryIsCompleteAlways` | `Spec => []HistoryIsComplete`, if `SingleWorker`, `MaxCrashes = 0` and `KillRequest = {}` |
| `Refinement` | `Spec => KeepsPromise`, i.e. `TransitionJobs` implements `TransitionRun` |

None of the safety properties is inductive: whether a worker may begin an action
depends on what it believes to be completed, which it read from rows that other
workers write. `IInv` says that these beliefs are true:

  - `WellFormed`: rows, requests and workers have the locals their program counter
    promises, and ids that are queued or held belong to committed rows;
  - `RowsAreTrue`: a row of an action that says finished is about an action that
    was carried out;
  - `WorkerIsRight`: whatever a worker counts as completed or yielded was carried
    out, whatever it is about to write is true, and a row it holds in memory says
    finished only if there is a history entry. This last part is what keeps
    stale whole-row saves from inventing a success.

The argument that a step keeps it: nothing committed is taken back (`Monotone`:
rows stay, actions stay carried out, history stays). So what another worker
believes stays true (`OtherWorkerKept`), and a step has to be looked at only for
the process that takes it (`WorkerStepKeeps`, `RequestStepKeeps`). For each action there is a lemma
on the new record and the types (`...Type`) and one on the invariant (`...Keeps`). For the refinement, saving a row finishes or
reopens its job, whichever status it carries, since `IInv` holds before and after; creating a job, performing an
action and recording the history are the three other visible steps.

`ActiveJobsAreHandled` needs two facts more (`HandledInv`): a worker that has
rescheduled its job and not yet committed has put it into the queue, or another
worker has taken it from there and waits for the lock (`HandedOver`), and no
worker is sent home by the test that follows `Job.start`
(`StartedBeforeChecked`). The steps of a worker are of two kinds: those by which
it keeps its job (`StayingStep`) and those that end its run (`LeavingStep`,
`LastSteps`), after which the job is ended, frozen or handed over.

With a single worker, three more invariants hold, each under no more than the
assumptions of the theorem it is for:

  - `FailureInv`: a worker that goes on, or has come to the end, works on a job none
    of whose actions has failed, and the job is not marked as finished meanwhile.
    Exceptions, kills and crashes do not disturb this: `ReadActions` looks at the
    rows, and only the worker itself writes them.
  - `RowsInv`: an action has at most one row; it was carried out only if the row says
    so or the worker is about to write it; and the worker has seen every finished
    row, so that it begins none of these actions. That the row it finds says neither
    failed nor finished takes `FailureInv`.
  - `ParamsInv`: the params of a row hold what every action that was carried out
    contributed, unless the worker has the job in hand: then its own params do, and
    the row stays `STARTED`.

A step of the worker is looked at for its own record and the rows of its own job
(`StaysKnowing`, `OwnRowKeeps`, `ParamsHeld`); of the requests it matters only that they
write no row of an action and finish no job (`RequestsKnow`) and, without kills, change
no row that exists (`RequestsHold`).

Only model-checked: `JobsSettle`, because liveness is out of the prover's reach.

## 6. Networks

| module | content |
|---|---|
| `Networks` | the rows of networks and addresses, the saves and deletes, the properties |
| `MCNetworks` | sixteen numbers and five nested blocks for TLC |
| `NetworksProofs` | the theorems |

| variable | in the code |
|---|---|
| `block[n]` | `Network.min_ip` and `max_ip`, `None` without a row |
| `parent[n]` | `Network.parent` |
| `ips`, `network[a]` | the numbers with an `IPAddress` row, and its `network` |
| `writer[w]` | a request between `get_network` and the write in `IPAddress.save` |
| `left` | an observer: the addresses that saves have left behind |

`SaveNetwork` is `Network.save` with all the saves it makes of other rows, for a
new network or a new block; `DeleteNetwork` is the save with the address
0.0.0.0/32, the removal and the cascades. Each is one step because a request is
one transaction (`ATOMIC_REQUESTS`), and one at a time: what two saves of
networks do to each other is not modelled. An address is saved in two
steps, between which networks may be saved and deleted (`SearchNetwork`,
`StoreAddress`). The tree is django-mptt's: what it promises of
`get_descendants`, `get_children` and of a move below a descendant (refused) is
taken from how the code uses it. Gateways, racks, environments and reserved
ranges play no part here.

`TreeIsRight` says that the parent of every network is the smallest one around
it, although a save only saves the previous children again and those between the
network and its new parent. `AddressesAreRight` says the same of addresses, except
of those in `left`: when a network is given another block or deleted, its own
addresses are not saved again (which is right only for those in a part of the old
block), and an address whose save was overtaken by that of a network keeps what
it had found. `DeletesOnlyItself` says that the cascade of a
delete finds nothing. The
filter that is to find the addresses outside of a changed network
(`networks/models/networks.py:523`) asks for both sides at once and finds none,
so they stay at it; `left` accounts for them.

| run | configuration | shows |
|---|---|---|
| `network_tree` | three networks, five blocks in four levels, two addresses in different blocks, one request | the type invariant and the three properties under all sequences of saves and deletes |

Three networks are what the argument needs: the one that is saved, one that
changes its parent, and the old or new parent. The block that is everything
holds 0.0.0.0 too, so a delete may move a network below others or be refused.
Deadlock is not checked, since an empty table with nothing asked may rest.

`NetworksProofs` proves the type invariant and the three properties
(`TypeCorrect`, `TreeIsRightAlways`, `AddressesAreRightAlways`,
`DeletesOnlyItselfAlways`) for any networks, addresses and requests, also
infinitely many, and any blocks that are nested or disjoint (`BlockAssumption`,
which CIDR notation guarantees). Two facts carry it. Among blocks that hold the
same number the first of `order_by('-min_ip', 'max_ip')` is inside all others
(`Smallest`). And in a right tree the descendants of a network are exactly the
networks inside it (`DescendantsAreInside`, `InsideAreDescendants`), so the
refusal to move a network below its descendants is what allows
`_assign_new_ips_to_network` to leave their addresses out. Uniqueness of blocks
(`unique_together`) belongs to the inductive invariant; without it two networks
could each be the other's parent.

## 7. Transitions of assets

`AssetTransitions` is the synchronous `run_field_transition` with every action of
back office assets and the two that convert an asset into one of the other class.
`MCAssetTransitions` names ten transitions.

| variable | in the code |
|---|---|
| `child[a][k]` | the row of an asset in the table of back office or data center assets: status, owner, user |
| `hostname` | `Asset.hostname`, in the table that both classes extend |
| `licences` | `BaseObjectLicence` rows |
| `counter` | `AssetLastHostname.counter` of a country |
| `history` | `TransitionsHistory` rows |
| `tx[r]` | a request: the instances as it read them (`snap`) and has changed them (`mem`), the actions performed, the reports made, what it has written (`pending`, `touched`, `was`) |

`Dispatch` reads the instances and checks the preconditions. Then each action is a
step on the instances in memory; `Finish` records the history and saves the
instances. Licences and counters are written at once and stay locked until the
transaction ends, by `Finish` or by `RolledBack`. A failing action makes
`run_field_transition` return False: the transaction commits what was written
before (`ActionRaises`) and what the action itself had done to a part of its assets
(`ActionRaisesLate`; the two conversions are transactions of their own, so they do all or
nothing). A cycle raises outside of that handler, and everything is
rolled back (`CycleError`). Actions that set a field no property looks at are one
action, `SetOtherField`. A hostname is given to any subset of the assets that lack one, since
it depends on whether the category of the model has a code, and on a setting. Conversion
keeps the primary key and the row of the parent table, and writes the row of one child table
and deletes the other; a stale instance that is saved later may bring the deleted one back.

  - `HostnamesAreSpent`: no hostname is ahead of its counter, though counters are
    rolled back with their transactions and others generate names in between.
  - `StatusIsRecorded`: every status an asset has got since it was made was written by a
    transition that performed all of its actions and recorded the asset in its
    history; none comes from one that failed and was committed all the same, and none
    is brought by a stale instance. `InitialStatus`, which a new back office asset has, needs no history.
  - `ReportsAreTrue`: the order that `run_after` gives lets a return report name the
    former user, a release or loan report the new one. `change_user_and_owner` is
    excused: no `run_after` mentions it.
  - `OnlyCommitsShow`: what others can read of assets, hostnames, licences and history changes
    only when a transition ends that performed all of its actions or had one left to perform, which
    raised. A transition whose actions require each other is found out only after the
    others were performed; nothing of them is ever shown, and what other transitions
    committed in between is not lost when it is rolled back.

| run | configuration | shows |
|---|---|---|
| `asset_transitions` | one asset, two users, two countries, one licence, three statuses, two requests that take any of ten transitions | the properties above |

Two requests are what interleaving takes, and one may follow the other: that is how a
stale instance is saved after a conversion, and both child rows exist. Every property is about
one asset at a time; two of them with two requests are out of TLC's reach, and the proofs cover any
finite set. Deadlock is not checked: when both requests are answered nothing is left to do.

`AssetTransitionsProofs` proves the type invariant and the four properties
(`TypeCorrect`, `HostnamesAreSpentAlways`, `StatusIsRecordedAlways`,
`ReportsAreTrueAlways`, `OnlyCommitsShowAlways`) for any countries, users, licences,
transitions and requests, and any finite set of assets. `ConfigAssumption` says
what the models and the settings of Ralph give: the actions of a transition are names, an action
that does not save the object is alone in its transition (`only_one_action`), a
default status is a status, the initial one is a status of back office assets.

  - `HostnamesAreSpent` is about counters that are rolled back while rows and other
    requests remember what they gave. The invariant says of every hostname in a row, in memory or
    in a pending write that it is `GivenOut`: its number is at most the counter, and
    at most what any other open request would put the counter back to.
    `CountersAreRight` says that one request at a time has something to put
    back, which is the row lock. A request may have a name in memory that is beyond
    what it would itself restore, for then the name goes too.
  - `RequestsAreOrderly` carries the order of `run_after`, also between actions of which
    one is not selected, and `ReportsNameUsers` follows the user in
    memory until an action changes it: that is how a report comes to name the right one.
  - `StatusesAreRecorded` says of the rows, and of the instances and pending writes of open
    requests, that their status is recorded; only a conversion waits with the status that its own
    history will tell of. A stale instance has a status that was recorded when it was read, and history
    is never taken back. `HistoryIsOfRequestsDone` says whose history there is.
  - `LicencesAreRight` says which licences an open request has added and removed, each of
    them locked by it alone. Hence putting them back shows exactly what was shown before, also if
    other requests have committed licences meanwhile.

## 8. The configuration of DHCP servers

`DhcpSync` composes the service, its agents and the deployments that wait for them.

| variable | in the code |
|---|---|
| `now` | the clock; `TicksPerSecond` of its ticks are one second of `Last-Modified` |
| `row` | an address, network, Ethernet, environment or deployment: its `modified` and what is rendered of it |
| `writer[w]` | a transaction that has saved a row and not committed it, or a job in `wait_for_dhcp_servers` |
| `agent[a]` | the agent: the section it is at, the cached dates, the files and what the server runs |
| `synced` | `DHCPServer.last_synchronized` |
| `missed`, `escaped`, `faults` | observers, and the count of faults |

`SaveRow` sets the date and `CommitRow` shows it. An agent runs `AskFor`,
`FindDuplicates`, `Download` for a section, then for the next one, then
`Restart` and `Confirm`. The view computes the date and the body in different
queries, hence the steps of their own. Faults are those that the agent handles or fails to handle: a failed
download, a failed write (the date is cached by then), a failed restart, a
confirmation that does not arrive, a run that dies. The agent confirms also after a failed restart
(`contrib/dhcp_agent/dhcp_agent.py:311`); the model does the same, and no property relates `synced`
to what runs, since the code does not.

  - `OnlyEscapedIsMissed`: an idle agent runs what is rendered or will be told, except for what it cannot notice, and the observers
    say exactly what that is: a row that became visible with a date not later than
    one the agent had been told, a deletion, a fault after the download.
  - `ChangesArrive`: after failed downloads every server gets there, with the same
    exception.
  - `WaitEnds`: no deployment waits for ever.

| run | configuration | shows |
|---|---|---|
| `dhcp_sync` | an entry and a gateway (which is in both sections), one agent, a deployment and a request, three moments in two seconds, one fault | the three properties; deadlock is checked |

Two ticks in a second are what it takes to have two changes in the same one. Time
stops at `MaxTime`, and rows are not saved afterwards, so that changes end.
Fairness: weak fairness of each agent's next step (cron starts it again and again,
and its lock makes runs follow each other), of the polling job and of time. Faults
are never forced.

`DhcpSyncProofs` proves the type invariant and `OnlyEscapedIsMissed` (`TypeCorrect`,
`OnlyEscapedIsMissedAlways`) for any rows and sections, any agents, transactions and
deployments, any length of a second, and without regard to the bounds on time and faults. The property is
about idle agents; the invariant has to follow an answer on its way:
`AnswerIsRight` for the body that is about to come with an older date,
`FilesAreRight` for what is written, `ServerIsRight` for what runs until the restart.
Each of them has the same three alternatives: it is what is rendered now, or some row that is
rendered is `Newer` than the date the agent has been told, so that its next request will
not be answered with "not modified", or an observer has it. The argument at a commit or a
deletion is that whatever is rendered differently then is either newer than any
date told, or `missed` and `escaped` name it.

## 9. Deployments

`Deployments` composes the actions of `deployment/deployment.py` with the
allocation of addresses, the hostname counters of network environments and the forms and API requests that
edit the same rows.

| variable | in the code |
|---|---|
| `hostname` | the hostnames of the hosts |
| `ip`, `created`, `owner` | `IPAddress` rows by key, how many were made, and the object of each Ethernet |
| `counter`, `useCounter` | `AssetLastHostname.counter` and `NetworkEnvironment.use_hostname_counter` |
| `job[j]` | a job: actions done, the instance it read (`mem`), the name and address it got, its parameter |
| `form[u]` | a request of a user between its check and its write: the row, or the number a counter is to get |
| `issued`, `excused`, `overruled` | observers |

Each action is one transaction. Those that only delete or write are one step; those
that decide by what they read (a free address, a row, the next number) read in one step
and commit in another, and a unique key refuses the commit if another was faster.
`TakeNumber` increments the counter and keeps its row locked until the action commits or is
rolled back; `ReadNumber` reads the last name of an environment without counter, and
locks nothing. `StoreObject` saves the instance that the job has in memory, with the
hostname of when it was read.
Users reach the address rows in three ways. `NetworkForm` keeps all fields of an exposed row but
`is_management`, which is not among `DHCP_EXPOSE_LOCKED_FIELDS` (`Cleaned`, `Valid`). The API and
the admin of addresses run `IPAddress.clean` (`Clean`), which keeps hostname, address and Ethernet of an
exposed row; of these two only the admin may take it out of the DHCP or delete it (`Overrules`, `ReadToDelete`).
An environment stops to use its counter in one step (`StopCounter`) and starts again in two: `update_counter`
reads the last number (`AskNumber`), and waits for the row of the counter to write it (`SwitchCounter`).
Names are the numbers of a template, and the query without a counter sorts them as strings:
`Rank` gives the place of each number in that order and `Full` is the last number with
as many digits as the template has, up to which both orders agree. The instance has the binary numbers
01, 10, 11, 100 and 101, of which 100 and 101 sort before 11.

  - `IssuedNamesAreUnique`: a name from the counter belongs to one host, in spite of
    rollbacks, of names that exist already and of objects that are saved as they were. Excused:
    users who type a name that is taken, names issued without the counter, and names that the
    job of another host has in memory while they are issued.
  - `NextNameIsNew`: without the counter, the next name is new as long as the numbers
    have as many digits as the template says. Beyond it they do not sort as numbers any more.
  - `EntriesStay`: the entry a deployment has created is exposed until the
    deployment ends, for the same Ethernet and with the same name, in spite of clean-ups, replacements,
    forms and requests with stale copies of the row. Excused: an Ethernet that is deleted, by a request that
    saw no entry on it or by the admin, and an address that the admin was asked to unexpose or delete
    (`overruled`). Other fields, as `is_management`, may change.

| run | configuration | shows |
|---|---|---|
| `deployments` | three jobs on two hosts (deploy; add a hostname and an address; replace an address and remove from DHCP), one request of a user: the form, the API, the admin, another hostname, or a switch of the counter; two addresses, three rows, five names of which the last two overflow the template; the first host's address has another name than the host | the three properties |

Two addresses make the network run full; three rows are two addresses and one that
was replaced. Jobs of the same host run one after the other: two at a time are the
subject of section 3. Deadlock is not checked: jobs and forms are one-shot.

Nothing in the code orders `clean_*` before `assign_new_ip` when a transition has no
`assign_new_hostname`, although `deployment/deployment.py` lists cleaning first in
its docstring; the configuration is then expected to have both.

`DeploymentsProofs` proves the type invariant and the three properties for any hosts, jobs,
forms, names and addresses, from the assumptions in `ConfigAssumption`: the first rows are on
Ethernets of hosts and have different addresses, and strings are ordered as numbers are up to
`Full`. None of the three is inductive by itself. The invariant `IInv` adds what jobs and
forms have in memory:

  - `JobsAreRight`: a job under way has the locals its action needs, its actions come after
    those they run after, one job at a time works on a host and one holds the counter; a
    job that has made an entry has its clean-ups behind it;
  - `KeysAreOld` and `RowsStayWhereTheyAre`: `IsCopy(i, r)` says that r is the row i as it is, as a form is going to
    save it or as an action has read it. Such keys and Ethernets are of rows there have been, so the
    next key is free; all copies of a row are on one Ethernet, so the row of a
    job's parameter is of its own host, also when it is saved after it was deleted;
  - `EntriesAreSafe`: unless it is `overruled`, of the entry of a deployment no copy is held that
    is not exposed or has another Ethernet or name, it is not about to be deleted, and it is no job's
    parameter. Only a deployment that runs makes
    an entry: forms and jobs that started before it cannot know the key;
  - `NamesAreRight`: a host *has* a name if it holds it or a job of its remembers it and may save it.
    A name is of one host from the step that takes the number on, before it is committed as issued.

The attempt to prove `IssuedNamesAreUnique` with users who type as the only excuse showed that it was
false: a job reads its host with the name a, a user renames the host to b, the counter, which finds a
unused, issues a to another host, and the job ends and saves its host with the name a again
(`lib/transitions/models.py:357` saves the whole object in memory). Two hosts then have the same name. The first row of the instance was chosen so that the run
reaches this; `Remembered` is the excuse.

## 10. Load balancer events

`VipEvents` is `data_center/subscribers.py` with the users who edit the same rows
and the management addresses of assets.

| variable | in the code |
|---|---|
| `ip`, `created` | `IPAddress` rows by key with the owner of their Ethernet, whether they are exposed in DHCP, and whether they are management addresses |
| `vip` | `VIP` rows: the port of an address, its parent and service |
| `clusters` | how many clusters have a name (two make a lookup fail) |
| `task[d]`, `form[u]` | an event being handled, a request of a user |
| `late`, `litter` | observers |

An event is handled in a transaction at READ COMMITTED, one step that reads and one that
commits; the deletion of an address is a third. Events are delivered in any order and side by side. Users
delete VIPs and addresses, expose addresses in DHCP, and set or remove the
management address of an asset (`ReadManagement`, `SaveManagement`). An update migrates the VIPs of
its address if the VIP or the Ethernet, as the handler has read them, belongs to something other than the cluster
(`Moves`, `data_center/subscribers.py:196-199`). Parents of VIPs that are no clusters are not modelled.

  - `VipsStay`: only an event that asks for it removes a VIP, although the deletion
    of the last VIP deletes its address with a cascade. Excused: a VIP that was made while that deletion was under way.
  - `NoLitter`: an address that events made does not outlive its VIPs. Excused: a VIP of a service
    nobody knows (the address is made and the VIP is not), the last two VIPs deleted
    side by side, and what users have edited.
  - `UpdatesMoveVips` does not hold: the comment says "update cluster", but after the
    query that moves the VIPs of the address the handler saves the instance it read before,
    with the old parent. Only a second delivery of the event moves it.

| run | configuration | shows |
|---|---|---|
| `vip_events` | three deliveries, two requests of users, two ports of an address, two clusters, two services, an asset with another address | the first two |
| `vip_moves` | two deliveries | the counterexample to the third |

Three deliveries are two that make VIPs of the same address and one that deletes; all
orders of create, update and delete occur. Ports, deliveries, requests and services are symmetric.

`VipEventsProofs` proves the type invariant, `NoLitter` and `VipsStay` (`TypeCorrect`,
`NoLitterAlways`, `VipsStayAlways`) for any addresses, ports, clusters and events and
any number of deliveries and requests. The proof showed that `NoLitter` needs no exception for
addresses that an event is just working on: it holds in every state. It rests on
`InsertsAreAlone` (a delivery that is about to make an address is the only one, and the
address is not there: the unique key), on `DeletesAreRight` (if two deletions of VIPs of the same
address run side by side the address is `litter`; a deletion that has found another VIP can rely
on it otherwise; one that has found none, and will delete the address, knows
those that came later as `late`), and on `FormsAreRight` (a form knows the row of the address
that was typed).

## 11. The mirror of OpenStack

`CloudSync` is the command `openstack_sync` with its client, next to OpenStack,
which changes, and to users of the REST API.

| variable | in the code |
|---|---|
| `nova`, `keystone`, `catalogue` | the servers, projects and flavors of OpenStack |
| `host`, `project`, `flavor`, `owner` | `CloudHost`, `CloudProject`, `CloudFlavor` and `IPAddress` rows, with the provider of projects and flavors |
| `run[r]` | a run: what it has fetched (`flavors`, `projects`, `servers`) and what it read of Ralph (`known`, `knownFlavors`, `seen`), what it has left to do |
| `late`, `touched`, `events` | observers, and the count of events |

A run fetches flavors, projects and servers one after the other, takes its picture of Ralph, and
then adds, updates and deletes row by row. Nothing makes two rows one transaction, so anything
may change between two steps, and whatever raises ends the run where it is
(`Aborted`). A run is full, or looks only at what has changed. The setter of a host's addresses first
looks for those nobody has and then takes them (`FindAddresses`, `AssignAddresses`): a row that
another asset has got in between is saved over (`virtual/models.py:260-263`). Users make hosts and change
them with the API (`ApiSavesHost`: project, flavor, addresses), delete rows, add flavors of another
provider, and give addresses to other assets.

Two things are simpler than in the code. A list of OpenStack is complete or empty: the client
asks for it page by page until a page is short (`lib/openstack/client.py:171-186`). And what a run reads of
Ralph is one state: `get_ralph_projects`, `get_ralph_flavors` and `get_ralph_servers_data`
are queries one after the other, with one for the addresses of each host.

  - `LiveServersStay`: no run deletes the host of a server that is alive. Excused:
    hosts that another run made or gave another flavor after this one had fetched the
    servers, and hosts that a user made or gave another project or flavor.
  - `OthersKeepTheirs`: projects, flavors and addresses that belong to somebody else stay,
    also if ids coincide. Excused: a flavor or an address that somebody else has got since the run fetched
    the servers.
  - `Converges`: when OpenStack stops to change, Ralph agrees with it in the end. The
    property names what prevents it for good: a host without a project (`Lost`) or a server in
    another project than Ralph's (`Misplaced`) makes every run fail, as does a flavor of another
    provider with an id that OpenStack uses (`Taken`: `flavor_id` is unique over all providers, but the
    command looks only for its own), a
    project of another provider that OpenStack does not list (`Foreign`) makes every
    run fail before it deletes flavors, empty lists (`Empty`) are taken for errors, and servers of projects that are gone are neither
    added nor deleted (`Kept`), contrary to what
    `docs/installation/configuration.md` promises of objects that no longer exist.

| run | configuration | shows |
|---|---|---|
| `cloud_sync` | two servers, two projects, two flavors, one address, a run of cron and one by hand, two events; it begins with a new project and a flavor of another provider, or with a project of another provider and an address that is nobody's | the three properties |

An event is a change of OpenStack, a request of a user, a run that dies or is given an empty list, or a start by hand. Two of them
are what it takes to make lists old and to have a second run in the middle of the first. Fairness: weak
fairness of a run's steps, and strong fairness of cron's start of a full run, which
is possible again and again. Deaths of runs are never forced. Deadlock is not
checked, since `MaxEvents` may end what is by hand; cron's run never ends the behaviour.

`CloudSyncProofs` proves the type invariant, `LiveServersStay` and `OthersKeepTheirs`
(`TypeCorrect`, `LiveServersStayAlways`, `OthersKeepTheirsAlways`) for any servers,
projects, flavors and addresses, and any number of runs and events. The two properties are
about steps; they follow from an invariant about the lists a run works on. `HostsAreRight` and
`CopiesAreRight` say that a host, and whatever a run remembers of a server or host, is in the project OpenStack has it
in, unless a user made or changed the host: servers do not change projects. `MissedAreLate`
says that a live server that a full run has not fetched got its host late, and
`DeletesAreRight` that what a run is about to delete is dead, late or touched. `NothingTaken` is about what a run takes for its own
or for nobody's: a flavor it knows, an address it has found, unless somebody else has got it since.

The attempt to prove `LiveServersStay` found a case that the instance does not reach within
its two events, and which the property had not excused: a run counts the hosts of a flavor that OpenStack has dropped, another
one gives a host that flavor from the list it had fetched before, and the deletion of the
flavor takes the host with it (`on_delete=CASCADE`,
`virtual/management/commands/openstack_sync.py:545-564`). `late` now has hosts
that were given another flavor too.

## 12. Custom fields

`CustomFields` is `lib/custom_fields` with the links of the models that inherit.

| variable | in the code |
|---|---|
| `rows` | `CustomFieldValue`: the object, the field, the value |
| `project`, `env`, `class` | the links of cloud hosts, assets and projects; a class has its module (`ModuleOf`) |
| `form` | a form that sets a value and clears it where it is inherited: the field its row had before (`was`), which models it has come to, what it has deleted |
| `patch` | a request that changes a cloud host, between the read of its project's environment and the save |
| `touched`, `late` | observers |

Values are created, updated and destroyed (`Create`, `Update`, `Destroy`), also while a
form is under way, where its row locks allow it (`Locked`). The form is `SaveForm`, one
`clear_children_custom_field_value` for each model that inherits, and
`CommitForm`. Saving a project saves its hosts with the environment
(`SaveProject`). An inline form may give an existing row another field (`SaveForm`), and then clears
what inherits the new one. The module of a configuration class does not change: the admin shows it read-only
once the class exists (`assets/admin.py:67-70`) and the API takes only GET and POST
(`assets/api/views.py:239-241`). Reads are operators: `custom_fields` of one object,
`get_prefetch_queryset` of a list, `filter_queryset` of the API. Primary keys matter
because a list is fetched by types and by ids: all types share the ids of `BaseObject`
but modules, which have ids of their own.

  - `ReadsAgree`: read alone or in any list, an object shows for each field the value
    of the nearest object that has one, and what the API finds by a value shows
    it. The converse does not hold: the filter finds only objects with a value
    of their own, while `docs/user/custom_fields.md` lets inherited ones count.
  - `HostsFollowProject`: a host has the environment of its project. Excused: one
    that was saved with what it had read before the project changed.
  - `ClearsWhatInherits`: when the form is done, what inherits shows the new value unless
    something nearer does not inherit, or others changed it meanwhile; and nothing else lost a value.

| run | configuration | shows |
|---|---|---|
| `custom_fields` | one object of each of the six types, the module with the id of the host; two fields, one value, two rows, one form or host request at a time, one change meanwhile | the three properties |

Rows are told apart by where they are, so one value is enough. `MaxMeanwhile` bounds how
many objects others change while a form is under way, `MaxRequests` how many
requests of several steps are under way.

`CustomFieldsProofs` proves the type invariant and the three properties (`TypeCorrect`,
`ReadsAgreeAlways`, `HostsFollowProjectAlways`, `ClearsWhatInheritsAlways`) for
any objects, fields and values. `ObjectsAssumption` says that objects of different types have different
ids, except that a module may have the id of anything: it is no `BaseObject`.

`ReadsAgree` is a fact about the three ways to read, not about the history of the rows: it needs
that `rows` has at most one value for an object and a field (`unique_together`),
and lemmas about the order of the links (`ChainsAre`, `NearestIsFirst`): the
values a list has fetched by types and by ids may contain those of a module that shares an id with a
host, and must not win over a nearer one. `ClearsWhatInherits` needs
`FormIsRight`: what the form has gone through is deleted, or was stored again by
others meanwhile.

## 13. What is left out

In the model of asynchronous transitions:

Permissions, form validation (a request may be rejected at any time), the
contents of params other than which action contributed, attachments, metrics and
logging. Job rows are never deleted. The RQ queue neither loses nor duplicates an
entry by itself: a worker that dies loses the one it holds (RQ moves it to the
failed queue, from which nothing takes it), and duplicates come from `unfreeze`
and `reschedule`. An object is not deleted while a job refers to it; in the code
that makes `Job.fail` raise, which the model covers as a worker that dies.

In the other models:

  - The liveness properties (`JobsSettle`, `ChangesArrive`, `WaitEnds`, `Converges`) are out of the prover's reach and stay with TLC.
  - Networks: gateways, racks, environments, reserved ranges; two saves of networks at
    the same time.
  - Transitions of assets: forms, IMEI numbers, dates and warehouses, mails and PDFs
    other than that they name a user.
  - Deployments: DNS records, service environment and configuration path, several
    hosts in one transition, the rendering of iPXE and preboot files; addresses without an Ethernet, edits of the
    MAC or the object of an Ethernet, and the form of the management address (`data_center/forms.py`,
    `networks/models/networks.py`), which could rename an entry that a user has made a management
    address.
  - DHCP: the choice of rows by environment or data center, other renderings of a row
    than its name.
  - Cloud: hypervisors and Ironic nodes, names, tags, images and sizes, the webhooks
    of `virtual/cloudsync.py`, virtual servers; the provider of a row that exists does not change.
  - Custom fields: definitions and types of fields, the groups that manage them,
    deletion of objects, a data import that gives a configuration class another
    module, values posted for objects that do not exist, lists whose
    links change between the two queries.

Components without a model:

  - licences and accessories, and the signals that are published after a commit
    together with the rows of blades that follow their chassis: they keep state and are the next ones of the plan;
  - rack placement: validations of one row in `clean`, without protocol;
  - DNS, notifications and attachments: clients of external services and file
    storage, whose outcome is that of an action that returns or raises;
  - permissions, polymorphic querysets, reports, the admin and the API framework:
    queries, forms and rendering;
  - data import, registries, configuration management and settings: data
    definitions, batch commands over one table, and constants that the models take as given.
