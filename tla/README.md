# The PDE operator in TLA+

The PDE operator (`pde_operator/`) accepts requests to run declarative
pipelines, queues them in PostgreSQL, starts one Kubernetes Job per run,
listens to what the Job's pod posts, and supervises, cancels, schedules and
cleans up. This directory holds TLA+ modules that model it, TLC
configurations that check them on small instances, and proofs checked by
TLAPS. Paths below are relative to `src/pde_operator/src/pde_operator/` unless
they start with `src/`.

## 1. Inventory

| Component | State it keeps | Operations | What makes it hard | What makes it correct |
|---|---|---|---|---|
| Run rows, `db/models/run.py` | one row per run: status, k8s_job_name, cancel_requested_at, finished_at, finish_code, status_updated_at | every service loads, changes and commits rows in its own session | no version column, no row locks except the queue worker's: a commit writes the *changed columns* over whatever the row has become | columns that belong together stay together whoever wrote last |
| `QueueService` | nothing between ticks; row locks during one | count free slots, lock the oldest QUEUED rows, create Jobs, commit once | several replicas; Jobs exist before the commit; the commit can be lost | limit on concurrent runs, no double launch, FIFO without starvation |
| `RunService` | the copy of a row during a request | create, cancel, retry, delete (for cleanups only: no endpoint deletes one run), deliver status/report/log, upload artifacts | every `await` between load and commit | a late request does not undo a newer decision |
| `JobReconciler` | copies of all supervised rows during a tick | ask for each Job, decide, re-signal, delete, one commit | decisions on rows many calls old; one failing call loses the tick | every run ends once its Job is over, is stuck or is cancelled |
| `JobService`, Job and pod | the cluster: Job object, pod | create, get phase, SIGINT, delete; start, end, TTL | refused and lost calls, 409, TTL racing the reconciler | see above |
| `ScheduleDispatcher`, `ScheduleService` | schedule rows: enabled, next_fire_at, last fire; stored input | claim due rows, fire each, record; CRUD, trigger now | claim and fire are two transactions; the stored input is a third | a claimed anchor fires at most once; overlap policy; a schedule has its input; no schedule stays due |
| Artifact storage and run input | objects under `{run_id}/` | put, get, delete by prefix | object and row are written one after the other | a row's input and state are there when it needs them |
| `RetentionService` | nothing | by cron or by `POST /manage/cleanup`: pick all runs created before a date, delete one after the other | takes runs of any status; every delete erases objects, then commits a row | a delete that fails keeps neither the others nor half of itself; inputs with secrets go with their runs |
| Job entrypoint, `src/pde_operator/charts/pde-operator/files/job-entrypoint.py` | child process, cancelled flag | fetch input, run, archive, upload | signals at any moment | a cancelled run still uploads its state |
| `ConfigImportService` | one session over profiles, templates and schedules | apply a YAML file, merge or replace | the session commits in the middle: when the schedules are deleted and after every schedule | profiles and templates together or not at all; merging takes nothing away; no secret left, none invented |
| `ProfileService`, `RunTemplateService` | profiles and run templates | create, update, delete, upload | single rows; others refer to them by id | the default profile is always there |
| Declarative templates and the form page | contract of a template; the values of an open form | parse, evaluate conditions, validate, build the run | two implementations of one semantics, in Python and TypeScript; options arrive late | page and operator agree; every value reaches the run where its field is bound |
| Auth, MCP server, other pages, charts | none, or configuration | check, forward, render | stateless | - |

Interaction: all services of a replica run in one asyncio process
(`app.py:22-55`), share nothing but the database, and are interrupted only at
an `await`. `QueueService` calls `create_run_job` synchronously;
`RunService` and `JobReconciler` call the cluster in threads. The pod talks
back over HTTP, to any replica. The chart runs one replica, but a rolling
update overlaps two.

## 2. Modules

| Module | Models | Correspondence |
|---|---|---|
| `RunStore` | the runs table and SQLAlchemy's commit | `rows[r]` is a row, reduced to the columns the control flow reads; `Flush(current, loaded, copy)` is a commit: columns in which the copy differs from what was loaded, over the current row; `locks[w]` are the rows a worker holds `FOR UPDATE`; `StatusGoesStale` and `GraceElapses` are the two ages the reconciler compares with its timeouts |
| `JobService` | the calls to Kubernetes, and Job and pod | one operator per method; `PodStarts`, `PodEnds`, `JobExpires` are the cluster's |
| `QueueService` | `admit_once` | `CountSlots`, `SelectQueued`, one step per locked row (`AdmitStarts`, `AdmitRefused`, `ProfileMissing`), `CommitTick`; `AbortTick` is the loss of the transaction after any of them |
| `RunService` | the requests that change a run | each is cut at its awaits: `...Begin` loads the row into `handler[h].loaded`, `...Commit` writes; `RequestLost` ends it anywhere |
| `JobReconciler` | `reconcile_once` | `ReconcileSelect` loads all rows, `Examine` decides one run after `get_job_phase`, `ReSignal` and `DeleteJob` are the further calls, `ReconcileCommit` is the one commit, including its loss by `StaleDataError` |
| `RunLifecycle` | all of the above over one table, time and cluster | `Next` interleaves them; fairness; the properties |
| `AdmissionControl` | what the queue promises | abstract specification; `RunLifecycle` implements it through `AdmissionPhase`, with `AllSlots` slots: the limit, once for every replica |
| `ScheduleStore` | the schedules table, the stored inputs, the runs schedules started, time | `sched[s]` is a row; `stored[s]` the object under its id, as the number of the request that wrote it; `auto` and `manual` count active runs; `clock` is `datetime.now` |
| `ScheduleDispatcher` | `fire_due_once` | `ClaimSelect` locks a batch, `ClaimCommit` re-reads the active runs, moves the anchors and commits; `FireBegin`, `FireLoad`, `FireCreate`, `RecordFire` are `_fire` at its awaits; `FireFails` and `RecordRaises` its two kinds of exception, `TickAborts` a crash |
| `ScheduleService` | the requests that change a schedule | cut at the row load, the object store and the commit |
| `Schedules` | both over one table | `Next`, fairness, the properties |
| `FiringContract` | what scheduled runs promise | abstract specification, with no locks, transactions or stored inputs; `Schedules` implements it: a replica owes (`Owed`) what it has claimed and neither started nor given up. It is weaker than the documentation in one point: what is owed survives a disable |
| `RunStorage` | the requests that touch both the runs table and the object store | `objects[r]` are the keys under `{run_id}/`; every put, get, list and delete is a step between the load of the row and the one commit: `CreateBegin`, `RetryBegin`, `UploadBegin`, `DeliverBegin` and what follows them, `delete_run` as list, erase, delete row; `cleanup` is `cleanup_older_than` with the ids it picked |
| `JobEntrypoint` | `job-entrypoint.py`, process 1 of a pod | `at[r]` is the place it has reached; SIGINT, SIGTERM and SIGKILL are steps of their own that mean different things before and after the handlers are installed; `child[r]` is the PDE process |
| `PodContract` | what the operator may assume of a pod | abstract specification, the pod of `JobService` with its place and outcome only; `RunArtifacts` implements it through `PodSeen` |
| `RunArtifacts` | pods and storage requests over one table and store | `Next`, fairness, the properties; the status machinery, which `RunLifecycle` has, is reduced to what the two see of it |
| `ConfigStore` | profiles, templates, schedules with their inputs, and the requests that write one row; `merge_masked_secure` | `import.pending` is what the session of an import has not committed: `Seen` and `SeenTemplates` are what it reads |
| `ConfigImport` | `import_config_from_yaml` | one step from one commit or call of the object store to the next; `RollBack` is an error at whatever step |
| `DeclarativeForms` | parser, conditions, validation and assembly, as functions | `FromDocument`, `RsqlHolds`, `Resolved`, `Visible`, `Required`, `Refusals`, `Assemble`: one operator per function of the Python package |
| `TemplateForm` | the form page, with its own evaluator of the conditions, and `POST /runs` from a template | `EvaluateRsql`, `UiVisible`, `UiRequired`, `HasMissingRequired` are the page's functions; `OpenForm`, `EditField`, `OptionsArrive`, `SubmitForm`; the operator evaluates again, from the tables as they are by then |
| `Configuration` | import, administrators and users over the same tables | `Next`, the properties |
| `MCRunLifecycle`, `MCSchedules`, `MCRunArtifacts`, `MCConfiguration` | symmetry sets, files and templates for TLC | - |
| `...Proofs` (8 modules) | theorems | section 6 |

Abstractions. A run's input, profile, environment and report contents are
left out; a report is its finish code. `created_at` is a ticket number: only
its order matters. `cancel_requested_at` is `no`, `asked` or `overdue`,
`status_updated_at` is `fresh` or not: the operator compares them with
timeouts and with nothing else. A status value that is no `RunStatus` is one
member of `StatusValues`. `k8s_job_creation_enabled` is taken to be on: with it
off nothing is ever started. A retry is a create as far as the queue, the
reconciler and the Job are concerned; what sets it apart, its parent, is in
`RunStorage`. A queue tick's calls to `create_run_job`
block its event loop; the model lets the other components of that replica run
in between, which can only add behaviours.

In `Schedules`: a cron expression (with its timezone) is the period it fires
with, so `NextFire` is `croniter.get_next` of a regular schedule; time is an
integer and an unset `next_fire_at` is 0, which sorts first as `NULLS FIRST`
does. Ids are used once. `now` is taken when the claim selects. The
`last_fire_*` columns are left out: nothing decides by them. A run is only
counted here; what becomes of it is `RunLifecycle`.

In `RunArtifacts`: an object is its key, an encrypted input one of them. A
Job's token is the run and the parent it names. One cleanup runs at a time,
and it visits the runs it picked in the order of their creation. A pod outside
`Followed` fetches its input and its parent's state and stays there, which is
a pod that is slow; it keeps two pipelines at a time out of the instance.

In `Configuration`: a schedule's input is its one secure value, or none, and
its row the one column that shows `[MASKED]`. A profile is its id. A file has
one set of profiles, at most one template, its schedules in order, and says
whether all its ids are well formed; files that are refused while they are
read change nothing and are left out. A database session sees its own changes,
and nobody else can write the rows it has changed until it ends
(`TouchedProfile`, `TouchedTemplate`). One schedule request at a time is
enough to meet an import; several of them are `Schedules`. The import's
`SelectSchedules` is three awaited statements in one step, the deletes of the
profiles and of the templates and the select of the schedules to delete
(`services/config_import_service.py:82-84`): the first two are seen by nobody
before the commit. Ids of
templates are used again in the model, but not while a form still names one
(`GoneForGood`).

A value of a form is null, a boolean or a text, and the page's values are a
JavaScript object in which a field can be missing; numbers and lists are left
out, and multi-selects with them. Null, the empty text, a text of blanks (`" "`)
and a missing field are four things that both sides treat alike in some places
and differently in others, which is why they are kept apart. The two
evaluators are translated separately: `RsqlValue`, `EvaluateRsql`,
`ResolveValues`, `UiVisible` and `UiRequired` in `TemplateForm` from
`DeclarativeRunTemplateFormView.tsx:18-53`, `Normalize`, `RsqlHolds`,
`Resolved`, `Visible` and `Required` in `DeclarativeForms` from `rsql.py` and
`form_state.py`. An expression outside `==` and `!=` is one kind of condition:
it raises in the operator where it is reached, and is false on the page. The
options of a field are a set, so which of them is the first is left open when
they arrive. Which of several reasons a refused request names is left open too.

History variables: `launches` counts the Jobs created for a run, `lost` those
whose tick was rolled back, `resurrected` collects the runs that left a
terminal status; `fired` counts the runs created per occurrence, `anchored` how
often an occurrence became `next_fire_at`, `ScheduleDispatcher`'s `lost`
collects the schedules one of whose claims got no outcome. In `RunArtifacts`,
`erased` and `torn` are the runs whose objects a delete has erased, and whose
delete was lost half way, and `killed` the pods ended by SIGKILL. In
`Configuration`, `overlapped` says that a schedule request met an import,
`import.was` and `import.clean` what an import found and whether anybody else
has written since, and `outcome` is the answer to the run just requested. No
guard reads them. `life` remembers deleted ids, and its only reader is the guard that an id
is used once.

## 3. Runs

Bounds: `MaxFaults` bounds refused calls, lost requests and connections, and
crashes; each run id is used once (ids are UUIDs); `Requests` restricts the
kinds of request that arrive in a run of TLC to those the question is about.
The liveness runs use no symmetry.

| Run | Instance | What it shows |
|---|---|---|
| `two_replicas` | 2 workers, 3 runs, limit 1, create and cancel, 1 fault | `CapPerReplica`: the limit is per replica, because slots are counted before rows are locked. `OneLaunchPerCommit`: `SKIP LOCKED` and the re-check of the row keep two workers and two ticks off the same run; only a lost commit leads to a second launch. `AdmissionOnlyFromQueue`: no cancel that slips in between selection and commit is overridden; `UnsupervisedOnlyAfterLoss`: the one way to a run nobody supervises. `ImplementsAdmissionControl`: two workers in each other's way are together one queue with twice the slots. Three runs and two workers are the least at which two ticks overlap while a third run competes; posted statuses would take the run out of reach, and the five theorems about these properties have them |
| `queue_liveness` | 1 worker, 1 reconciler, 2 runs, limit 1, create and status SUCCESS, 1 fault, fair | `QueuedRunLeavesQueue`, with its one exception: behind an orphaned Job whose pod never starts, the queue stands still (a lost tick creates it, nothing removes it) |
| `supervision` | queue off, 2 concurrent requests, reconciler, 1 run | `FinishedStamped`: finished_at stands exactly in the rows of runs that are over, or were and came back; `RevivedOnlyByStatus`: only the commit of a posted status brings one back; `CancelCodeOnlyOnRequest`, `SignalledOnlyOnRequest`; under all interleavings of old copies; three writers on one row are enough for a copy to be two commits old |
| `supervision_liveness` | queue off, all requests, 1 fault, fair | `TypeOK`; `VerdictOnlyOnDeadJob`; `CancelEndsRun`; `SupervisedRunSettles`, with deletes that lose a reconciler tick, lost signals, failed deletions of Jobs, pods that never start |
| `terminal_final` | expected violation | documented: "SUCCESS / FAILED / CANCELLED: terminal" (`mcp/instructions.py:30`). A status request that loaded the row before the reconciler's verdict, or arrives after it, writes IN_PROGRESS over it (`services/run_service.py:378`) |
| `cancelled_stops` | expected violation | documented: "CANCELLED: Terminal, cooperative cancel finished" (`mcp/resources_content.py:25`). A cancel that reads the row while the queue worker has created the Job but not committed takes the branch for queued runs (`services/run_service.py:181`), waits for the row lock, and then writes CANCELLED over NOT_STARTED; the Job keeps running, unsignalled and unsupervised |
| `schedule_replicas` | 2 dispatchers, 2 concurrent requests, 1 schedule, overlap allowed, 1 fault | `AtMostOncePerAnchor`: two replicas, crashes and requests in between never fire one anchor twice; `InputIsThere`: without a fault a schedule has its input unless a delete is under way. `ImplementsFiringContract`: what is fired was claimed when it was due, by the step that moved the anchor on; a disable that comes after the claim does not call it off, which the contract allows against the documentation (`disabled_fires`). Two dispatchers and one row are the least for a double claim, two requests the least for a commit that writes over another |
| `schedule_batch` | 1 dispatcher, 2 schedules in a batch, 1 request at a time, overlap `skip`, 1 fault, fair | `SkipBoundsOverlap` (one run per replica), `FiredFromNewestInput`, `LostOnlyByCrashOrDelete`, `AnchorMovesOn`: missed and healed rows do not block the batch; `TypeOK` |
| `artifacts` | a run and its retry (`Roots` are the ids of new runs), the pipeline of the first followed, 1 handler and a cleanup, 2 kinds of artifact, status FAILED, 1 fault, fair | `RowHasInput`, `InputGoesWithRow`, `StateLocationIsThere`: row and objects stay together through creates, retries, uploads, cleanups and what is lost in between. `StartsUnlessErased`: an accepted retry can fetch its parent's state. `ArchivedUnlessKilled`, `CancelLeavesState`: a pod leaves its state, cancelled or not, wherever the signal hits. `FailureSkipsOneRun`: a cleanup passes over what fails. `ImplementsPodContract`. A parent with its retry, and a cleanup between the two, is the least at which one run's objects matter to another's pod |
| `configuration` | 2 profiles, 2 template ids, 2 schedule ids (the files name one of them), 1 secret, 4 files, 3 requests, 1 fault | `NoHalfConfiguration`, `MergeRemovesNothing`, `DefaultProfileStays`: what an import that fails at any step leaves. `NoSecretLeft`, `SecretsAreReal`: inputs are erased with their schedules, `[MASKED]` stands for what is stored and is never stored itself. `FormAgreesWithEngine`: the page and the operator find the same fields visible and required, whatever is null, blank, boolean or missing. `RunMatchesForm`: every value of the form reaches the run. `FixedFieldsStay`: a hidden or readonly field changes only when its options arrive and its value is not among them. The template has fields of several bindings, readonly and secure ones, a checkbox, static and dynamic selects, conditions on a boolean, on a select and on a field that is not there, and one nobody can evaluate, met only after a choice; any input, and options that arrive or fail at any time. Three requests let an import follow another and meet a third; the four files are a good one with a template, one that updates the schedule it has just made, one that refers to a stored secret and ends with an invalid schedule, and one with an id that is not well formed |
| `disabled_fires` | expected violation | documented: "Disabled schedule: Never fires; `next_fire_at` is null until enabled again" (`mcp/resources_content.py:154`). `_fire` (`services/schedule_dispatcher.py:107`) loads the row again and does not look at `enabled`: a schedule that was claimed, and then disabled, is fired from a row that says so |
| `schedule_failure` | expected violation | documented: "Firing is at-most-once: a crash between claim and run creation loses one firing" (`src/docs/pde_operator.md:85`), and a failed firing "does not stop the tick" (the test at `src/pde_operator/tests/test_schedule_dispatcher.py:201`). When the schedule that is being fired is deleted, `record_fire` (`services/schedule_dispatcher.py:119`) updates no row and raises, and the rest of the claimed batch is never fired and records nothing: without any crash, and for schedules nobody deleted |

In the schedule runs time stops at 2 and every schedule has the period 1: two
occurrences are enough for a claim to overlap with the next occurrence, for
one to be missed (`Grace = 0`) and for a delayed commit to come back to the
first. No batch is larger than `BatchSize` in these instances; the order in
which a batch that is too small takes its rows is modelled and not exercised.

At most once holds per *anchor* and not per occurrence. A second enable, or an
update with a new expression, computes `next_fire_at` when it reads the row and
writes it when it commits (`services/schedule_service.py:162`): if a
dispatcher fired that very occurrence in between, the row is set back to it
and it fires again, inside the grace period. TLC reaches this with two enables
at a time (`fired[s][t] = 2`); `AtMostOncePerAnchor` says that it is the only way.

Deadlock is not checked: every instance has finitely many runs, and when they
are over and no request arrives nothing is left to do.

## 4. Fairness

`FairSpec` assumes what the code and its platform provide. Weak fairness of
each worker's and each reconciler's own steps: both loops catch every
exception and poll again (`services/queue_service.py:35-45`,
`services/job_reconciler.py:37-45`). Strong fairness of a request that is
being served: its commit may have to wait for a worker's row lock again and
again, and PostgreSQL gives a lock to the transaction that waits before a
later `SKIP LOCKED` query can take it. `Schedules` assumes only weak fairness of
each dispatcher's own steps (`services/schedule_dispatcher.py:40-50`): it
catches what a tick raises and polls again; nothing is assumed of time or
requests. Weak fairness of pods that run (a
pipeline ends), of the removal of finished Jobs by their TTL, and of time.
Nothing is assumed of arriving requests, of faults, or of pods that are
pending: a pod that cannot be scheduled stays so. `RunArtifacts` assumes weak
fairness of a followed pod's own steps, of a PDE process that was interrupted
(it ends; one that was not need not), of the signal to a pod whose run is
cancelled (the reconciler repeats it in every tick, which is `RunLifecycle`'s
`ReSignal`), and of the requests the API has accepted. `Configuration` has no
liveness property and no fairness.

## 5. Faults

A fault is one of: `create_run_job` refused (any API error; 409 costs no
fault), SIGINT or Job deletion failing, a tick or a request lost with its
transaction (crash, closed connection, failed commit, an exception of
`get_job_phase`). A crash of a replica is the loss of all its ticks and
requests, one after the other. In `Schedules`, a schedule whose cron expression
stops being accepted is a fault too; a firing that fails is none, because a
deleted profile or a missing input makes it fail without anything breaking.
In `RunArtifacts` a fault is a request lost at any step, a call of the object
store that fails or leaves keys behind without saying so, a fetch or an upload
of the pod that fails; SIGTERM and SIGKILL are none. In `Configuration` it is
a call of the store or of the database that fails, or the process's end, in the
middle of an import or a schedule request. One fault per run of TLC is enough
to meet every step of every request; two faults in one request are one, since
the first ends it.

## 6. Proofs

All theorems hold for every value of the constants that satisfies the named
assumptions of the modules, which every run evaluates: any number of runs,
workers, handlers, reconcilers, schedules, dispatchers, callers, files,
secrets, requests and faults. Further assumptions stand in a theorem itself.

`RunLifecycle`:

* `RunLifecycleProofs!TypeCorrect`: `Spec => []TypeOK`. `TypeOK` is not
  inductive. `CommitTick` writes rows it selected many steps earlier; they are
  rows because they are locked, and what is locked cannot be deleted
  (`LocksHeld`). A reconciler writes decisions about copies; they are rows
  because it decides only about rows it loaded (`CopiesLoaded`). A report's
  code is one because requests keep what they carry (`ReportArgs`).
* `RowProofs!CancelCodeIsRequested`: from the invariant `RowInv`. finished_at and cancel_requested_at only go one way, so
  every copy *lags* behind its row in those columns (`CopiesLag`); every
  change a service makes to its copy is sound relative to what it loaded
  (`SoundChange`, `DecisionsAreSound`); and a commit of a sound change of a
  lagging copy is sound (`FlushSound`). Ids must be used once
  (`IdsUsedOnce`): a row created anew would be behind old copies of its
  predecessor. The theorem assumes that no PDE report carries the
  operator's own code `RUN_CANCELLED`; the code does not check that.
* `AdmissionProofs!RunsAreLaunchedOnce`, `AdmissionIsFromQueue`,
  `StartedRunsAreSupervised`. `LocksInv`: the rows of two workers are
  disjoint, a selected row stays as it was selected, and what a tick has still
  to do, has started and has rejected do not overlap. `LaunchInv`: the
  launches of a run are at most those that were lost, and one more if it is
  being started, names its Job, or is gone; a pod implies a launch, and a
  status comes only from a run that was launched.
* `SupervisionProofs!VerdictsAreOnDeadJobs`, `SignalsAreRequested`. Both are
  decided on old copies. `VerdictInv`: a run that names its Job is never
  launched again, so a Job once seen dead stays dead. `SignalInv`: a requested
  cancel is never taken back, so what a copy says of it is still true.
* `CapacityProofs!SlotsPerReplica`. Slots are counted before rows are locked,
  so that the number of slots alone is not inductive. `SlotInv` counts with
  them the `Allowance`: for every worker, what it counted as free and has not
  used. Selecting, launching and committing move a run from one to the
  other.
* `SupervisionProofs!FinishedIsStamped`, from `EndInv`: every change to a row
  or to a copy gives finished_at together with the status that ends the run
  (`Finishes`), and a commit of such a change over a newer row does so too
  (`FlushFinishes`), because both columns are written or neither. The rows it
  does not speak of are those of `resurrected`, which were stamped once
  (`RevivedKnown`).
* `SupervisionProofs!StatusesAloneRevive`, an action property: a commit that
  takes a run out of a terminal status carries a status its pod posted, and
  one that differs from what the request had loaded (`RevivalIsPosted`). It is
  the other side of the run `terminal_final`: that is the one way back, and
  neither a worker, a reconciler, a cancel nor a report has another.
* `SupervisionProofs!UnheededOnlyByRacingCancel`, an action property that no run
  checks: the other side of `cancelled_stops`. A run becomes CANCELLED while
  its pod works on, uninterrupted, only by a cancel that had loaded the row
  without its Job, although a worker has named it since or lost the commit
  that would have; by a status of the pod itself; or by the end of a grace
  period whose deletion of the Job failed. `WhoCancels` names the commits that
  write CANCELLED; `VerdictInv`, which says what a verdict on a living Job is,
  leaves only the failed deletion to the reconciler, and `LaunchInv` says where
  a Job comes from that the row of a cancel does not name.
* `CapacityProofs!QueueImplementsAdmission`: the refinement of
  `AdmissionControl`, for any number of replicas and any limit or none. It
  assumes the queue enabled and no status QUEUED among those a PDE posts,
  which the code accepts. With the queue enabled no request starts a run by
  itself (`NoDirectStart`), so that the commits of ticks are the only steps
  that start runs; `SlotInv` says that what a tick commits still fits, also
  beside the runs that others started since it counted. Every other step
  changes no phase or is one of the abstract queue. TLC checks the refinement
  without statuses, deletes and reconcilers; the theorem has them.

`RunArtifacts`:

* `RunArtifactsProofs!RowsHaveTheirInput`, `InputsGoWithRows`,
  `StateLocationsAreThere`, from `StorageInv`: a row is inserted after its
  input is stored and deleted after it is erased (`InputInv`); a delete
  without a fault has seen the input in its list (`SecretInv`); an upload's
  copy says state only when the object is there or was erased (`StateInv`);
  ids are used once (`IdsUsedOnce`).
* `AcceptedRunsStart`, `EndedPodsAreArchived`, from `PodInv`: a parent's state
  is there or erased from the moment the retry looked at it, through its
  insertion, to the pod's fetch (`ParentInv`); `PodOK` says for every place of
  the entrypoint which files exist, which were uploaded, and which requests
  are on their way.
* `CleanupPassesOverFailures`, from `CleanupInv`: the runs a cleanup is done
  with and that are still there (`Missed`) are at most the failures so far. A
  run that was picked has its id for good, so that no create can add one.
* `EntrypointImplementsContract`: every step maps to one of `PodContract` or
  to a stutter.

`Schedules`:

* `ScheduleProofs!TypeCorrect` with `Typed`: a locked row is there, due and
  locked once; a dispatcher's batch is what it locked; only its creator deals
  with an id that has no row yet.
* `SchedulesHaveTheirInput` (`InputInv`), `ClaimsAreLostOnlyByCrashOrDelete`
  (`LostInv`).
* `FiresAtMostOncePerAnchor`: `OnceInv` adds up the firings of an occurrence,
  the ticks that are about to start it, and one if it is still the row's
  anchor, and bounds the sum by the times it became the anchor.
* `SkipLimitsOverlap`: `SkipInv` counts a dispatcher that may still start a
  run as one that has.
* `FiresFromNewestInput`: with one caller, revisions of the stored input, of
  the request and of the row come in order (`RevisionsInOrder`).
* `DispatchersImplementFiringContract`: the refinement of `FiringContract`, one
  lemma per kind of step. Selecting and loading are stutters; the commit that
  moves the anchors is the abstract claim of the whole batch, also of the rows
  that are missed, held back or broken; a created run is its `Fire`; a failed
  one, a schedule deleted meanwhile and a crash drop what is owed; a request
  changes one anchor at most. `DebtInv` (what is owed is for a time that has
  come) carries `FiringsAreNotEarly`: no run is started before the occurrence
  it is for, although a request may move the anchor to a later one between
  claim and firing. No run checks this last one, since the contract, which
  `schedule_replicas` checks, implies it.

`Configuration`:

* `ConfigurationProofs!TypeCorrect`; `DefaultProfileIsThere` (`DefaultInv`: no
  session holds the deletion of the default profile); `MergingTakesNothing`
  (`MergeInv`: a merging session holds no deletion and adds its template under
  an id that is free).
* `ImportsAreWhole`. `HalfInv` follows two pictures at once, what is committed
  and what the session sees. Before the profiles are upserted both are what
  the import found or that emptied; afterwards what the session sees is
  complete, and what is committed is one or the other. A roll back forgets
  the second, a commit the first.
* `MaskedIsStored`, `NothingIsLeftBehind`, from `SecretInv`: as long as
  nothing failed and no schedule request overlapped an import, every schedule
  has an input exactly if it has a row, and is masked as it is stored, except
  the one whose object is being written or erased before its row
  (`BeingWritten`).

* `FixedFieldsAreFixed`, `PageAndEngineAgree`, `RunsMatchTheirForms`, from
  `FormInv`: an open form has the fields of its template, one value for each,
  and the fixed ones as they were opened, or as the options that arrived have
  made them; its template is the same as long as
  it is there, so that the contract the operator reads again is the form's.
  That page and operator agree is proved from the two translations: a value
  becomes the same text in both (`TextsAgree`), so a condition inside the subset has the
  same truth value (`ConditionsAgree`), and so have the flags of a field
  (`StatesAgree`); and a field the page has no value for is null for the
  operator, since the page leaves out only what has no default.
  They need that a template names a variable once, and that options and
  literals are text (`TemplateAssumption`: the
  fields are the keys of a mapping). The third assumes that at most one field
  is bound to the profile and one to the pipeline data (`OneFieldEach`): of
  two only one can win.

Only model-checked: all liveness properties (`QueuedRunLeavesQueue`,
`CancelEndsRun`, `SupervisedRunSettles`, `AnchorMovesOn`, `CancelLeavesState`),
which are out of the prover's reach. The expected violations need no proof: their traces are the
argument.

## 7. Plan

Done, in this order: the run lifecycle with its abstract queue; schedules;
storage, cleanup and the entrypoint with its contract; imports, templates and
forms; the proofs of section 6. Every invariant and action property of the
runs is proved.

Worth adding next: an abstract registry of runs and their objects that
`RunStorage` implements up to its faults; updates of profiles and simple templates, with the columns
a run copies from them;
multi-selects and the options of the Git and Namespaces interfaces; the merge
of environment variables and resources against a reference definition.

## 8. Not modelled

* The MCP server: it forwards each tool call to a service method that is
  modelled and keeps nothing between calls. Its texts are quoted as the
  documentation of the lifecycle.
* Helm charts, CI samples and scripts: text without state. How many replicas
  there are is a constant of the models.
* Authentication: a stateless check of each request. What a Job's token
  allows its pod is in `JobEntrypoint`; signatures belong to the token library.
* Bytes: the content and encryption of objects, the YAML syntax of files, the
  environment and resources of a Job. The entrypoint's export of mounted
  secrets and the copying of debug and report files are left out with them.
* Read endpoints, previews and the pages of the Argo CD extension besides the
  form: they change nothing.
* Updates of profiles and simple templates: a profile's id stays, and what a
  simple template's row becomes is what creating another one would make it.
  Declarative templates have no update.
* croniter: `NextFire` is a regular schedule, without time zones and daylight
  saving.
