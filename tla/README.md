# A verification project for QFieldCloud

QFieldCloud synchronises QGIS projects between QField devices and a server.
Devices upload *deltas* (edits of features), download *packages* (copies of a
project made for the field), and exchange files.  A queue of *jobs* does the
slow work: each job runs QGIS in a container of its own.

This directory holds TLA+ modules that model the parts of the server whose
correctness depends on the order of events, the configurations that check them
with TLC, and proofs of their main theorems for TLAPS.  Paths below are relative
to `src/`.  `PROJECT.json` maps every definition to the lines it models, lists
the hazards of the code, and for each property gives a mutant of the code that
breaks it.

## 1. Inventory

| Component | State it keeps | Operations | Interacts with |
|---|---|---|---|
| **Job queue** (`docker-app/qfieldcloud/core/management/commands/dequeue.py`, `worker_wrapper/wrapper.py`, `core/cron.py`, `core/models.py`) | rows of `Job` (status, started_at, container_id), the memory of each worker process, the transaction of each dequeue | dequeue, run, clean up orphans, fail late jobs, create, delete, re-run | PostgreSQL (row locks, snapshots), the container executor, every job type |
| **Container executor** (`worker_wrapper/executors/docker.py`, `ecs.py`) | containers or ECS tasks | launch, wait, stop, remove, list, kill | the job queue; the QGIS worker inside |
| **Deltas** (`core/views/deltas_views.py`, `core/utils2/jobs.py`, `ApplyDeltaJobRun`) | rows of `Delta`, `ApplyJob`, `ApplyJobDelta` | upload, apply, batch, collect feedback, set a status by hand | job queue, cron, QGIS worker |
| **Packaging** (`core/utils2/packages.py`, `core/views/package_views.py`, `PackageJobRun`) | `PackageJob`, `Project.data_last_packaged_at`, package files | create a job, upload the files, delete obsolete packages, download | job queue, file storage |
| **Project file processing** (`ProcessProjectfileJobRun`, `CreateProjectJobRun`) | `Project.project_details`, thumbnail, status | create a job on upload, store the details | job queue, file storage |
| **File storage** (`filestorage/`) | `File`, `FileVersion`, objects in a bucket, `Project.file_storage_bytes`, `locked_at` | upload, download, delete a version, purge old versions, migrate the storage | project, quota, packaging |
| **QGIS worker** (`docker-qgis/`) | a working directory, layers with edit buffers | steps of a workflow, application of deltas, packaging | API of the server, files |
| **Projects, collaborators, roles** (`project/`, `core/permissions_utils.py`, `core/sql_config.py`) | rows, SQL views of roles | create, share, effective role | every API view |
| **Organizations, teams, members** (`core/models.py`) | rows | add, remove | roles, quota |
| **Subscriptions** (`subscription/`) | plans, packages, periods | update, change a quantity | quota of file storage and members |
| **Authentication** (`authentication/`) | tokens | log in, expire, replace | every API view |
| **Notifications** (`notifs/`) | rows of `Notification` | written by signals, mailed by cron | members, teams, projects |
| **Invitations** (`core/invitations_utils.py`, `core/cron.py`) | invitations, the budget of the inviter | invite, send again, drop the expired, register | sharing of projects, accounts |
| **Purge of deleted objects** (`scripts/object_storage_cleaner/`) | versions in the bucket, the memory of the script | list, group, delete in batches | file storage |
| **Project creation** (`project/utils/`, `docker-qgis/qfc_worker/commands/create_project.py`) | `ProjectSeed`, `CreateProjectJob`, files of two projects | create from a project, an XLSForm or settings | job queue, file storage |
| **Secrets** (`core/models.py`) | rows of `Secret` | create, assign, delete, collect for a job | members, collaborators, job queue |
| **Downloads in parts** (`filestorage/view_helpers.py`, nginx) | the client's parts, the redirect | check a range, redirect, fetch | file storage |
| **Admin site, deployment** | configuration | | |

### What is hard

* Two or more workers dequeue at the same time, each in a transaction of its
  own at isolation REPEATABLE READ with `SKIP LOCKED`; "one job at a time per
  project" is a condition over several rows that no lock protects.
* A worker that dies leaves a row, a container and memory that no longer agree.
  The repair is spread over three places: `cancel_orphaned_workers`, the cron
  job, and the admin's re-run button.
* cron's verdict on a late job races the worker's own last save.
* A delta passes through the hands of an API request, a job, a container and
  cron; each writes its status.
* Files live in two stores, the database and the bucket, that no transaction
  spans.
* Quotas and roles are computed over periods and several kinds of membership,
  where the boundaries count.
* Tokens, invitations and notifications are read, changed and saved as whole rows
  by requests and cron jobs without a transaction around them.
* The purge decides page by page on a bucket that is in use.

### What makes each component correct

* *Job queue*: no two live jobs of a project; a job is run by one worker; a
  final status stays; jobs are run in order; a pending or started job settles;
  the container of a deleted job is reclaimed, and no other.
* *Deltas*: a delta is applied by one job at a time and written to the data at
  most once; what the status says is what the data holds; none stays started.
* *Packaging*: the package offered for download exists; a project whose data
  changed is packaged again.
* *File storage*: the latest version of a file exists in the bucket; storage
  used is the sum of the versions; a version in use is not purged.
* *QGIS worker*: a failing delta leaves the layers as they were; a workflow stops
  at its first failing step and says so.
* *Roles, subscriptions*: owners keep control and outsiders have none; the plan's
  caps hold; a request finds one current subscription.
* *Tokens*: a client that may have one token has one; a token that was ended stays
  ended.
* *Notifications, invitations*: nobody is left untold; an address that was mailed a
  link has the invitation it leads to.
* *Secrets*: a job gets the secret of a name that its user should get, and that one
  only.
* *Downloads*: parts that were fetched one by one make up one version.
* *Purge*: what could be read can still be read, and what was deleted does not
  come back.
* *Project creation*: a job that says it has finished has made a whole copy.

## 2. Plan

Modules were written in this order, the most important behaviour first.

| Modules | Status |
|---|---|
| `ProjectLease` (abstract), `JobQueue` (detailed) | checked and proved |
| `DeltaQueue`: deltas from their upload to their outcome | checked, safety proved |
| `FileVersions`: uploads, deletions, purge of versions, quota | checked and proved |
| `Packaging`: package jobs, process jobs, clean-up, downloads | checked and proved |
| `DeltaApply`: the QGIS worker's application of deltas | checked and proved |
| `Subscriptions`, `Access`, `Requests`: periods, packages, members, roles, who is served; each extends the one before | checked and proved |
| `Tokens`, `Notifications`, `Invitations`, `Purge`, `Creation`, `Secrets`, `Downloads`, `Projects`, `JobRuns`, composed in `Services` | checked and proved |

No module uses a RECURSIVE operator, so all of them can be proved about.

How the modules fit together.  `DeltaQueue`, `Packaging` and `Creation` take from
`JobQueue` what `ProjectLease` promises: a job starts while no other job of its
project is started.  `DeltaApply` takes from `DeltaQueue` that one job at a time
has the deltas.  `Packaging` takes from `FileVersions` that an upload makes a new
version at its COMMIT.  `Access` is composed with `Subscriptions`, because the caps
of the plan are looked up by the requests that change members and roles.  The
modules are not composed further: their product is out of TLC's reach, and what
one takes from another is what the other's run checks.

Each module has one type invariant.  That of `JobQueue` is a theorem of its own; in the
others it is the first conjunct of one of the properties, which thereby cover it.

## 3. The job queue

### Modules

| Module | What it is |
|---|---|
| `ProjectLease` | the promise: a project is worked on under a lease that has one holder and, once lapsed, is never renewed |
| `JobQueue` | the table, the workers, the dequeue transactions, the containers, cron, the API and the admin |
| `MCJobQueue` | the instances for TLC |
| `ProjectLease_proofs`, `JobQueue_proofs` | the theorems |

### State

| Variable | Code |
|---|---|
| `status`, `startedAt`, `containerId` | columns of `core_job`; a job not created yet is `"unborn"`, a deleted one `"deleted"` |
| `deleted`, `lockedAt` | rows of `Project` and their `locked_at` |
| `pc`, `job`, `container`, `seen` | a `worker_wrapper` process: its place in `Command.handle` and `JobRun.run`, and its local variables |
| `todo`, `stale`, `locks` | its dequeue transaction: rows of the snapshot left to lock, those of them written by others since, rows it holds `FOR UPDATE` |
| `cstate`, `cjob` | the containers as the daemon knows them, and their label `job_id` |
| `crashes`, `reruns` | counters that bound the model |

### Actions

The loop of a worker, in the order of the code:

| Code | Actions |
|---|---|
| `cancel_orphaned_workers` (`wrapper.py:711`, `ecs.py:321`) | `ListWorkers`, `QueryJobs`, `KillOrphan`, `OrphanNotFound`, `CleanupDone` |
| the transaction of `dequeue.py:71-101` | `BeginDequeue` takes the snapshot; `SkipLocked`, `LockRow` and `SerializationFailure` are what PostgreSQL does with the next row in `ORDER BY created_at`; `CommitQueued` |
| `JobRun.run` (`wrapper.py:227-383`) | `StartJob`, `CheckConcurrency`, `ResetJob`, `PrepareRun`, `FinishRun`, `FinishFails`, `FailRun` |
| `JobRun._run_docker` | `LaunchContainer`, `LaunchFails`, `RecordContainer`, `SeeExit`, `SeeSigkill` |
| an exception nothing catches | `DieOnDeletedRow`, `OrphanNotFound`, `SerializationFailure`: the process ends and is started again |
| the host or the process dies | `Crash` |
| the QGIS container | `ContainerExits` |
| cron | `Elapse`, `FailOverdueJobs` |
| API and admin | `CreateJob`, `DeleteProject`, `ToggleProjectLock`, `SaveProject`, `RerunJob` |

A save of the worker is one autocommitted `UPDATE`, and it waits for a row
that a dequeue transaction of another worker has locked (`Update`).  Saves that
follow one another with nothing visible in between are one action.

Time is abstracted to what cron tells apart: `started_at` is NULL, recent, or
older than `WORKER_TIMEOUT_S + 10` seconds.  The two copies of that timeout,
one in the worker (`container.wait`) and one in cron, are thus unordered in the
model, which they are in the code when the worker is slow or the clocks differ.

### What the runs check

| Run | Instance | Shows |
|---|---|---|
| `jobqueue_safety` | 2 workers, 2 jobs of a project, 2 containers, 2 crashes, no re-run | the inductive `QueueInv`, `MutualExclusion`, `FinalStatusSticks`, and that the queue refines `ProjectLease` (`ImplementsLeases`) |
| `jobqueue_progress` | 1 worker, 2 jobs, 1 container, 1 crash, 1 re-run | `RunsInOrder`, `PendingSettles`, `StartedSettles`, `OrphanReclaimed` |
| `jobqueue_early_kill` | 2 workers, 1 job | `KillsOnlyOrphans` is violated: the clean-up kills a container between its launch and the save of its id |
| `jobqueue_stuck` | 1 worker, 1 job, 1 crash | `QueuedStarts` is violated: a job that is queued when its worker dies stays queued |

The bounds.  A race over a project needs two workers and two jobs; a third
worker adds no new pair.  Every property is about one job, or about a pair of
jobs or workers, and the theorems hold for any number of them.  Two
containers let each job have one; a job is launched at most once unless it is
run again.  Two crashes let both workers die, or one die twice.  The safety run
takes workers and containers as symmetric; the order of jobs matters, so they
are not.  The progress run uses no symmetry.

`MutualExclusion` is stated as the code can keep it.  Two jobs of a project are
executed at a time only when the queue has given up on one of them: its time is
over or it was declared failed while its container survived (a `stop` that the
daemon refused three times, say).  What TLC and the proofs exclude is that a
race of two dequeues, a reset, or a crash leads there.

The safety run and the proofs take `MaxReruns = 0`, because with the re-run button
`MutualExclusion` is false: staff may reset a job that is started, and a second
worker takes it (section 11).  The progress run has one worker.
With two, `RunsInOrder` is false (a row that is locked is skipped) and
`PendingSettles` is false: two workers that both start a job of one project
count each other in the concurrency check, both reset, and may do so for ever.

### Fairness

`FairSpec` assumes, and the deployment justifies:

* `WF(WorkerStep(w))`: a worker that can go on does, and a worker that died is
  started again (`restart: unless-stopped`, the ECS service's desired count);
* `SF(LockRow(w))`: a worker whose transaction is rolled back by a
  serialization failure tries again for ever, and is not beaten by a concurrent
  writer each time; without it an endless stream of saves of the project starves
  the dequeue;
* `WF(Elapse(j))` and `WF(FailOverdueJobs)`: time passes, and cron runs.

No fairness is assumed of clients, of the admin, of the QGIS container (it may
hang; the worker's wait times out), or of crashes.  `PendingSettles` has
two hypotheses, both about the environment: no crash, since a crash leads to
`jobqueue_stuck`, and a project that is not kept locked for ever.

### What is proved

For any number of workers, projects, jobs, containers and crashes, from
`QueueAssumption` and, but for `TypeCorrect` and `RunsInOrderHolds`, from
`MaxReruns = 0`; `RunsInOrderHolds` is about one worker and any number of re-runs:

| Theorem | Statement |
|---|---|
| `TypeCorrect` | `Spec => []TypeOK` |
| `QueueInvariant` | `Spec => []QueueInv` |
| `MutualExclusionHolds` | `Spec => []MutualExclusion` |
| `FinalStatusSticksHolds` | `Spec => FinalStatusSticks` |
| `LeasesImplemented` | `Spec => ImplementsLeases` |
| `RunsInOrderHolds` | `Spec => RunsInOrder`, when `Workers = {u}` |
| `LeaseHasOneHolder` | `LeaseSpec => []OneHolder` |

`MutualExclusion` is not inductive: that two workers do not run jobs of one
project depends on what the table said when each of them counted the other's
jobs, and on what a dequeue transaction knows of a row it has not locked yet.
`QueueInv` adds the missing parts: a worker has a job of its own in memory
(`HoldsOneJob`); a waiting job is in nobody's memory and has no container
(`WaitingIsFree`); what a transaction knows of a row is true or marked stale
(`TransactionsAgree`); what a worker runs is started, deleted, or was failed by
cron (`RunningIsStarted`); a job is launched once and its container is gone
before it finishes (`LaunchedOnce`).  With these, the concurrency check decides
alone: `StartJob` writes STARTED *before* it counts, so of two workers the later
one to count sees the other.  The proof has one lemma per action, which shows
that the action preserves `QueueInv` and is a step of `ProjectLease` or a stutter.

`RunsInOrder` compares the job that passes the concurrency check with rows that the
dequeue query looked at several steps before, and others write meanwhile.  Its
invariant, `OrderInv` of `JobQueue_proofs`, carries the query's answer to the check:
when the snapshot is taken, an earlier job of a project that is not busy is in the
snapshot, or it has `Passed`: it was started, or its row or its project is gone
(`TakesInOrder`; `CreatedInOrder` and `StartedAtSet` say why there is no fourth case).
A job that passed stays so, staff's re-run included, which leaves `started_at`; only
`ResetJob` clears it, on the worker's own job and when it lets go of it.  The worker
takes the oldest row (`OldestFirst`), and one worker alone never skips one that is
locked.

Only model-checked: the liveness properties and the violations.

### What the model leaves out

* What the job types do before and after their container runs; their effect on
  the row of the job is in `PrepareRun`, `FinishRun`, `FinishFails`, `FailRun`.
* The exit codes that only choose an error message, `output`, `feedback` and the
  metrics of the container.
* The 5 seconds of sleep between two rounds, and SIGTERM, which ends the loop
  between two jobs and is a `Crash` without effect.
* ECS throttles its clean-up by time, which removes behaviours from the model but
  adds none.
* cron's writes of deltas in the same function (they are in `DeltaQueue`).

## 4. Deltas

`DeltaQueue` models one project's deltas from their upload to their outcome;
`MCDeltaQueue` holds its instances for TLC.

### State and actions

| Variable | Code |
|---|---|
| `lastStatus` | `Delta.last_status`; `"rejected"` stands for CONFLICT and NOT_APPLIED, `"refused"` for IGNORED and UNPERMITTED, which the server treats alike |
| `deltasOf` | the rows of `ApplyJobDelta` of a job |
| `jobStatus` | `ApplyJob.status`; `"open"` from `objects.create` to the COMMIT, `"pending"` also while queued |
| `pc`, `deltaIds`, `feedback` | the worker that runs a job: its place in `JobRun.run`, whether `self.delta_ids` is set, the feedback not written yet |
| `box`, `copy`, `result`, `wrote`, `data` | the container: how far it is, its working copy, its delta feedback, what it wrote; and the files of the project, as the set of deltas in them |
| `rpc`, `want`, `excludes`, `count`, `batch`, `selected`, `opened`, `locks` | a request inside `post` or `apply_deltas`: its place, its local variables, the rows it holds `FOR UPDATE` |
| `cronJobs`, `cronTodo` | cron, between its filter, its loop and its `update` |
| `crashes`, `strays` | a bound, and the jobs that were given up while their container went on |

| Code | Actions |
|---|---|
| `deltas_views.py:68-161`, `:226-245`, `admin.py:1717` | `Post`, `InsertDeltas`, `RequestApply` |
| `apply_deltas` (`jobs.py:18-104`), statement by statement | `LockFirst`, `NothingToApply`, `SeeActiveJobs`, `CountDeltas`, `OpenJob`, `FillJob`, `CommitJobs`, `Abort` |
| `JobRun.run` with the hooks of `ApplyDeltaJobRun` | `StartJob`, `Prepare`, `PrepareFails`, `Launch`, `LaunchFails`, `SeeSuccess`, `WriteFeedback`, `FeedbackFails`, `FinishJob`, `SeeFailure`, `AfterException`, `LoseContainer`, `HandleException`, `SaveFailed`, `Crash` |
| the workflow in the container | `ApplyToCopy`, `UploadAndExit`, `FailAndExit` |
| cron (`cron.py:53-92`) | `CronBegin`, `CronMark`, `CronFail`, `CronDies` |
| the admin's actions on deltas | `SetStatus` |

`apply_deltas` is one transaction at READ COMMITTED.  Each statement sees what is
committed when it begins.  A `SELECT ... FOR UPDATE` waits for locked rows and then
looks at the rows that were updated meanwhile again, but not for rows of other
tables: `selected` is what the statement found when it began, `FillJob` takes
those of them that are still pending.  `exists()` adds `LIMIT 1` to the first such
statement, so that it locks one row (`LockFirst`).

Which deltas can be applied is left open (`ApplyToCopy` chooses any subset), and
so is whether the data was replaced when an upload fails.  cron may find any
started job to be over time, because the model has no clock.

### What the runs check

| Run | Instance | Shows |
|---|---|---|
| `deltas_safety` | 1 request, 2 deltas, 2 jobs, 1 crash | `OneActiveJob`, `WrittenOnce`, `AppliedIsThere` (with the type invariant) |
| `deltas_progress` | 2 requests, 1 delta that staff may touch, 1 job, 1 crash, fairness | `StartedSettles` |
| `deltas_race` | 2 requests, 2 deltas, 2 jobs | `OneActiveJob` is violated by two requests |

`OneActiveJob` is false in general, as `deltas_race` shows, and whenever there are
more deltas than the limit of a batch (section 11).  The
safety run therefore has one request at a time and a limit above the number of
deltas: in this instance nothing else (a crash, an abort, cron, a job that
starts between two statements) puts a delta into two active jobs.  Two deltas
are needed for a job that takes one and leaves the other to a second job, and
two jobs for a delta to come back.  Staff does not touch deltas in the safety run:
who sets an applied delta back to pending asks for it to be written again.

`AppliedIsThere` has one exemption that is not the code's intention: when a job
was given up while its container lived (`strays`), that container may still
upload its old copy over the data of a later job.

`StartedSettles` exempts the deltas of a worker that dies when cron has marked
the job's deltas already, or when the job has its final status
(`pc[j] = "lost"`).  The short instance of it is `wrapper.py:326`: FAILED is
saved, the worker dies, `after_docker_exception` never runs, and cron looks
at started jobs only.

### Fairness

`WF(RequestStep(r))`: a request ends, by an abort at worst.  `SF(WorkerStep(j))` and
`SF(CronMark(j))`: a process that lives goes on, and an UPDATE that waits for a
lock gets it although other requests lock the row again and again; PostgreSQL
queues those that wait.  `WF(CronStep)`: cron runs.  Containers need not end:
the worker's wait has a timeout, which is one of the cases of `SeeFailure`.

### What is proved

In `DeltaQueue_proofs`, for any number of requests, deltas, jobs and crashes:

| Theorem | Statement |
|---|---|
| `AppliedIsThereAlways` | `Spec => []AppliedIsThere`, with the type invariant |
| `OneActiveJobAlways` | `OneAtATime` and `OneBatch` imply `Spec => []OneActiveJob` |
| `WrittenOnceAlways` | `OneAtATime` and `OneBatch` imply `Spec => []WrittenOnce` |

`AppliedIsThere` needs `DataInv`: that "applied" is written after a look at a feedback
says nothing unless that feedback is of a container that has uploaded its copy
(`Boxes`), and the copy was made of data that nobody has replaced since, which one
started job at a time sees to as long as no container was given up (`Copies`).
Jobs that a transaction has created and not committed yet are run by nobody
(`Opening`).

The two hypotheses of the others are those of the safety run, and both are needed.
`OneAtATime` says that requests do not overlap, `OneBatch` that there are fewer deltas
than the limit; `deltas_race` refutes `OneActiveJob` without the first, and the batches of
section 11 without the second.  Neither property is inductive.  `OnceInv` says
that what a transaction has selected is in no active job and that it fills one
job at most (`Batching`), that a job after its mark has no pending delta, be it
the worker's or cron's mark (`MarkedSettled`), that jobs that
have taken their deltas share none (`OneTaken`), and that of two jobs whose
containers may still write none shares a delta with the other unless staff set it back
(`OneMayRun`).  The last is what WrittenOnce rests on: a container that was given up
keeps its deltas from every later job, because they were marked and are not pending.

Only model-checked: `StartedSettles`, which is liveness, and the violation of
`deltas_race`.

### What the model leaves out

* The re-run of an apply job by staff, and the deletion of a project or a delta.
* `overwrite_conflicts`, `last_modified_pk` and the map of client primary keys,
  which matter inside the QGIS worker (section 7).
* `status` and `feedback` of `ApplyJobDelta`: nothing reads them.
* Layers in a remote database, which the container writes without an upload, and
  uploads of files by devices: `data` is written by apply jobs only, and at once.
* The container's feedback names every delta of its job.

## 5. Files

`FileVersions` models the files of one project: the rows of `File` and
`FileVersion`, the objects in the bucket, and the requests that upload a version,
delete one, or delete a file.

| Variable | Code |
|---|---|
| `fileOf`, `latest` | the id of the `File` of a name; `File.latest_version` |
| `rowOf`, `content`, `created` | `FileVersion.file`, `.content` (its key), and the order of `created_at` |
| `storageBytes`, `qgisName` | `Project.file_storage_bytes`, `.the_qgis_file_name` |
| `stored` | the object storage: the version whose bytes are under a key |
| `pc`, `op`, `name`, `ver`, `file`, `doomed`, `heir` | a request: its place and what it has read |
| `lapsed`, `condemned`, `raced`, `shuffled` | history: the exceptions the properties name |

| Code | Actions |
|---|---|
| `upload_project_file_version`, `File.add_version` | `CheckUpload`, `BeginUpload`, `CreateFile`, `CreateFails`, `PutObject`, `SaveUpload`, `UploadFails` |
| `purge_old_file_versions` | `ListSurplus`, `NothingToPurge` |
| `delete_project_file_version`, `FileVersion.delete`, the signal `pre_delete_file_version` | `CheckDeleteVersion`, `DeleteContent`, `BlankContent`, `SignalDeletion`, `CommitDeletion`, `DeletionFails`, `Tally`, `TallyFails` |
| the deletion of a `File` | `CheckDeleteFile`, `Cascade`, `CascadeFails` |
| `django_cleanup` after the COMMIT | `CleanObjects` |
| the process dies | `Crash` |

A transaction takes effect at its COMMIT; what it has read before is as old as
the statement that read it.  The object of an upload is written before
its row; the purge deletes rows first and objects after the COMMIT; the deletion
of a version by its id deletes the object first, outside of a transaction.

`files_safety` has two requests at a time, one QGIS file, four versions, a plan
that keeps one version and stores two, and one crash.  Two requests make every
pair of operations overlap, and four versions let the purge and a deletion each
take one while an upload adds another.  Every file is treated alike, except for
the name of the QGIS file, so one file that is the QGIS file shows all cases.
The run checks:

* `StoredVersions`: a version that no deletion by id was let loose on has its bytes;
* `NeverEmptied`: a file loses its last version only when two deletions overlap,
  and a file with versions has a latest one, as long as uploads are saved in the
  order they began;
* `StorageWithinPlan`: outside of a deletion the counted storage is that of the rows,
  and uploads that overlap overdraw the quota by one upload of each client but one
  at most.

All three are proved in `FileVersions_proofs`, for any number of requests, names,
versions and deaths:

| Theorem | Statement |
|---|---|
| `StoredVersionsAlways` | `Unversioned = {}` implies `Spec => []StoredVersions`, with the type invariant |
| `NeverEmptiedAlways` | `Spec => []NeverEmptied` |
| `StorageWithinPlanAlways` | `Spec => []StorageWithinPlan` |

The hypothesis of the first is needed: the versions of an unversioned attachment share
one key (section 11).  With a key for each version the invariant says that a
number which an upload has drawn is known to nobody else until its row is saved
(`Own`), and that rows whose objects a deletion has in hand are condemned or gone
(`Bytes`).

`StorageWithinPlan` counts the requests that have passed the check of the quota and not
saved a version yet: the size of the versions plus these is at most the quota plus the
number of clients less one (`Overdraft`).  It is inductive as it stands because a request
passes only when there is room for one more version and every other client may
have passed as well.

`NeverEmptied` is the deep one.  A file that no two deletions overlapped in keeps a
version outside of what every deletion under way has in hand (`Remain`): the purge leaves the
row that was created last, and a deletion by id leaves one or is refused.  That needs to
know that a file has one name and a request its file's (`Files`), that every row has its
place in the order of creation (`Stamped`), and that a save by a deletion does not bring
back a row another one has deleted (`NoReinsert`).  Where uploads are saved in order, the
latest version is the last one (`LatestIsLast`) and the heir that the signal handler works
out is the last one its deletion leaves (`HeirIsNext`).

TLC has checked each of these invariants on the instance of the run, on two names of which
one is unversioned, and on three requests, before they were proved.

Left out: downloads (they change nothing; section 9 has those in parts), the
staff's deletion of files, the migration of a project's storage, WebDAV against S3
(both overwrite a key).

## 6. Packaging

`Packaging` models what the jobs of one project make of its files: packages and
the project's details.

| Variable | Code |
|---|---|
| `jobs` | rows of `PackageJob` in the order of `created_at` with the files of their package, and how far their runs are |
| `process`, `processed` | the last `ProcessProjectfileJob` of a user, and the version its container has read |
| `members` | the users with access |
| `version`, `details`, `packaged` | the files as a number of uploads; the version `project_details` was made of; whether `data_last_packaged_at` is set |
| `creating` | requests between the look for an active job and the save of a new one |
| `doomed`, `cleaning` | what a cleaner (each worker, and cron) has listed and not deleted yet |

| Code | Actions |
|---|---|
| `JobViewSet.create`, `force` | `RequestPackage`, `CreatePackage`, `ForcePackage` |
| upload of the project file | `Upload` |
| members and collaborators | `AddMember`, `RemoveMember` |
| `PackageJobRun` and the package workflow | `Start`, `Download`, `UploadPackageFile`, `ContainerSucceeds`, `ContainerFails`, `Throw`, `SaveFailure`, `SavePackagedAt`, `CleanUp`, `Finish` |
| `ProcessProjectfileJobRun` | `StartProcess`, `DownloadForProcess`, `ProcessSucceeds`, `ProcessFails`, `ResetDetails`, `SaveDetails`, `FinishProcess` |
| cron | `GiveUp`, `ListObsolete`, `DeleteObsolete` |

A time is the number of uploads there had been, since `finished_at` is compared
with nothing but `data_last_updated_at`.

The run `packaging` has an owner and a member with a secret of his own, whose
packages are therefore only his; three package jobs, two uploads, one job given
up by cron, and five events of the environment in all.  Three jobs let a package be
offered, one fail and one be made; two users tell "the latest job of the project"
from "the latest job of the user".  It checks:

* `OfferedIsWhole`: the package the API offers is whole, with the exceptions it names;
* `UploadsSurvive`: no cleaner deletes the files of a package that is being uploaded;
* `UpToDate`: when there is nothing to repackage, the newest package was made of
  the files as they are, unless they changed under its run;
* `DoublesBounded`: the check-then-create makes at most one active job per user;
* `DetailsCurrent`: with no process job left, the details are those of the files,
  with one exception (an upload during a run that has read the files).

All five are proved in `Packaging_proofs`, for any number of users, jobs, uploads and jobs
given up, whether the project is public or not and whoever has secrets of his own:
`OfferedIsWholeAlways`, `UpToDateAlways`, `DoublesBoundedAlways`, `DetailsCurrentAlways` and, of every
step, `UploadsSurviveAlways`.  There are three invariants.

* `FilesInv` (`PackagesAgree`): what a cleaner has listed is over and was replaced by a newer job of
  the same user, or the user has left (`Listed`), and both stay true however late the
  deletion comes; a job whose container has succeeded has all of its files until it is
  replaced (`WholeUntilReplaced`); what a run has read is the version at its end, but for uploads that
  overtook it (`RunAgrees`); who has a job is a member or was one (`ByMembers`).  `Listed` is why a
  cleaner never meets a package that is being uploaded.
* `Doubles`: a request between its look for an active job and its INSERT counts as the job
  it will create.  The look finds none, so the sum starts with the requests alone,
  and a user has one at a time.
* `DetailsInv`: one process job runs at a time; when the one that runs has read
  files that are no longer the last, either a job is pending behind it or the
  upload counted on this one (`Followed`); and as long as the details are not those of
  the last upload some job is due that will save or reset them (`DetailsDue`).

Left out: `repackage` and `repackage_if_needed`, which only tests use; the content
of a package.

## 7. Application of deltas

`DeltaApply` models the features of a project's layers: what clients push, the
`apply_deltas` workflow in the container and the hooks around it.

| Variable | Code |
|---|---|
| `local` | the clients' copies of the layers, from one package |
| `deltas`, `status`, `modifiedPk` | `Delta.content`, `.last_status`, `.last_modified_pk` |
| `data` | the layers: files of the project, or tables of an outside database |
| `phase`, `overwrite`, `todo` | the job: how far it is, `overwrite_conflicts`, the deltas it has not come to |
| `work`, `edit`, `at`, `log`, `unsent` | the container: downloaded files, edit buffers, the feature at hand, `delta_log`, files not uploaded yet |

| Code | Actions |
|---|---|
| a client | `PushCreate`, `PushPatch`, `PushDelete` |
| `before_docker_run` with the look-up of the clients' keys | `TakeDeltas` (any order: there is no ORDER BY) |
| the workflow | `Download`, `CreateFeature`, `RefuseFeature`, `PatchFeature`, `DeleteFeature`, `CommitChanges`, `EditFails`, `LogFailure`, `AllApplied`, `StopQgis`, `UploadLayer`, `StepFails` |
| `after_docker_run`, `after_docker_exception` | `AfterRun`, `AfterException` |
| staff | `Retry` |

The run `deltas_apply` has two clients, a file layer and a database layer, two
values, three keys, three deltas, one retry and one failure.  Three deltas are a
creation, a change of what was created, and one of another client that takes the
same key; a failure between two layers or after the upload leaves the one without
the other.  It checks:

* `LayersReplayLog`: between two deltas the layers are those that were downloaded
  with the deltas reported as applied, in the order of the report: the
  reference definition is a recursive function over the log;
* `FilesChangeByJobs`: a file on the server changes to the whole job's result only;
* `HitsTarget`: a delta changes the feature its client meant, also under another key, once
  an earlier job has created it; or the feature that an earlier delta of the same key was
  misled to.  The second part takes a fourth delta, so that this run never sees it: TLC
  finds it with one layer and four deltas, and the proof has to account for it;
* `CreatedOnce`: a delta creates one feature however often it is retried, unless a
  job failed after the data had got it.

Left out: the inverse mode, backups and `rollback_deltas`, which nothing calls;
conversions of values; features with several attributes (all that is asked of
them is whether an old value differs).

### What is proved

`DeltaApply_proofs` proves the four properties for any number of clients, layers, keys,
values, deltas, retries and failures: `LayersReplayLogAlways`, `CreatedOnceAlways`,
`FilesChangeByJobsAlways`, `HitsTargetAlways`.  Assumed are finite sets of clients, layers
and keys, keys from 1 on, and markers (`None`, `Gone`, `Missing`) that are no data.
The invariant, `Inv`, is the conjunction of the types and of

| Part | What it says and why it is needed |
|---|---|
| `JobInv` | the deltas of a job are started, each is still to come or in the log, once; only an applied one has a key.  With it the hook finds one entry for a delta |
| `EditInv` | between two deltas no layer is in edit mode; in between the one of the delta at hand may be, and an edited one differs from the layer in one key, by what the delta makes.  This is what the roll-back of a refused delta keeps, and what a commit relies on |
| `FreeInv` | a layer has features of its own deltas only, one of each that no failed job has spilt (`Sound`), and none of a delta that was not applied (`NotYet`), neither in the data, nor in the container, nor in what it downloaded.  A retry of a refused delta creates its feature for the first time for that reason; the part about the download lets a failed job that has changed nothing be taken back |
| `HitInv` | under the key that a delta reported there is the feature it has changed, or nothing any more, in the data and in the container: keys are not given again |
| `KeysInv` | a client's key is 1 or that of one creation of its own |
| `ReplayInv` | there is a state of each layer for every entry of the log, from the layer that was downloaded to the one there is (`Replayed`).  The recursion of `Replay` is never unfolded further than one entry; `ReplayIs` shows by the least entry at which two replays differ that there is one replay |

`CreatedOnceAlways` and `LayersReplayLogAlways` follow from `FreeInv` and `ReplayInv`;
`FilesChangeByJobsAlways` from the latter at the upload; `HitsTargetAlways` from `HitInv` for
the delta that the key was taken from, and from `KeysInv` when none has one.

## 8. Subscriptions and access

`Subscriptions` models the subscriptions of one organization and their additional
packages on a time line; `Access` extends it with the organization's members, its
team, a project, its collaborators, and the role every user gets.  `Requests`
extends `Access` with the requests of the API: which permission each asks for, and which
lists a project or a person is in (`ServedInProject`, `ServedInOrganization`,
`Listed`, `OfferedForProject`, `CanDeleteSecret`, `Cancels`).  It has no variables of its own:
it is what the views make of the roles, and the properties are about both.

| Variable | Code |
|---|---|
| `now` | the clock, `SecondTicks` ticks to a second, since `replace(microsecond=0)` cuts a time down |
| `subs`, `packages` | rows of `Subscription` (plan, `active_since`, `active_until`) and `Package` |
| `orgOwner`, `members`, `teamMembers` | the rows of an organization |
| `collabs`, `incognito` | `ProjectCollaborator`, `is_incognito` |
| `projOwner`, `isPublic` | `Project.owner`, `.is_public` |
| `effort`, `ordered`, `moved` | a bound; history |

| Code | Actions |
|---|---|
| `get_or_create_current_subscription`, `create_subscription`, `update_subscription` | `LookUp`, `Subscribe`, `Activate`, `SetUntil` |
| `set_package_quantity` | `SetPackageQuantity` |
| members' views and models | `AddMember`, `ChangeMember`, `RemoveMember`, `TransferOrganization` |
| team views | `AddTeamMember`, `RemoveTeamMember`, `DeleteTeam` |
| collaborators' views, models and web pages | `AddCollaborator`, `ChangeCollaborator`, `RemoveCollaborator`, `CreateCollaborator` |
| project | `TransferProject`, `SetPublic` |

The SQL views are operators: `RoleRows` and `FirstRow` for
`projects_with_roles_vw` and its DISTINCT ON, `ViewPlans` for
`current_subscriptions_vw`, and `OrganizationRows` and `OrganizationRole` for
`organizations_with_roles_vw`.  `permissions_utils.py` is a table from what may be done
to roles: `Permissions` in a project, `OrganizationPermissions` in an organization, where
members and secrets are managed; the members' and the teams' actions are guarded
by it.  The exclusion constraints of the tables are `Storable` and
`StorablePackages`, over half-open ranges, while `current()` takes
both ends of a period and the SQL view neither: three notions of one period, which
the model keeps apart.

The run `access` has three plans (a cap of members, unlimited, a trial), three people,
and four ticks of a clock with two ticks to the second, so that a period can end
in, at the end of, and after the second in which another begins.  Three requests
are sent (`MaxRequests`); the properties need one to three: who is
removed, transferred or added, and what the plan is by then.  It checks:

* `ServedOffBoundaries`: a request finds or creates a current subscription, except in
  the second in which one ended and before one that is to begin;
* `OrderedQuantity`: the quantity of packages an account is told is the last ordered;
* `RolesHold`, which has two parts.  `OutsidersRefused`: nothing is left to who left: no place in a team, no request about a
  private project of the organization, no list that shows it; what the organization
  pays for is its owner's alone;
  `OwnersServed`: owners and admins are served every request about the project and the
  organization, whatever rows are left, and are offered whom they may add;
* `TooManyHides`: a project that says it has too many collaborators is hidden from
  everybody, by another query and for a plan found by another query;
* `MembersWithinPlan`: whoever becomes a member, the cap holds.

`Cancellable` and `Modifiable` are the plans whose subscriptions their owner may end or
whose storage he may change; the trial and the basic plan are each in one of the two.
That a project is over its cap hides its detail, its seed and a package's upload
only: its files, jobs and deltas ask for a role alone.

All five are proved in `Access_proofs`, for any people, plans, periods and number of
requests and rows, from `SubscriptionsAssumption`, `AccessAssumption` and
`RequestsAssumption`; the number of ticks and of requests is a constant there as in
the run, of any size.

| Theorem | Statement |
|---|---|
| `TypeCorrect` | `Spec => []TypeOK` |
| `ServedOffBoundariesAlways` | `Spec => []ServedOffBoundaries` |
| `OrderedQuantityAlways` | `Spec => []OrderedQuantity` |
| `RolesHoldAlways` | `Spec => []RolesHold` |
| `TooManyHidesAlways` | `Spec => []TooManyHides` |
| `MembersWithinPlanAlways` | `Spec => MembersWithinPlan` |

The invariant has two parts, which TLC has checked on the instance of the run.

* `SubscriptionsInv`: periods do not overlap (`Storable`, `StorablePackages`); a package that was
  closed began before now; what is ordered for a subscription is the quantity of its
  one open package, and 0 if none is open.  `RowCreated` is the lemma the rest leans on: what
  `create_subscription` and a look-up leave is storable again, with the old rows in their
  places, because `clean()` refuses what the constraint would, so that the look-up
  finds one current row or refuses.  Away from the boundaries it cannot refuse: every row
  ended before the second in which the new one begins, or is a draft, or ends
  where a trial does (`FoundOffBoundaries`).
* `PlacesInv`: the members of the team are of the organization, and so are the collaborators of a
  project that is the organization's and always was.  A removal and a transfer of
  the organization take places in teams and projects along, which is what keeps it.

With these, the roles follow by the ranks of the view: whoever is in charge has a row of
rank 1 to 3, and all of these say "admin" (`InChargeFirst`), and an outsider has none
(`OutsidersHaveNone`).  `TooManyHides` needs that the plan the view finds is the one
`current()` finds, although the view leaves out both ends of the period, and that
the direct collaborators are among the ones who are counted for the role.
`MembersWithinPlan` is a property of steps: who joins was cleaned before, and a set with one
more member has at most one more element (`OneMore`).

Left out: overlapping requests.  `clean` counts and `save` inserts, so two requests
at once pass a cap together; the constraint of the table only keeps one person
from being added twice.  Also: status, seats and trial counts of subscriptions,
creation and deletion of organizations, creation of teams.

## 9. Services

Nine parts that share no state with each other are checked in one run,
`services`: the variable `topic` chooses one and the others rest, so that their state
spaces add up and do not multiply.

**Tokens** (`authentication/`).  `tokens` are the rows, `thread` the requests.  Every
statement commits alone: `Login`, `ExpireAtLogin`, `InsertToken`; `Authenticate`,
`ExpireAtUse`, `Touch` (`token.save()` writes back the `expires_at` it has read);
`Logout`; `Lapse`, `ExpireSelected`, `DeleteToken`.  Two accounts, a client that is
allowed one token and one that is allowed more, two requests, two tokens: a token
and the one that takes its place.  `TokensEnd` (`OneLiveToken`, `EndedStaysEnded`) holds for
requests that do not overlap; section 11 says what overlapping ones do.

**Notifications** (`notifs/`).  `notes` are the rows, `changes` what they are about,
`rows` who is in the organization, its team and its project, `round` the cron job:
`Added`, `Removed`, `MemberRemoved` (which takes the other two along), `BeginRound`,
`Render`, `SendMail`, `SendFails`, `MarkEmailed`, `EndRound`, `CronDies`.  Two changes
among an owner and two people, one without an address, and one death; a person may be
everywhere at first, so that two changes are a membership and what goes along.
Notes of creations and deletions are written by the same function.
`NothingUntold`: nobody's note is missing, mailed more than once per death, or marked
without a mail unless it came while one was sent.

**Invitations** (`core/invitations_utils.py`, `core/cron.py`, `core/adapters.py`).
`invitations` are the rows, `invite` the requests, `resend` the cron job, `remaining` the
inviter's budget.  Two requests and cron deal with one address: deletions,
creations and saves of rows the others hold.  Three invitations let one lapse and
be replaced while a third is made.  `Reachable`: an address that was mailed has an
invitation when all is at rest.  An invitation is assumed to outlive a request.

**Purge** (`scripts/object_storage_cleaner/`).  `bucket` has the versions of two keys,
`scan` the chain of generators with its page, group and batch.  The generators are lazy,
so a version goes through the whole chain (`YieldVersion`) before the next one is asked
for, puts and deletes fall between any two, and a batch is flushed as soon as it is
full.  Pages of three and batches of two split a group of two or three in every way;
four entries, a clock of two days and a retention of one make some of a group old and
some young.  `ReadsStay`: a key that was put last reads as that put left it, whatever was
cut; of the keys that were deleted last, those whose group went through as a whole
stay unreadable, and keep what the deletion hid for the retention time.  The others are
`torn`, and may reappear (section 11).

**Creation** (`project/utils/`, `create_project.py`, `CreateProjectJobRun`).  `source` and
`target` are files of two projects, `seed` what to copy, `job` and `local` the job and
its working directory.  Two data files and two names of project files, two edits
by users, one re-run by staff.  `CloneIsWhole`: what a finished job left.

**Secrets** (`core/models.py`).  `secrets` are the rows of one organization and of a
private project of it, `orgStaff` and `crew` who may be assigned one, `secretJob` a
job of somebody with the environment it got.  `CreateSecret` and `AssignSecret` have
`clean` and the unique constraints, `GetEnvironment` the ORDER BY and the
DISTINCT ON, as a choice among all rows that come first.  Two people, one name and
two rows: names do not meet in any condition, and two rows are what it takes for
one to override, hide or clash with the other.  `OneSecretEach`: what a job gets is
not overridden, and is a matter of chance only where section 11 says so.

**Downloads** (`filestorage/view_helpers.py`).  `versionRows` and `heldUnder` are the rows of a
file and the objects under its keys, `redirect` what the view told nginx, `download` the
parts a client has.  Between `AskForRest`, which checks the range against the size of
then, and `FetchPart` or `FetchFails`, which is the storage's answer, and between
two parts, `Upload` and `DeleteOld` change the file.  Three uploads, three bytes
and three parts let the file grow, shrink and change again within one download.
`PartsFit`: a client that names a version of a versioned file, or sends the ETag of
its first part, gets parts of one upload.  Without either the parts may be of
different ones; and since the versions of an unversioned attachment share their key,
naming one does not help there.

**Projects** (`project/models.py`, `project/serializers.py`, `project/views.py`).  `projects`
are the rows, `qgisFiles` and `datasets` what the storage has of them, `creating` and
`projectJobs` their jobs, `patch` the requests that have read a row: a PATCH between
`BeginPatch` and `SavePatch`, which writes all columns, and an upload between
`BeginUpload` and `CommitUpload`, which writes those it changes.  A QGIS file is a set of
layers of five kinds, by what the worker can make of their source; `Problems`, `Status`
and `OwnerCanCreateJob` are computed from the details the job left.  Two projects of two
owners, of which one has a plan for online layers, two files and two requests: a
rename or a transfer can pass an upload, a deletion or the other project's rename,
and three changes let one of them be undone.  `FileFitsType`: an owner has one project
of shared datasets at most, and it has no QGIS file but in the races that section 11
lists.  `ToldAsItIs`: the problems, the status and the right to jobs that the server
tells are those of the files.

**Job runs** (`docker-qgis/qfc_worker/workflow.py`, `worker_wrapper/wrapper.py`,
`executors/ecs.py`).  `qgisTasks` are the containers or ECS tasks, `feedbackFile` the
`feedback.json` they write, `jobRun` the worker's object with the place it has come to,
`jobRow` the row.  The four workflows are sequences of steps as the commands define them,
with what each takes, returns and outputs; `IsValid` is `Workflow.validate`.  A task
goes on by itself (`CompleteStep`, `RaiseInStep`, `OpenFeedback`, `WriteFeedback`, `ExitTask`)
and is killed any time; the worker launches it (`RunContainer`, or `RunTask` with retries and
lost answers), records it, waits, reads what it left and runs the hooks.  A call to the
executor may raise wherever the code lets it through, the job may be deleted, and the
clean-up takes orphans.  All workflows run in Docker, that of deltas on ECS as well; two
tasks and two attempts are what it takes for a lost answer to double a task and for
attempts to run out.  `ResultTold`: what the row says is what some task did, and
the outputs that hooks and views look for are there.  `NoTaskLeft`: no task is left
alone, but for what section 11 says.

### What is proved

In `Services_proofs`, for any number of people, places, tokens, secrets, files, parts,
projects, requests and tasks.
`Parts` says that a behaviour of `Services` is one of each of its parts; each theorem is
one about a part, carried over.

| Theorem | The invariant and why it is needed |
|---|---|
| `TokensEndAlways` | `TokensInv`: requests of one account and client that are under way together are noted in `raced` (`OverlapsKnown`); a request that did not overlap, and is about to insert or save, finds every other token of its pair ended (`OthersEnded`); no request holds a token that is `dismissed` (`DismissedFree`).  Without these the save that follows could make a second token valid, or bring an ended one back |
| `ReadsStayAlways` | `PurgeInv`: entries are numbered in the order of their time (`EntriesKnown`), the newest one of a key is the one noted (`LastKnown`).  A group is led by the entry that would be read, though a page is sorted by time and not by number (`GroupFits`), so what is in a batch is old, is not what a key was last put, and has with it every entry of its key the script holds (`BatchFits`).  Of a key that is not torn the script holds, with an entry, all that are older (`HoldsWhole`), and what it holds was listed before the page to come (`ScanFits`): a version never outlives the marker over it (`ReadsFit`) |
| `OneSecretEachAlways` | `SecretsInv`: the table keeps its unique constraints, and a job's choice was made of a table that kept them (`there`) |
| `PartsFitAlways` | `DownloadsInv`: the parts adjoin inside the versions they are of, what nginx was told goes on where they end and carries the ETag of the first (`RedirectFits`), and a key that is not shared has the bytes of its version or none (`KeysHold`) |
| `CloneIsWholeAlways` | `CreationInv`: what was downloaded had its content in the source (`Collected`), every listed file is in the container from then on (`Copied`), the project file is a listed one unless the source's moved (`Named`), and what need not be uploaded any more is in the new project (`Uploaded`) |
| `NothingUntoldAlways` | `NotificationsInv`: a note is missing for nobody, and how often it was mailed is at most the deaths of the rounds, one more when it is marked or about to be |
| `FileFitsTypeAlways`, `ToldAsItIsAlways` | `ProjectsInv`: names differ, a request has looked at the row it has read, and both for a job at work and for the details it left: they are of the file there is, or it is noted which race was lost (`RowFits`, `DetailsFit`) |
| `ResultToldAlways`, `NoTaskLeftAlways` | `JobRunsInv`: a whole feedback is that of a task that has written it (`TaskTold`), the task on record is the run's (`Recorded`), the exit code is its own (`ExitKnown`), and what the row tells follows from the two (`RowTells`) |
| `ReachableAlways` | `InvitationsInv`: a key that a row, a request or cron holds was made for one address (`KeysNamed`), what is marked or about to be was mailed (`SentIsMailed`), a lapsed row is nobody's any more (`LapsedIsFree`), and who has taken the row of an address that is owed one will leave one (`OwedIsThere`) |

The generators are one step per version for the proof's sake as well: as a fold over the
sorted page, what they leave of it would be an induction over data.

The run treats alike (symmetry) the two requests over tokens or projects, and the
two accounts, data files or projects; nothing else is.

## 10. Not modelled

* What QGIS and libqfieldsync make of a project: third-party code that runs alone
  in its container.
* The admin site's pages, serializers, templates, translations: presentation and
  validation of one request.  The buttons that change jobs, deltas, tokens and
  re-run jobs are actions of the modules of those components.
* Deployment and its stacks: configuration.  The number of workers and restarts
  enter `JobQueue`.
* Requests that overlap over members and collaborators (section 8).

## 11. What disagrees with its documentation

In `PROJECT.json` under "findings", each with a run that shows it:
`KillsOnlyOrphans` against `wrapper.py:739` and `ecs.py:324`, `QueuedStarts` against the
message of `models.py:1339`, and `OneActiveJob` against `jobs.py:40`.

Found while modelling and not given a run of their own, since they need no
interleaving or are exceptions that a property names:

* **Job queue.**  The admin's re-run (`admin.py:1553`) sets a started job back to
  pending, and a second worker runs it beside the first, although `wrapper.py:242`
  calls its count a safety check.
* **Deltas.**  `jobs.py:80` takes the maximum of the limit and the count where the
  comments (66, 76) speak of batches: with more deltas than the limit every batch
  has all of them.
* **Files.**  The versions of an unversioned attachment share one key
  (`filestorage/models.py:273`).  Under a plan that keeps one version, the purge of
  the older row deletes the object of the newer, although
  `project/models.py:437` says that "only the latest version" is kept.
* **Job runs.**  `run_task` is tried again after an answer that was lost
  (`ecs.py:145`) without a token to recognise it: two tasks of a job do the same work and
  write the same feedback, until the clean-up stops the one whose id was not saved.  An
  error of `describe_tasks` (`ecs.py:171`), which is not tried again, or of the call to
  stop fails the job while its task goes on, and since its id is on record it is no
  orphan either: the next job of the project may run beside it.
* **Projects.**  A PATCH writes every column of the row it has read
  (`project/views.py:259`): the name of the QGIS file, the details and the stored bytes of
  an upload that came in between are lost, and a project that was deleted in
  between is inserted again.  The name is looked up under the owner of before
  (`serializers.py:86`), so that a transfer to an owner who has the name ends in an error of
  the database.  A project with a QGIS file that is named `Shared_Datasets` may be
  renamed to `shared_datasets` (`serializers.py:106`).  `problems` reads `layer_type_name`
  (`project/models.py:872`) while the worker writes `type_name`, so that the warning of a
  missing primary key never appears.
* **Downloads.**  nginx turns the storage's 412 and 416 into 500
  (`qfieldcloud.conf.template:119`), so that a client with an old ETag cannot tell that
  the file has changed from a failure.  A range of one byte that names its end is
  refused (`filestorage/utils.py:200`).
* **Packages.**  The clean-up keeps the latest job of each user whatever became of
  it: after a failed one, the package of the last finished job is still offered and
  cron deletes it; so are the packages of who is no longer a collaborator.  The
  docstring of `packages.py` asks to keep "the packages that are still in use by users".
  `project/models.py:731` finds it "safe to say" that nothing was modified when
  `finished_at` is later than the update, which is false of an update during the
  run, and of a job that failed in the global handler.
* **Application of deltas.**  `inverse_delta` (`apply_deltas.py:1089-1106`) compares a
  method with the name of an enumeration's member, so that creations and deletions
  are never inverted.  A patch without old attributes raises a `KeyError` at line
  930.  A delta in the same job as the creation of its feature looks for the key of
  the client, and may find another feature under it; from then on its
  `last_modified_pk` is among those the map of keys is made of (`wrapper.py:559`), as much
  as that of the creation, so that later deltas of the client may follow it there.
* **Members and collaborators.**  "Incognito users should never be counted"
  (`core/models.py`, about line 1000), but `for_user` and `for_project` count them,
  and an owner of the organization who is a collaborator.  A transfer of a project by API keeps
  rows that `clean` would refuse.  At the cap, a change of a role is refused as if
  it added a member.  The serializer of team members refuses who is in any team.
  Two teams of different roles tie in DISTINCT ON.  Deleting members as a queryset
  deletes collaborations of every pair of the organizations and people in it.
  `Organization.created_by` cascades: with its creator a transferred organization
  goes too.
* **Subscriptions.**  `get_or_create_current_subscription` fails at the instant two
  subscriptions meet, in the second in which one ended, and before one that is to
  begin.  An upgrade during a trial conflicts with the subscription that follows it.
* **Secrets.**  `distinct("name")` mixes types; NULLs are distinct in the unique
  constraint, so secrets that are assigned to nobody are not unique; assigned
  secrets outlive the removal of the collaborator.
* **Tokens.**  A request that has read a token saves `expires_at` with it and may undo
  a logout or a login in between, which "Invalidate the user session" does not say.
* **Notifications.**  The `Exists` of `notifs/cron.py:22` is not tied to the
  recipient: a user is mailed as soon as anybody's note is old enough for his frequency,
  and the note of a person without an address keeps that true for ever.  Notes that
  arrive between rendering and the UPDATE are marked and never mailed.  One failing
  send ends the round for the users after it.
* **Invitations.**  cron mails the waiting list whatever budget its inviters have
  left; two requests may charge one; the deletion of a lapsed invitation may
  delete the fresh one of another request.
* **Purge.**  `iter_all_versions` says that versions of a key are "yielded
  contiguously"; each page is sorted in reverse, so that a key that crosses pages is
  split into two groups.  A marker purged alone, by a split, a failed batch or a
  partial error, makes the object reappear.
* **Creation.**  The name of the project file is asked for after the files were
  downloaded; a source whose project file came or was renamed in between gives a
  finished copy with a blank project.  The quota is checked when the project is
  created only.
