------------------------------ MODULE JobQueue ------------------------------
(***************************************************************************)
(* The job queue of QFieldCloud: the table of jobs, the `worker_wrapper`   *)
(* processes that dequeue and run them (dequeue.py, wrapper.py), the QGIS  *)
(* containers they launch through the Docker daemon, the cron job that     *)
(* gives up on late jobs (cron.py), and what the API and the admin site do *)
(* to the same rows meanwhile.                                             *)
(*                                                                         *)
(* Abstractions:                                                           *)
(*  - A job is a number, and numbers follow `created_at`.                  *)
(*  - Time is only what the cron job tells apart: `started_at` is NULL,    *)
(*    recent, or older than WORKER_TIMEOUT_S + 10 seconds.                 *)
(*  - Every save of the worker is one autocommitted UPDATE.  Consecutive   *)
(*    saves with nothing but the worker between them are one step when no  *)
(*    other process reads what the first one writes.                       *)
(*  - PostgreSQL's row locks and its REPEATABLE READ snapshot are modelled *)
(*    from how dequeue.py uses them.  A row is scanned as the snapshot has *)
(*    it; a row another transaction locks is skipped; a row committed      *)
(*    since the snapshot raises a serialization failure, which nothing     *)
(*    catches.                                                             *)
(*  - What a job does to its project is left to other modules.             *)
(***************************************************************************)
EXTENDS Integers, FiniteSets

CONSTANTS
    Workers,      \* worker_wrapper replicas; the service restarts one that dies
    Projects,
    Jobs,         \* the jobs that may be created, in the order of created_at
    Containers,   \* container ids; the daemon never gives one twice
    ProjectOf,    \* the foreign key Job.project
    NoJob, NoContainer,
    MaxCrashes,   \* bound: how often a worker process or its host dies
    MaxReruns     \* bound: how often staff uses the admin's "Re-run job" button

ASSUME QueueAssumption ==
    /\ Jobs \subseteq Nat
    /\ ProjectOf \in [Jobs -> Projects]
    /\ Jobs \cap Projects = {}
    /\ NoJob \notin Jobs
    /\ NoContainer \notin Containers
    /\ MaxCrashes \in Nat
    /\ MaxReruns \in Nat

VARIABLES
    \* the database
    status,       \* Job.status, or "unborn" / "deleted" when there is no row
    startedAt,    \* Job.started_at: "null", "recent" or "old"
    containerId,  \* Job.container_id
    deleted,      \* the projects that were deleted
    lockedAt,     \* the projects whose locked_at is not NULL
    \* the worker processes
    pc,           \* where in dequeue.handle and JobRun.run the process is
    job,          \* the job it has in memory
    container,    \* the container it launched
    seen,         \* cancel_orphaned_workers: the containers still to examine
    \* the dequeue transaction of a worker
    todo,         \* the rows of its snapshot it has not tried to lock yet
    stale,        \* the rows of todo committed by others since the snapshot
    locks,        \* the rows it has locked
    \* the environment
    crashes,      \* how often a worker has died by itself so far
    reruns,       \* how often a job was run again by staff
    \* the Docker daemon
    cstate,       \* what became of a container
    cjob          \* its label job_id

dbVars == <<status, startedAt, containerId, deleted, lockedAt>>
runVars == <<job, container, seen>>
txnVars == <<todo, stale, locks>>
envVars == <<cstate, cjob, crashes, reruns>>
vars == <<dbVars, pc, runVars, txnVars, envVars>>

Active == {"queued", "started"}
Final == {"finished", "failed"}
Status == {"unborn", "pending", "deleted"} \cup Active \cup Final
Rows == Jobs \cup Projects

\* The places of a worker from the commit that queued its job to the return of
\* `run`, and those past the concurrency check.
Checked == {"prepare", "launch", "record", "wait", "finish", "fail"}
Holding == {"start", "check", "reset"} \cup Checked
Place == {"list", "query", "kill", "dequeue", "scan", "found"} \cup Holding

\* What the daemon knows of a container: it runs, it exited (without error, with
\* one, by SIGKILL), it was killed and removed by the clean-up of orphans, or it
\* was removed by the worker that launched it.
CState == {"unused", "running", "ok", "err", "sigkill", "killed", "removed"}

TypeOK ==
    /\ status \in [Jobs -> Status]
    /\ startedAt \in [Jobs -> {"null", "recent", "old"}]
    /\ containerId \in [Jobs -> Containers \cup {NoContainer}]
    /\ deleted \subseteq Projects
    /\ lockedAt \subseteq Projects
    /\ pc \in [Workers -> Place]
    /\ job \in [Workers -> Jobs \cup {NoJob}]
    /\ container \in [Workers -> Containers \cup {NoContainer}]
    /\ seen \in [Workers -> SUBSET Containers]
    /\ todo \in [Workers -> SUBSET Jobs]
    /\ stale \in [Workers -> SUBSET Rows]
    /\ locks \in [Workers -> SUBSET Rows]
    /\ crashes \in Nat
    /\ reruns \in Nat
    /\ cstate \in [Containers -> CState]
    /\ cjob \in [Containers -> Jobs \cup {NoJob}]

Init ==
    /\ status = [j \in Jobs |-> "unborn"]
    /\ startedAt = [j \in Jobs |-> "null"]
    /\ containerId = [j \in Jobs |-> NoContainer]
    /\ deleted = {}
    /\ lockedAt = {}
    /\ pc = [w \in Workers |-> "list"]
    /\ job = [w \in Workers |-> NoJob]
    /\ container = [w \in Workers |-> NoContainer]
    /\ seen = [w \in Workers |-> {}]
    /\ todo = [w \in Workers |-> {}]
    /\ stale = [w \in Workers |-> {}]
    /\ locks = [w \in Workers |-> {}]
    /\ crashes = 0
    /\ reruns = 0
    /\ cstate = [c \in Containers |-> "unused"]
    /\ cjob = [c \in Containers |-> NoJob]

-----------------------------------------------------------------------------
(* The database, as its clients use it.                                    *)

Exists(j) == status[j] \notin {"unborn", "deleted"}

JobsOf(p) == {j \in Jobs : ProjectOf[j] = p}

\* Mutant of Busy: the pending jobs make their project busy, too.
BusyWhenPending(p) == \E j \in JobsOf(p) : status[j] \in Active \cup {"pending"}

Busy(p) == \E j \in JobsOf(p) : status[j] \in Active

\* A row that a dequeue transaction holds FOR UPDATE: writers wait for it, and
\* so does an INSERT that refers to it by a foreign key.
Locked(r) == \E w \in Workers : r \in locks[w]
LockedByOther(r, w) == \E v \in Workers \ {w} : r \in locks[v]

\* A commit that writes rows: every open snapshot that holds them is out of date.
Written(rows) ==
    stale' = [w \in Workers |->
                stale[w] \cup (rows \cap (todo[w] \cup {ProjectOf[j] : j \in todo[w]}))]

\* An UPDATE of rows, which waits for whoever holds them FOR UPDATE.
Update(rows) == Written(rows) /\ \A r \in rows : ~Locked(r)

\* Job.save(update_fields=["status", "started_at"]) of worker w on its own row.
SaveJob(w, newStatus, newStartedAt) ==
    /\ Exists(job[w])
    /\ status' = [status EXCEPT ![job[w]] = newStatus]
    /\ startedAt' = [startedAt EXCEPT ![job[w]] = newStartedAt]
    /\ Update({job[w]})
    /\ UNCHANGED <<containerId, deleted, lockedAt>>

-----------------------------------------------------------------------------
(* How a worker leaves a step.                                             *)

Goto(w, place) == pc' = [pc EXCEPT ![w] = place]

\* `run` returned: the loop of `handle` starts over.
Return(w) ==
    /\ Goto(w, "list")
    /\ job' = [job EXCEPT ![w] = NoJob]
    /\ container' = [container EXCEPT ![w] = NoContainer]
    /\ UNCHANGED seen

\* The process dies and is started again.  Its transaction is rolled back; its
\* container goes on without it.
Die(w) ==
    /\ Goto(w, "list")
    /\ job' = [job EXCEPT ![w] = NoJob]
    /\ container' = [container EXCEPT ![w] = NoContainer]
    /\ seen' = [seen EXCEPT ![w] = {}]
    /\ todo' = [todo EXCEPT ![w] = {}]
    /\ stale' = [stale EXCEPT ![w] = {}]
    /\ locks' = [locks EXCEPT ![w] = {}]
    /\ UNCHANGED <<dbVars, cstate, cjob, reruns>>

\* Saving a row that was deleted raises a DatabaseError.  The handler of `run`
\* saves the same row once more, and catches IntegrityError only.
DieOnDeletedRow(w) ==
    /\ \/ pc[w] \in {"start", "reset", "prepare", "record", "finish", "fail"}
       \/ pc[w] = "wait" /\ cstate[container[w]] \in {"ok", "err", "running"}
    /\ ~Exists(job[w])
    /\ Die(w)
    /\ UNCHANGED crashes

Crash(w) ==
    /\ crashes < MaxCrashes
    /\ crashes' = crashes + 1
    /\ Die(w)

-----------------------------------------------------------------------------
(* cancel_orphaned_workers                                                 *)

\* Mutant of ListWorkers: a worker lists the container it launched itself only.
ListOwnWorkers(w) ==
    /\ pc[w] = "list"
    /\ LET running == {c \in Containers : cstate[c] = "running" /\ container[w] = c}
       IN  /\ seen' = [seen EXCEPT ![w] = running]
           /\ Goto(w, IF running = {} THEN "dequeue" ELSE "query")
    /\ UNCHANGED <<dbVars, job, container, txnVars, envVars>>

ListWorkers(w) ==
    /\ pc[w] = "list"
    /\ LET running == {c \in Containers : cstate[c] = "running"}
       IN  /\ seen' = [seen EXCEPT ![w] = running]
           /\ Goto(w, IF running = {} THEN "dequeue" ELSE "query")
    /\ UNCHANGED <<dbVars, job, container, txnVars, envVars>>

\* The ids that no row has as its container_id.
QueryJobs(w) ==
    /\ pc[w] = "query"
    /\ seen' = [seen EXCEPT ![w] =
                 {c \in @ : \A j \in Jobs : Exists(j) => containerId[j] # c}]
    /\ Goto(w, "kill")
    /\ UNCHANGED <<dbVars, job, container, txnVars, envVars>>

\* `kill` of a container that exited raises an APIError, which is swallowed.
KillOrphan(w) ==
    /\ pc[w] = "kill"
    /\ \E c \in seen[w] :
         /\ cstate[c] \notin {"killed", "removed"}
         /\ cstate' = [cstate EXCEPT ![c] = IF @ = "running" THEN "killed" ELSE @]
         /\ seen' = [seen EXCEPT ![w] = @ \ {c}]
    /\ UNCHANGED <<dbVars, pc, job, container, txnVars, cjob, crashes, reruns>>

\* `containers.get` of a container that was removed meanwhile raises NotFound
\* outside of the `try`.
OrphanNotFound(w) ==
    /\ pc[w] = "kill"
    /\ \E c \in seen[w] : cstate[c] \in {"killed", "removed"}
    /\ Die(w)
    /\ UNCHANGED crashes

CleanupDone(w) ==
    /\ pc[w] = "kill"
    /\ seen[w] = {}
    /\ Goto(w, "dequeue")
    /\ UNCHANGED <<dbVars, runVars, txnVars, envVars>>

-----------------------------------------------------------------------------
(* The dequeue transaction                                                 *)

\* The SELECT takes the snapshot: the pending jobs of the projects that are
\* neither busy nor locked.
BeginDequeue(w) ==
    /\ pc[w] = "dequeue"
    /\ LET candidates == {j \in Jobs : /\ status[j] = "pending"
                                       /\ ~Busy(ProjectOf[j])
                                       /\ ProjectOf[j] \notin lockedAt}
       IN  /\ todo' = [todo EXCEPT ![w] = candidates]
           /\ Goto(w, IF candidates = {} THEN "list" ELSE "scan")
    /\ UNCHANGED <<dbVars, runVars, stale, locks, envVars>>

\* Mutant of Oldest: ORDER BY created_at DESC.
Newest(S) == CHOOSE j \in S : \A k \in S : j >= k

\* ORDER BY created_at
Oldest(S) == CHOOSE j \in S : \A k \in S : j <= k

\* The row of j is locked by another transaction, or it is locked now but the
\* row of its project, which the query joins, is locked by another one.
SkipLocked(w) ==
    /\ pc[w] = "scan"
    /\ LET j == Oldest(todo[w])
           taken == LockedByOther(j, w)
           last == todo[w] = {j}
       IN  /\ \/ taken
              \/ j \notin stale[w] /\ LockedByOther(ProjectOf[j], w)
           /\ todo' = [todo EXCEPT ![w] = @ \ {j}]
           /\ stale' = [stale EXCEPT ![w] = IF last THEN {} ELSE @]
           /\ locks' = [locks EXCEPT ![w] = CASE last -> {}
                                              [] ~last /\ taken -> @
                                              [] OTHER -> @ \cup {j}]
           /\ Goto(w, IF last THEN "list" ELSE "scan")
    /\ UNCHANGED <<dbVars, runVars, envVars>>

\* Locking a row that was committed since the snapshot.
SerializationFailure(w) ==
    /\ pc[w] = "scan"
    /\ LET j == Oldest(todo[w])
       IN  /\ ~LockedByOther(j, w)
           /\ \/ j \in stale[w]
              \/ ~LockedByOther(ProjectOf[j], w) /\ ProjectOf[j] \in stale[w]
    /\ Die(w)
    /\ UNCHANGED crashes

\* Mutant of LockRow: under READ COMMITTED without a second look at the row, a
\* row that changed since it was selected is taken all the same.
LockStaleRow(w) ==
    /\ pc[w] = "scan"
    /\ LET j == Oldest(todo[w])
           rows == {j, ProjectOf[j]}
       IN  /\ \A r \in rows : ~LockedByOther(r, w)
           /\ locks' = [locks EXCEPT ![w] = @ \cup rows]
           /\ job' = [job EXCEPT ![w] = j]
    /\ todo' = [todo EXCEPT ![w] = {}]
    /\ stale' = [stale EXCEPT ![w] = {}]
    /\ Goto(w, "found")
    /\ UNCHANGED <<dbVars, container, seen, envVars>>

LockRow(w) ==
    /\ pc[w] = "scan"
    /\ LET j == Oldest(todo[w])
           rows == {j, ProjectOf[j]}
       IN  /\ \A r \in rows : ~LockedByOther(r, w) /\ r \notin stale[w]
           /\ locks' = [locks EXCEPT ![w] = @ \cup rows]
           /\ job' = [job EXCEPT ![w] = j]
    /\ todo' = [todo EXCEPT ![w] = {}]
    /\ stale' = [stale EXCEPT ![w] = {}]
    /\ Goto(w, "found")
    /\ UNCHANGED <<dbVars, container, seen, envVars>>

\* queued_job.save and the COMMIT.
CommitQueued(w) ==
    /\ pc[w] = "found"
    /\ status' = [status EXCEPT ![job[w]] = "queued"]
    /\ Written({job[w]})
    /\ locks' = [locks EXCEPT ![w] = {}]
    /\ Goto(w, "start")
    /\ UNCHANGED <<startedAt, containerId, deleted, lockedAt, runVars, todo, envVars>>

-----------------------------------------------------------------------------
(* JobRun.run and JobRun._run_docker                                       *)

\* Mutant of StartJob: started_at is not in update_fields.
StartJobUntimed(w) ==
    /\ pc[w] = "start"
    /\ SaveJob(w, "started", startedAt[job[w]])
    /\ Goto(w, "check")
    /\ UNCHANGED <<runVars, todo, locks, envVars>>

StartJob(w) ==
    /\ pc[w] = "start"
    /\ SaveJob(w, "started", "recent")
    /\ Goto(w, "check")
    /\ UNCHANGED <<runVars, todo, locks, envVars>>

\* Mutant of CheckConcurrency: only the queued jobs are counted.
CheckQueuedOnly(w) ==
    /\ pc[w] = "check"
    /\ LET others == {k \in JobsOf(ProjectOf[job[w]]) \ {job[w]} : status[k] = "queued"}
       IN  Goto(w, IF others # {} THEN "reset" ELSE "prepare")
    /\ UNCHANGED <<dbVars, runVars, txnVars, envVars>>

\* The concurrency check: the other queued or started jobs of the project.
CheckConcurrency(w) ==
    /\ pc[w] = "check"
    /\ LET others == {k \in JobsOf(ProjectOf[job[w]]) \ {job[w]} : status[k] \in Active}
       IN  Goto(w, IF others # {} THEN "reset" ELSE "prepare")
    /\ UNCHANGED <<dbVars, runVars, txnVars, envVars>>

ResetJob(w) ==
    /\ pc[w] = "reset"
    /\ SaveJob(w, "pending", "null")
    /\ Return(w)
    /\ UNCHANGED <<todo, locks, envVars>>

\* before_docker_run and the save of docker_started_at; an exception of the
\* first goes to the handler of `run`.
PrepareRun(w) ==
    /\ pc[w] = "prepare"
    /\ Exists(job[w])
    /\ \E next \in {"launch", "fail"} : Goto(w, next)
    /\ Update({job[w]})
    /\ UNCHANGED <<dbVars, runVars, todo, locks, envVars>>

\* containers.run
LaunchContainer(w) ==
    /\ pc[w] = "launch"
    /\ \E c \in Containers :
         /\ cstate[c] = "unused"
         /\ cstate' = [cstate EXCEPT ![c] = "running"]
         /\ cjob' = [cjob EXCEPT ![c] = job[w]]
         /\ container' = [container EXCEPT ![w] = c]
    /\ Goto(w, "record")
    /\ UNCHANGED <<dbVars, job, seen, txnVars, crashes, reruns>>

\* containers.run raises: no such image, no memory, no daemon.
LaunchFails(w) ==
    /\ pc[w] = "launch"
    /\ Goto(w, "fail")
    /\ UNCHANGED <<dbVars, runVars, txnVars, envVars>>

\* Mutant of RecordContainer: started_at is set again by the save.
RecordContainerRenews(w) ==
    /\ pc[w] = "record"
    /\ Exists(job[w])
    /\ containerId' = [containerId EXCEPT ![job[w]] = container[w]]
    /\ startedAt' = [startedAt EXCEPT ![job[w]] = "recent"]
    /\ Update({job[w]})
    /\ Goto(w, "wait")
    /\ UNCHANGED <<status, deleted, lockedAt, runVars, todo, locks, envVars>>

\* The save of container_id.  To wait for a container that is removed already
\* raises NotFound.
RecordContainer(w) ==
    /\ pc[w] = "record"
    /\ Exists(job[w])
    /\ containerId' = [containerId EXCEPT ![job[w]] = container[w]]
    /\ Update({job[w]})
    /\ \E next \in (IF cstate[container[w]] = "killed" THEN {"wait", "fail"}
                                                       ELSE {"wait"}) : Goto(w, next)
    /\ UNCHANGED <<status, startedAt, deleted, lockedAt, runVars, todo, locks, envVars>>

\* container.wait returns 137, and the row of the job is read again.
SeeSigkill(w) ==
    /\ pc[w] = "wait"
    /\ cstate[container[w]] \in {"sigkill", "killed"}
    /\ IF Exists(job[w]) THEN Goto(w, "fail") /\ UNCHANGED runVars ELSE Return(w)
    /\ UNCHANGED <<dbVars, txnVars, envVars>>

\* container.wait returns another exit code, or it times out while the container
\* is alive; then the container is stopped and removed.  When the daemon does
\* not answer, the retries end in an exception and the container is left alone.
SeeExit(w) ==
    /\ pc[w] = "wait"
    /\ cstate[container[w]] \in {"ok", "err", "running"}
    /\ Exists(job[w])
    /\ \/ /\ cstate' = [cstate EXCEPT ![container[w]] = "removed"]
          /\ Goto(w, IF cstate[container[w]] = "ok" THEN "finish" ELSE "fail")
       \/ Goto(w, "fail") /\ UNCHANGED cstate
    /\ Update({job[w]})
    /\ UNCHANGED <<dbVars, runVars, todo, locks, cjob, crashes, reruns>>

\* after_docker_run, which writes the project for some types of jobs, and the last
\* save.
FinishRun(w) ==
    /\ pc[w] = "finish"
    /\ Exists(job[w])
    /\ status' = [status EXCEPT ![job[w]] = "finished"]
    /\ \E others \in {{}, {ProjectOf[job[w]]}} : Update({job[w]} \cup others)
    /\ Return(w)
    /\ UNCHANGED <<startedAt, containerId, deleted, lockedAt, todo, locks, envVars>>

\* after_docker_run raises.
FinishFails(w) ==
    /\ pc[w] = "finish"
    /\ Goto(w, "fail")
    /\ UNCHANGED <<dbVars, runVars, txnVars, envVars>>

\* The saves of a run that failed; after_docker_exception may write the project.
FailRun(w) ==
    /\ pc[w] = "fail"
    /\ Exists(job[w])
    /\ status' = [status EXCEPT ![job[w]] = "failed"]
    /\ \E others \in {{}, {ProjectOf[job[w]]}} : Update({job[w]} \cup others)
    /\ Return(w)
    /\ UNCHANGED <<startedAt, containerId, deleted, lockedAt, todo, locks, envVars>>

-----------------------------------------------------------------------------
(* The other processes                                                     *)

\* The QGIS container ends by itself; 137 when the kernel runs out of memory.
ContainerExits(c) ==
    /\ cstate[c] = "running"
    /\ \E outcome \in {"ok", "err", "sigkill"} : cstate' = [cstate EXCEPT ![c] = outcome]
    /\ UNCHANGED <<dbVars, pc, runVars, txnVars, cjob, crashes, reruns>>

\* The API creates a job.
CreateJob(j) ==
    /\ status[j] = "unborn"
    /\ ProjectOf[j] \notin deleted
    /\ ~Locked(ProjectOf[j])
    /\ \A k \in Jobs : k < j => status[k] # "unborn" \/ ProjectOf[k] \in deleted
    /\ status' = [status EXCEPT ![j] = "pending"]
    /\ UNCHANGED <<startedAt, containerId, deleted, lockedAt, pc, runVars, txnVars, envVars>>

\* A project is deleted, and its jobs with it (on_delete=CASCADE).
DeleteProject(p) ==
    /\ p \notin deleted
    /\ deleted' = deleted \cup {p}
    /\ status' = [j \in Jobs |-> IF j \in JobsOf(p) /\ Exists(j) THEN "deleted" ELSE status[j]]
    /\ Update({p} \cup JobsOf(p))
    /\ UNCHANGED <<startedAt, containerId, lockedAt, pc, runVars, todo, locks, envVars>>

\* A file operation sets or clears Project.locked_at.
ToggleProjectLock(p) ==
    /\ p \notin deleted
    /\ lockedAt' = IF p \in lockedAt THEN lockedAt \ {p} ELSE lockedAt \cup {p}
    /\ Update({p})
    /\ UNCHANGED <<status, startedAt, containerId, deleted, pc, runVars, todo, locks, envVars>>

\* Any other save of the project, by an upload, say.
SaveProject(p) ==
    /\ p \notin deleted
    /\ Update({p})
    /\ UNCHANGED <<dbVars, pc, runVars, todo, locks, envVars>>

\* The admin's "Re-run job" button: it writes nothing but the status.
RerunJob(j) ==
    /\ reruns < MaxReruns
    /\ reruns' = reruns + 1
    /\ Exists(j)
    /\ status' = [status EXCEPT ![j] = "pending"]
    /\ Update({j})
    /\ UNCHANGED <<startedAt, containerId, deleted, lockedAt, pc, runVars, todo, locks>>
    /\ UNCHANGED <<cstate, cjob, crashes>>

\* WORKER_TIMEOUT_S + 10 seconds have passed since started_at.
Elapse(j) ==
    /\ startedAt[j] = "recent"
    /\ startedAt' = [startedAt EXCEPT ![j] = "old"]
    /\ UNCHANGED <<status, containerId, deleted, lockedAt, pc, runVars, txnVars, envVars>>

\* Mutant of Overdue: the age of a started job is not asked for.
StartedAtAll(j) == status[j] \in Active /\ startedAt[j] # "null"

\* SetTerminatedWorkersToFinalStatusJob
Overdue(j) == status[j] \in Active /\ startedAt[j] = "old"

FailOverdueJobs ==
    /\ \E j \in Jobs : Overdue(j)
    /\ status' = [j \in Jobs |-> IF Overdue(j) THEN "failed" ELSE status[j]]
    /\ Update({j \in Jobs : Overdue(j)})
    /\ UNCHANGED <<startedAt, containerId, deleted, lockedAt, pc, runVars, todo, locks, envVars>>

-----------------------------------------------------------------------------
CleanupStep(w) ==
    ListWorkers(w) \/ QueryJobs(w) \/ KillOrphan(w) \/ OrphanNotFound(w) \/ CleanupDone(w)

DequeueStep(w) ==
    \/ BeginDequeue(w) \/ SkipLocked(w) \/ SerializationFailure(w)
    \/ LockRow(w) \/ CommitQueued(w)

RunStep(w) ==
    \/ StartJob(w) \/ CheckConcurrency(w) \/ ResetJob(w) \/ PrepareRun(w)
    \/ LaunchContainer(w) \/ LaunchFails(w) \/ RecordContainer(w)
    \/ SeeSigkill(w) \/ SeeExit(w) \/ FinishRun(w) \/ FinishFails(w) \/ FailRun(w)
    \/ DieOnDeletedRow(w)

WorkerStep(w) == CleanupStep(w) \/ DequeueStep(w) \/ RunStep(w)

JobStep(j) == CreateJob(j) \/ RerunJob(j) \/ Elapse(j)

ProjectStep(p) == DeleteProject(p) \/ ToggleProjectLock(p) \/ SaveProject(p)

Next ==
    \/ \E w \in Workers : WorkerStep(w) \/ Crash(w)
    \/ \E c \in Containers : ContainerExits(c)
    \/ \E j \in Jobs : JobStep(j)
    \/ \E p \in Projects : ProjectStep(p)
    \/ FailOverdueJobs

Spec == Init /\ [][Next]_vars

\* The replicas are restarted when they die and none is starved by the machine;
\* a transaction that is tried again and again meets no conflict at last; time
\* passes and cron runs.  Nothing makes a container end, or a client act.
Fairness ==
    /\ \A w \in Workers : WF_vars(WorkerStep(w)) /\ SF_vars(LockRow(w))
    /\ \A j \in Jobs : WF_vars(Elapse(j))
    /\ WF_vars(FailOverdueJobs)

FairSpec == Spec /\ Fairness

-----------------------------------------------------------------------------
(* Safety                                                                  *)

\* Worker w is past the concurrency check.
InRun(w) == pc[w] \in Checked

\* Some worker is past the concurrency check with job j, or a container of j runs.
WorksOn(j) ==
    \/ \E w \in Workers : InRun(w) /\ job[w] = j
    \/ \E c \in Containers : cstate[c] = "running" /\ cjob[c] = j

\* The time of job j is over, or it was declared failed.
GivenUp(j) == startedAt[j] = "old" \/ status[j] = "failed"

\* No job is run by two workers.
OneRunPerJob ==
    \A w, v \in Workers : w # v /\ InRun(w) /\ InRun(v) => job[w] # job[v]

\* Two jobs of one project are executed at a time only when the queue has given
\* up on one of them: its time is over, or it is failed already while its
\* container survived.  A dequeue race or a crash of a worker alone never leads
\* there.  (dequeue.py's busy projects together with the concurrency check of
\* JobRun.run)
ProjectExclusion ==
    \A j, k \in Jobs :
        /\ j # k
        /\ ProjectOf[j] = ProjectOf[k]
        /\ Exists(j) /\ WorksOn(j)
        /\ Exists(k) /\ WorksOn(k)
        => GivenUp(j) \/ GivenUp(k)

MutualExclusion == OneRunPerJob /\ ProjectExclusion

\* A final status is changed only for a job that the cron job failed while its
\* worker was still busy with it.  (The unconditional saves at the end of
\* JobRun.run against SetTerminatedWorkersToFinalStatusJob)
FinalStatusSticks ==
    [][\A j \in Jobs :
         status[j] \in Final /\ status'[j] \notin {status[j], "deleted"}
         => status[j] = "failed" /\ startedAt[j] = "old"]_vars

\* Worker w passes the concurrency check with its job.
Passes(w) == pc[w] = "check" /\ pc'[w] = "prepare"

\* With one worker, the jobs of a project are run in the order of their creation,
\* except for a job that staff runs again.  (ORDER BY created_at in dequeue.py)
RunsInOrder ==
    [][\A w \in Workers : Passes(w) =>
         \A k \in JobsOf(ProjectOf[job[w]]) :
             status[k] = "pending" /\ startedAt[k] = "null" => k > job[w]]_vars

\* The queue implements the leases of ProjectLease.
LeaseOf(j) ==
    CASE ~Exists(j) \/ ~WorksOn(j) -> "none"
      [] Exists(j) /\ WorksOn(j) /\ GivenUp(j) -> "lapsed"
      [] OTHER -> "held"

Leases == INSTANCE ProjectLease WITH lease <- [j \in Jobs |-> LeaseOf(j)]

ImplementsLeases == Leases!LeaseSpec

-----------------------------------------------------------------------------
(* An inductive invariant for mutual exclusion, as long as staff runs no job *)
(* again.                                                                    *)

\* What a worker has in memory after LockRow.
HoldsOneJob ==
    /\ \A w \in Workers : pc[w] \in Holding \cup {"found"} => job[w] \in Jobs
    /\ \A w, v \in Workers :
          w # v /\ pc[w] \in Holding /\ pc[v] \in Holding => job[w] # job[v]

\* A job that waits in the table is in no worker's memory, and was never started
\* or launched.
Waiting == {"unborn", "pending"}

WaitingIsFree ==
    /\ \A w \in Workers : pc[w] \in Holding => status[job[w]] \notin Waiting
    /\ \A j \in Jobs : status[j] \in Waiting \cup {"queued"} =>
          startedAt[j] = "null" /\ \A c \in Containers : cjob[c] # j

\* A transaction that scans has a row before it.
Scanning == \A w \in Workers : pc[w] = "scan" <=> todo[w] # {}

\* The dequeue transactions: the rows they lock are theirs alone, and what they
\* know of a row is true unless it is stale.
TransactionsAgree ==
    /\ \A w, v \in Workers : w # v => locks[w] \cap locks[v] = {}
    /\ \A w \in Workers : \A j \in todo[w] : j \in stale[w] \/ status[j] = "pending"
    /\ \A w \in Workers :
          pc[w] = "found" => job[w] \in locks[w] /\ status[job[w]] = "pending"

\* What became of a job between its start and the end of its run.
Running == {"check", "reset"} \cup Checked

RunningIsStarted ==
    /\ \A w \in Workers : pc[w] = "start" => status[job[w]] \in {"queued", "deleted"}
    /\ \A w \in Workers : pc[w] \in Running =>
          \/ status[job[w]] \in {"started", "deleted"}
          \/ status[job[w]] = "failed" /\ startedAt[job[w]] = "old"
    /\ \A c \in Containers : cstate[c] = "running" =>
          status[cjob[c]] \in {"started", "failed", "deleted"}

\* A job is launched once, and the container is removed before the run finishes.
LaunchedOnce ==
    /\ \A c \in Containers : cstate[c] # "unused" => cjob[c] \in Jobs
    /\ \A w \in Workers : \A c \in Containers :
          /\ pc[w] \in {"start", "check", "reset", "prepare", "launch"} => cjob[c] # job[w]
          /\ pc[w] \in {"record", "wait"} /\ cjob[c] = job[w] => c = container[w]
          /\ pc[w] = "finish" /\ cjob[c] = job[w] => cstate[c] # "running"
    /\ \A w \in Workers : pc[w] \in {"record", "wait"} => container[w] \in Containers

QueueInv ==
    /\ HoldsOneJob
    /\ WaitingIsFree
    /\ Scanning
    /\ TransactionsAgree
    /\ RunningIsStarted
    /\ LaunchedOnce
    /\ ProjectExclusion

-----------------------------------------------------------------------------
(* Liveness, under FairSpec                                                *)

\* A started job does not stay started, whatever becomes of its worker.
\* (SetTerminatedWorkersToFinalStatusJob)
StartedSettles ==
    \A j \in Jobs : status[j] = "started" ~> status[j] # "started"

\* While no worker crashes, a job of a project that is not kept locked is
\* finished, failed or deleted at last.
PendingSettles ==
    \A j \in Jobs :
        [](crashes = 0) /\ <>[](ProjectOf[j] \notin lockedAt)
        => (status[j] = "pending" ~> status[j] \in Final \cup {"deleted"})

\* The container of a deleted job does not go on for ever.
\* (cancel_orphaned_workers)
OrphanReclaimed ==
    \A c \in Containers :
        cstate[c] = "running" /\ status[cjob[c]] = "deleted" ~> cstate[c] # "running"

-----------------------------------------------------------------------------
(* What a comment, a message or a document says, and the code does not do.  *)

\* Only the containers of deleted jobs are killed.  (wrapper.py:739 and
\* ecs.py:324 say so; a container whose id is not saved yet is killed as well)
KillsOnlyOrphans ==
    [][\A c \in Containers :
         cstate[c] = "running" /\ cstate'[c] = "killed" => ~Exists(cjob[c])]_vars

\* A queued job is started.  (models.py:1339: "it will be started soon")
QueuedStarts ==
    \A j \in Jobs : status[j] = "queued" ~> status[j] # "queued"
=============================================================================
