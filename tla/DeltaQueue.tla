----------------------------- MODULE DeltaQueue -----------------------------
(***************************************************************************)
(* The life of the deltas of one project: their upload (deltas_views.py),  *)
(* the transaction that puts them into apply jobs (apply_deltas in         *)
(* jobs.py), the hooks of ApplyDeltaJobRun around the QGIS container       *)
(* (wrapper.py), the container's download, application and upload, the     *)
(* cron job that gives up on old jobs (cron.py), and the actions of staff  *)
(* on single deltas (admin.py).                                            *)
(*                                                                         *)
(* Abstractions:                                                           *)
(*  - A delta and a job are numbers, in the order of created_at.           *)
(*  - The queue itself is what JobQueue shows it to be: a job starts while *)
(*    no other job of the project is started (ProjectLease).  "pending"    *)
(*    stands for a queued job as well.                                     *)
(*  - The data of the project is the set of the deltas written to it.  The *)
(*    container works on a copy; whether a delta can be applied to it is   *)
(*    left open.                                                           *)
(*  - A transaction of apply_deltas runs at READ COMMITTED: each of its    *)
(*    statements has a snapshot of its own, and waits for the rows that    *)
(*    another transaction has locked.                                      *)
(***************************************************************************)
EXTENDS Integers, FiniteSets

CONSTANTS
    Requests,     \* processes that serve the API and the admin site
    Deltas,       \* the uuids of deltas, in the order of created_at
    Jobs,         \* the ApplyJobs that may be created
    Limit,        \* settings.APPLY_DELTAS_LIMIT
    Touchable,    \* bound: the deltas that staff may handle one by one
    MaxCrashes    \* bound: how often a worker or cron dies

ASSUME DeltaAssumption ==
    /\ Deltas \subseteq Nat /\ IsFiniteSet(Deltas)
    /\ Jobs \subseteq Nat
    /\ Limit \in Nat \ {0}
    /\ Touchable \subseteq Deltas
    /\ MaxCrashes \in Nat

VARIABLES
    \* the database
    lastStatus,   \* Delta.last_status, or "none" when there is no row
    deltasOf,     \* ApplyJob.deltas_to_apply, by the rows of ApplyJobDelta
    jobStatus,    \* ApplyJob.status; "open" until the COMMIT that creates it
    \* the worker that runs a job
    pc,           \* where in JobRun.run it is
    deltaIds,     \* the jobs whose self.delta_ids is set
    feedback,     \* the part of the delta feedback it has not written yet
    \* the container of a job, and the files of the project
    box,          \* how far the workflow has got
    copy,         \* its working copy of the data
    result,       \* its delta feedback, until it is dealt with: the deltas
                  \* reported as applied
    wrote,        \* history: the deltas it has written to the data
    data,         \* the deltas that are in the data
    \* the requests
    rpc,          \* where in post or apply_deltas a request is
    want,         \* the deltas it inserts, and then those it applies
    excludes,     \* whether step 5 excludes the deltas of active jobs
    count,        \* deltas_count
    batch,        \* the loop variable i
    selected,     \* the rows its SELECT ... FOR UPDATE has found
    opened,       \* the jobs it has created and not committed
    locks,        \* the deltas it has locked
    \* cron and the environment
    cronJobs,     \* the jobs its filter has found
    cronTodo,     \* those of them whose deltas are still to be marked
    crashes,
    strays        \* history: the jobs given up while their container went on

rowVars == <<lastStatus, deltasOf>>
runVars == <<pc, deltaIds, feedback>>
boxVars == <<box, copy, result, wrote, data>>
txnVars == <<want, excludes, count, batch, selected, opened, locks>>
reqVars == <<rpc, txnVars>>
cronVars == <<cronJobs, cronTodo>>
envVars == <<crashes, strays>>
vars == <<rowVars, jobStatus, runVars, boxVars, reqVars, cronVars, envVars>>

Active == {"pending", "started"}
Final == {"finished", "failed"}

\* "rejected" stands for CONFLICT and NOT_APPLIED, "refused" for IGNORED and
\* UNPERMITTED: the server treats the two of a pair alike.
Outcome == {"applied", "rejected"}
Status == {"pending", "started", "error", "refused"} \cup Outcome
Alive == {"fresh", "applied"}

TypeOK ==
    /\ lastStatus \in [Deltas -> Status \cup {"none"}]
    /\ deltasOf \in [Jobs -> SUBSET Deltas]
    /\ jobStatus \in [Jobs -> {"unborn", "open"} \cup Active \cup Final]
    /\ pc \in [Jobs -> {"idle", "prepare", "launch", "run", "feedback", "except",
                        "handle", "save", "gone", "lost", "done"}]
    /\ deltaIds \subseteq Jobs
    /\ feedback \in [Jobs -> SUBSET Deltas]
    /\ box \in [Jobs -> {"none", "ok", "err"} \cup Alive]
    /\ copy \in [Jobs -> SUBSET Deltas]
    /\ result \in [Jobs -> SUBSET Deltas]
    /\ wrote \in [Jobs -> SUBSET Deltas]
    /\ data \subseteq Deltas
    /\ rpc \in [Requests -> {"idle", "insert", "apply", "jobs", "count", "batch", "lock"}]
    /\ want \in [Requests -> SUBSET Deltas]
    /\ excludes \in [Requests -> BOOLEAN]
    /\ count \in [Requests -> Nat]
    /\ batch \in [Requests -> Nat]
    /\ selected \in [Requests -> SUBSET Deltas]
    /\ opened \in [Requests -> SUBSET Jobs]
    /\ locks \in [Requests -> SUBSET Deltas]
    /\ cronJobs \subseteq Jobs
    /\ cronTodo \subseteq cronJobs
    /\ crashes \in Nat
    /\ strays \subseteq Jobs

Init ==
    /\ lastStatus = [d \in Deltas |-> "none"]
    /\ deltasOf = [j \in Jobs |-> {}]
    /\ jobStatus = [j \in Jobs |-> "unborn"]
    /\ pc = [j \in Jobs |-> "idle"]
    /\ deltaIds = {}
    /\ feedback = [j \in Jobs |-> {}]
    /\ box = [j \in Jobs |-> "none"]
    /\ copy = [j \in Jobs |-> {}]
    /\ result = [j \in Jobs |-> {}]
    /\ wrote = [j \in Jobs |-> {}]
    /\ data = {}
    /\ rpc = [r \in Requests |-> "idle"]
    /\ want = [r \in Requests |-> {}]
    /\ excludes = [r \in Requests |-> FALSE]
    /\ count = [r \in Requests |-> 0]
    /\ batch = [r \in Requests |-> 0]
    /\ selected = [r \in Requests |-> {}]
    /\ opened = [r \in Requests |-> {}]
    /\ locks = [r \in Requests |-> {}]
    /\ cronJobs = {}
    /\ cronTodo = {}
    /\ crashes = 0
    /\ strays = {}

-----------------------------------------------------------------------------
(* The tables                                                              *)

\* A row that apply_deltas holds FOR UPDATE: an UPDATE of it waits.
Free(S) == \A r \in Requests : S \cap locks[r] = {}
FreeFor(S, r) == \A q \in Requests \ {r} : S \cap locks[q] = {}

\* The UPDATE of the deltas of job j.
MarkDeltas(j, status) ==
    /\ Free(deltasOf[j])
    /\ lastStatus' = [d \in Deltas |-> IF d \in deltasOf[j] THEN status ELSE lastStatus[d]]
    /\ UNCHANGED deltasOf

\* The status of the jobs in S is saved.
SaveJobs(S, status) ==
    jobStatus' = [j \in Jobs |-> IF j \in S THEN status ELSE jobStatus[j]]

\* The queue no longer counts the jobs in S as active: those with a live
\* container go on unobserved.
GiveUp(S) == strays' = strays \cup {j \in S : box[j] \in Alive}

-----------------------------------------------------------------------------
(* The upload of a deltafile, and the two ways to ask for apply_deltas      *)

\* post: a device sends some deltas; those already known are looked up and left out.
Post(r) ==
    /\ rpc[r] = "idle"
    /\ \E new \in SUBSET {d \in Deltas : lastStatus[d] = "none"} :
         new # {} /\ want' = [want EXCEPT ![r] = new]
    /\ rpc' = [rpc EXCEPT ![r] = "insert"]
    /\ UNCHANGED <<rowVars, jobStatus, runVars, boxVars, excludes, count, batch, selected,
                   opened, locks, cronVars, envVars>>

\* The transaction that inserts the new ones; save(force_insert=True) of a delta
\* that exists by now raises, and nothing is inserted.
InsertDeltas(r) ==
    /\ rpc[r] = "insert"
    /\ IF \A d \in want[r] : lastStatus[d] = "none"
       THEN /\ \E unpermitted \in SUBSET want[r] :
                 lastStatus' = [d \in Deltas |->
                     CASE d \in unpermitted -> "refused"
                       [] d \in want[r] \ unpermitted -> "pending"
                       [] OTHER -> lastStatus[d]]
            /\ rpc' = [rpc EXCEPT ![r] = "apply"]
            /\ want' = [want EXCEPT ![r] = Deltas]
       ELSE /\ rpc' = [rpc EXCEPT ![r] = "idle"]
            /\ want' = [want EXCEPT ![r] = {}]
            /\ UNCHANGED lastStatus
    /\ UNCHANGED <<deltasOf, jobStatus, runVars, boxVars, excludes, count, batch, selected,
                   opened, locks, cronVars, envVars>>

\* ApplyView.post applies all pending deltas, the admin's button a single one.
RequestApply(r) ==
    /\ rpc[r] = "idle"
    /\ \E D \in {Deltas} \cup {{d} : d \in Touchable} : want' = [want EXCEPT ![r] = D]
    /\ rpc' = [rpc EXCEPT ![r] = "apply"]
    /\ UNCHANGED <<rowVars, jobStatus, runVars, boxVars, excludes, count, batch, selected,
                   opened, locks, cronVars, envVars>>

-----------------------------------------------------------------------------
(* apply_deltas                                                            *)

\* The transaction ends and its process is idle again.
EndTransaction(r) ==
    /\ rpc' = [rpc EXCEPT ![r] = "idle"]
    /\ want' = [want EXCEPT ![r] = {}]
    /\ excludes' = [excludes EXCEPT ![r] = FALSE]
    /\ count' = [count EXCEPT ![r] = 0]
    /\ batch' = [batch EXCEPT ![r] = 0]
    /\ selected' = [selected EXCEPT ![r] = {}]
    /\ opened' = [opened EXCEPT ![r] = {}]
    /\ locks' = [locks EXCEPT ![r] = {}]

Pending(r) == {d \in want[r] : lastStatus[d] = "pending"}

\* Steps 1 to 3: `exists` adds LIMIT 1 to SELECT ... FOR UPDATE, so that it locks
\* one of the rows.
LockFirst(r) ==
    /\ rpc[r] = "apply"
    /\ \E d \in Pending(r) :
         /\ FreeFor({d}, r)
         /\ locks' = [locks EXCEPT ![r] = {d}]
    /\ rpc' = [rpc EXCEPT ![r] = "jobs"]
    /\ UNCHANGED <<rowVars, jobStatus, runVars, boxVars, want, excludes, count, batch,
                   selected, opened, cronVars, envVars>>

\* The owner's plan does not allow jobs, or nothing is pending.
NothingToApply(r) ==
    /\ rpc[r] = "apply"
    /\ EndTransaction(r)
    /\ UNCHANGED <<rowVars, jobStatus, runVars, boxVars, cronVars, envVars>>

\* The jobs r sees as active: those committed, and its own.
ActiveJobs(r) == {j \in Jobs : jobStatus[j] \in Active \/ j \in opened[r]}

\* Mutant of Booked: started jobs are thought to have taken their deltas already.
BookedUnstarted(r) ==
    UNION {deltasOf[j] : j \in {k \in ActiveJobs(r) : jobStatus[k] # "started"}}

\* The deltas of the active jobs.
Booked(r) == UNION {deltasOf[j] : j \in ActiveJobs(r)}

\* pending_deltas, as a statement of r finds it now.
Found(r) == IF excludes[r] THEN Pending(r) \ Booked(r) ELSE Pending(r)

\* Step 5
SeeActiveJobs(r) ==
    /\ rpc[r] = "jobs"
    /\ excludes' = [excludes EXCEPT ![r] = ActiveJobs(r) # {}]
    /\ rpc' = [rpc EXCEPT ![r] = "count"]
    /\ UNCHANGED <<rowVars, jobStatus, runVars, boxVars, want, count, batch, selected,
                   opened, locks, cronVars, envVars>>

\* Step 6
CountDeltas(r) ==
    /\ rpc[r] = "count"
    /\ IF Found(r) = {}
       THEN EndTransaction(r)
       ELSE /\ count' = [count EXCEPT ![r] = Cardinality(Found(r))]
            /\ rpc' = [rpc EXCEPT ![r] = "batch"]
            /\ UNCHANGED <<want, excludes, batch, selected, opened, locks>>
    /\ UNCHANGED <<rowVars, jobStatus, runVars, boxVars, cronVars, envVars>>

\* Step 7: the bounds of the slice of batch i, for n deltas.
Offset(i) == Limit * i
Bound(i, n) == IF Limit * (i + 1) >= n THEN Limit * (i + 1) ELSE n
More(i, n) == i <= n \div Limit /\ Offset(i) # Bound(i, n)

\* The elements of S from position a up to, and without, position b.
Slice(S, a, b) ==
    LET Rank(d) == Cardinality({e \in S : e < d})
    IN  {d \in S : a <= Rank(d) /\ Rank(d) < b}

NextJob == CHOOSE j \in Jobs :
    jobStatus[j] = "unborn" /\ \A k \in Jobs : jobStatus[k] = "unborn" => j <= k

\* A job is created, and the SELECT of its deltas begins.
OpenJob(r) ==
    /\ rpc[r] = "batch"
    /\ More(batch[r], count[r])
    /\ \E j \in Jobs : jobStatus[j] = "unborn"
    /\ SaveJobs({NextJob}, "open")
    /\ opened' = [opened EXCEPT ![r] = @ \cup {NextJob}]
    /\ selected' = [selected EXCEPT ![r] = Found(r)]
    /\ rpc' = [rpc EXCEPT ![r] = "lock"]
    /\ UNCHANGED <<rowVars, runVars, boxVars, want, excludes, count, batch, locks,
                   cronVars, envVars>>

\* ORDER BY created_at, FOR UPDATE and the slice: a row that was updated while r
\* waited for its lock is looked at again; then bulk_create.
FillJob(r) ==
    /\ rpc[r] = "lock"
    /\ LET still == selected[r] \cap Pending(r)
           j == CHOOSE k \in opened[r] : \A l \in opened[r] : l <= k
           i == batch[r]
           slice == Slice(still, Offset(i), Bound(i, count[r]))
           passed == Slice(still, 0, Bound(i, count[r]))
       IN  /\ FreeFor(passed, r)
           /\ locks' = [locks EXCEPT ![r] = @ \cup passed]
           /\ deltasOf' = [deltasOf EXCEPT ![j] = slice]
    /\ batch' = [batch EXCEPT ![r] = @ + 1]
    /\ rpc' = [rpc EXCEPT ![r] = "batch"]
    /\ UNCHANGED <<lastStatus, jobStatus, runVars, boxVars, want, excludes, count, selected,
                   opened, cronVars, envVars>>

CommitJobs(r) ==
    /\ rpc[r] = "batch"
    /\ ~More(batch[r], count[r])
    /\ SaveJobs(opened[r], "pending")
    /\ EndTransaction(r)
    /\ UNCHANGED <<rowVars, runVars, boxVars, cronVars, envVars>>

\* The server dies, the client is gone, or PostgreSQL ends a deadlock.
Abort(r) ==
    /\ rpc[r] # "idle"
    /\ SaveJobs(opened[r], "unborn")
    /\ deltasOf' = [j \in Jobs |-> IF j \in opened[r] THEN {} ELSE deltasOf[j]]
    /\ EndTransaction(r)
    /\ UNCHANGED <<lastStatus, runVars, boxVars, cronVars, envVars>>

-----------------------------------------------------------------------------
(* JobRun.run with the hooks of ApplyDeltaJobRun                           *)

Goto(j, place) == pc' = [pc EXCEPT ![j] = place]

\* The worker is through with the job, or dead; what it has in memory is lost.
Leave(j, place) ==
    /\ Goto(j, place)
    /\ deltaIds' = deltaIds \ {j}
    /\ feedback' = [feedback EXCEPT ![j] = {}]

\* Mutant of Unrivalled: the queue does not keep the jobs of a project apart.
AlwaysUnrivalled(j) == TRUE

\* What ProjectLease grants.
Unrivalled(j) == \A k \in Jobs : jobStatus[k] # "started"

StartJob(j) ==
    /\ jobStatus[j] = "pending"
    /\ Unrivalled(j)
    /\ SaveJobs({j}, "started")
    /\ Goto(j, "prepare")
    /\ UNCHANGED <<rowVars, deltaIds, feedback, boxVars, reqVars, cronVars, envVars>>

\* before_docker_run
Prepare(j) ==
    /\ pc[j] = "prepare"
    /\ MarkDeltas(j, "started")
    /\ deltaIds' = deltaIds \cup {j}
    /\ Goto(j, "launch")
    /\ UNCHANGED <<jobStatus, feedback, boxVars, reqVars, cronVars, envVars>>

\* It raises before or after delta_ids is set; its UPDATEs are rolled back.
PrepareFails(j) ==
    /\ pc[j] = "prepare"
    /\ deltaIds' \in {deltaIds, deltaIds \cup {j}}
    /\ Goto(j, "handle")
    /\ UNCHANGED <<rowVars, jobStatus, feedback, boxVars, reqVars, cronVars, envVars>>

Launch(j) ==
    /\ pc[j] = "launch"
    /\ box' = [box EXCEPT ![j] = "fresh"]
    /\ strays' = IF jobStatus[j] = "started" THEN strays ELSE strays \cup {j}
    /\ Goto(j, "run")
    /\ UNCHANGED <<rowVars, jobStatus, deltaIds, feedback, copy, result, wrote, data,
                   reqVars, cronVars, crashes>>

LaunchFails(j) ==
    /\ pc[j] = "launch"
    /\ Goto(j, "handle")
    /\ UNCHANGED <<rowVars, jobStatus, deltaIds, feedback, boxVars, reqVars, cronVars, envVars>>

\* Mutant of Succeeded: the feedback is read whatever the exit code.
FedBack(j) == box[j] \in {"ok", "err"}

\* The exit code is 0 and the feedback holds no error.
Succeeded(j) == box[j] = "ok"

\* after_docker_run begins.
SeeSuccess(j) ==
    /\ pc[j] = "run"
    /\ Succeeded(j)
    /\ feedback' = [feedback EXCEPT ![j] = deltasOf[j]]
    /\ Goto(j, "feedback")
    /\ UNCHANGED <<rowVars, jobStatus, deltaIds, boxVars, reqVars, cronVars, envVars>>

\* One turn of its loop.
WriteFeedback(j) ==
    /\ pc[j] = "feedback"
    /\ \E d \in feedback[j] :
         /\ Free({d})
         /\ lastStatus' = [lastStatus EXCEPT ![d] =
                              IF d \in result[j] THEN "applied" ELSE "rejected"]
         /\ feedback' = [feedback EXCEPT ![j] = @ \ {d}]
    /\ UNCHANGED <<deltasOf, jobStatus, pc, deltaIds, boxVars, reqVars, cronVars, envVars>>

FeedbackFails(j) ==
    /\ pc[j] = "feedback"
    /\ Goto(j, "handle")
    /\ UNCHANGED <<rowVars, jobStatus, deltaIds, feedback, boxVars, reqVars, cronVars, envVars>>

FinishJob(j) ==
    /\ pc[j] = "feedback"
    /\ feedback[j] = {}
    /\ SaveJobs({j}, "finished")
    /\ result' = [result EXCEPT ![j] = {}]
    /\ Leave(j, "done")
    /\ UNCHANGED <<rowVars, box, copy, wrote, data, reqVars, cronVars, envVars>>

\* The container failed, or it took too long and has been stopped: FAILED is saved first.
SeeFailure(j) ==
    /\ pc[j] = "run"
    /\ box[j] \in {"err"} \cup Alive
    /\ box' = [box EXCEPT ![j] = "err"]
    /\ copy' = [copy EXCEPT ![j] = {}]
    /\ result' = [result EXCEPT ![j] = {}]
    /\ SaveJobs({j}, "failed")
    /\ Goto(j, "except")
    /\ UNCHANGED <<rowVars, deltaIds, feedback, wrote, data, reqVars, cronVars, envVars>>

\* Mutant of AfterException: the deltas of a failed job are tried again.
AfterExceptionRetry(j) ==
    /\ pc[j] = "except"
    /\ MarkDeltas(j, "pending")
    /\ Leave(j, "done")
    /\ UNCHANGED <<jobStatus, boxVars, reqVars, cronVars, envVars>>

\* after_docker_exception
AfterException(j) ==
    /\ pc[j] = "except"
    /\ MarkDeltas(j, "error")
    /\ Leave(j, "done")
    /\ UNCHANGED <<jobStatus, boxVars, reqVars, cronVars, envVars>>

\* The daemon does not answer: an exception, and the container is left alone.
LoseContainer(j) ==
    /\ pc[j] = "run"
    /\ Goto(j, "handle")
    /\ UNCHANGED <<rowVars, jobStatus, deltaIds, feedback, boxVars, reqVars, cronVars, envVars>>

\* The global handler: after_docker_exception, which raises when delta_ids is not
\* set, and then the save.
HandleException(j) ==
    /\ pc[j] = "handle"
    /\ IF j \in deltaIds THEN MarkDeltas(j, "error") ELSE UNCHANGED rowVars
    /\ Goto(j, "save")
    /\ UNCHANGED <<jobStatus, deltaIds, feedback, boxVars, reqVars, cronVars, envVars>>

SaveFailed(j) ==
    /\ pc[j] = "save"
    /\ SaveJobs({j}, "failed")
    /\ GiveUp({j})
    /\ Leave(j, "done")
    /\ UNCHANGED <<rowVars, boxVars, reqVars, cronVars, crashes>>

\* cron has dealt with the deltas of job j, or will not look at the job.
Passed(j) == jobStatus[j] \in Final \/ j \in cronJobs \ cronTodo

\* The worker dies.
Crash(j) ==
    /\ crashes < MaxCrashes
    /\ crashes' = crashes + 1
    /\ pc[j] \notin {"idle", "gone", "lost", "done"}
    /\ Leave(j, IF Passed(j) THEN "lost" ELSE "gone")
    /\ UNCHANGED <<rowVars, jobStatus, boxVars, reqVars, cronVars, strays>>

-----------------------------------------------------------------------------
(* The workflow of the container                                           *)

\* It downloads the project and applies each of the deltas to its copy, or not.
ApplyToCopy(j) ==
    /\ box[j] = "fresh"
    /\ \E applied \in SUBSET deltasOf[j] :
         /\ result' = [result EXCEPT ![j] = applied]
         /\ copy' = [copy EXCEPT ![j] = data \cup applied]
    /\ box' = [box EXCEPT ![j] = "applied"]
    /\ UNCHANGED <<rowVars, jobStatus, runVars, wrote, data, reqVars, cronVars, envVars>>

\* upload_project, and the exit.  The data may have been replaced, or not, when the
\* upload fails or the container dies on its way.
UploadAndExit(j) ==
    /\ box[j] = "applied"
    /\ \/ /\ wrote' = [wrote EXCEPT ![j] = result[j]]
          /\ data' = copy[j]
          /\ \E exit \in {"ok", "err"} : box' = [box EXCEPT ![j] = exit]
       \/ /\ box' = [box EXCEPT ![j] = "err"]
          /\ UNCHANGED <<wrote, data>>
    /\ copy' = [copy EXCEPT ![j] = {}]
    /\ UNCHANGED <<rowVars, jobStatus, runVars, result, reqVars, cronVars, envVars>>

\* A step of the workflow raises, or the container is killed.
FailAndExit(j) ==
    /\ box[j] = "fresh"
    /\ box' = [box EXCEPT ![j] = "err"]
    /\ UNCHANGED <<rowVars, jobStatus, runVars, copy, result, wrote, data, reqVars,
                   cronVars, envVars>>

-----------------------------------------------------------------------------
(* cron and staff                                                          *)

\* The filter is evaluated for the loop: any started job may have started more
\* than WORKER_TIMEOUT_S + 10 seconds ago ...
CronBegin ==
    /\ cronJobs = {}
    /\ \E overdue \in SUBSET {j \in Jobs : jobStatus[j] = "started"} :
         overdue # {} /\ cronJobs' = overdue /\ cronTodo' = overdue
    /\ UNCHANGED <<rowVars, jobStatus, runVars, boxVars, reqVars, envVars>>

\* Mutant of CronMark: the loop leaves the deltas alone.
CronMarkNothing(j) ==
    /\ j \in cronTodo
    /\ cronTodo' = cronTodo \ {j}
    /\ UNCHANGED <<rowVars, jobStatus, runVars, boxVars, reqVars, cronJobs, envVars>>

CronMark(j) ==
    /\ j \in cronTodo
    /\ cronTodo' = cronTodo \ {j}
    /\ MarkDeltas(j, "error")
    /\ UNCHANGED <<jobStatus, runVars, boxVars, reqVars, cronJobs, envVars>>

\* ... and again, with the same threshold, by jobs.update.
CronFail ==
    /\ cronJobs # {} /\ cronTodo = {}
    /\ LET overdue == {j \in cronJobs : jobStatus[j] = "started"}
       IN  SaveJobs(overdue, "failed") /\ GiveUp(overdue)
    /\ cronJobs' = {}
    /\ UNCHANGED <<rowVars, runVars, boxVars, reqVars, cronTodo, crashes>>

CronDies ==
    /\ cronJobs # {}
    /\ crashes < MaxCrashes
    /\ crashes' = crashes + 1
    /\ cronJobs' = {} /\ cronTodo' = {}
    /\ UNCHANGED <<rowVars, jobStatus, runVars, boxVars, reqVars, strays>>

\* DeltaAdmin.set_status_pending, set_status_ignored, set_status_unpermitted
SetStatus(d) ==
    /\ d \in Touchable
    /\ lastStatus[d] # "none"
    /\ Free({d})
    /\ \E s \in {"pending", "refused"} : lastStatus' = [lastStatus EXCEPT ![d] = s]
    /\ UNCHANGED <<deltasOf, jobStatus, runVars, boxVars, reqVars, cronVars, envVars>>

-----------------------------------------------------------------------------
RequestStep(r) ==
    \/ LockFirst(r) \/ NothingToApply(r) \/ SeeActiveJobs(r) \/ CountDeltas(r)
    \/ OpenJob(r) \/ FillJob(r) \/ CommitJobs(r) \/ InsertDeltas(r) \/ Abort(r)

WorkerStep(j) ==
    \/ Prepare(j) \/ PrepareFails(j) \/ Launch(j) \/ LaunchFails(j)
    \/ SeeSuccess(j) \/ WriteFeedback(j) \/ FeedbackFails(j) \/ FinishJob(j)
    \/ SeeFailure(j) \/ AfterException(j) \/ LoseContainer(j) \/ HandleException(j)
    \/ SaveFailed(j)

ContainerStep(j) == ApplyToCopy(j) \/ UploadAndExit(j) \/ FailAndExit(j)

CronStep == CronBegin \/ (\E j \in Jobs : CronMark(j)) \/ CronFail

Next ==
    \/ \E r \in Requests : Post(r) \/ RequestApply(r) \/ RequestStep(r)
    \/ \E j \in Jobs : \/ StartJob(j) \/ WorkerStep(j) \/ Crash(j)
                       \/ ContainerStep(j)
    \/ \E d \in Deltas : SetStatus(d)
    \/ CronStep \/ CronDies

Spec == Init /\ [][Next]_vars

\* A request ends, a worker that lives goes on, time passes and cron runs.  An
\* UPDATE gets the lock it waits for in the end, since PostgreSQL queues those that
\* wait.  Nothing makes a container end, staff act, or a request begin.
Fairness ==
    /\ \A r \in Requests : WF_vars(RequestStep(r))
    /\ \A j \in Jobs : SF_vars(WorkerStep(j)) /\ SF_vars(CronMark(j))
    /\ WF_vars(CronStep)

FairSpec == Spec /\ Fairness

-----------------------------------------------------------------------------
(* Safety                                                                  *)

\* A delta waits in, or is worked on by, one job at a time.  (Steps 2 and 5 of
\* apply_deltas)
OneActiveJob ==
    \A j, k \in Jobs :
        j # k /\ jobStatus[j] \in Active /\ jobStatus[k] \in Active
        => deltasOf[j] \cap deltasOf[k] = {}

\* A delta is written to the data once, whatever fails, unless staff asks for it
\* again.  (A delta that was handed to a container does not become pending.)
WrittenOnce ==
    \A j, k \in Jobs : j # k => wrote[j] \cap wrote[k] \subseteq Touchable

\* Rows and processes keep their types, and a delta that is reported as applied
\* was written to the data, and is there still unless the container of a job
\* given up has replaced the data.
\* (after_docker_run is reached only when the whole workflow has succeeded)
AppliedIsThere ==
    /\ TypeOK
    /\ \A d \in Deltas : lastStatus[d] = "applied" =>
          /\ \E j \in Jobs : d \in wrote[j]
          /\ strays = {} => d \in data

-----------------------------------------------------------------------------
(* Liveness, under FairSpec                                                *)

\* A delta does not stay started, unless its worker dies after the job was
\* declared failed (or cron was through with it) and before the deltas were told:
\* nothing repairs that.  (after_docker_run, after_docker_exception and cron.py)
StartedSettles ==
    \A d \in Deltas :
        lastStatus[d] = "started" ~>
            \/ lastStatus[d] # "started"
            \/ \E j \in Jobs : d \in deltasOf[j] /\ pc[j] = "lost"
=============================================================================
