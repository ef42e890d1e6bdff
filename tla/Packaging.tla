------------------------------ MODULE Packaging ------------------------------
(***************************************************************************)
(* What the jobs of one project make of its files: the package of every    *)
(* user (PackageJob) and the details of the QGIS project file              *)
(* (ProcessProjectfileJob), the clean-up of obsolete packages, and the API *)
(* that offers packages for download and says when they are out of date.   *)
(*                                                                         *)
(* Abstractions:                                                           *)
(*  - The project's files are a version number, the count of the uploads.  *)
(*    A time is the version it falls into: finished_at is compared with    *)
(*    nothing but data_last_updated_at, which every upload sets.           *)
(*  - JobQueue says how jobs are dequeued: here a job starts when no other *)
(*    one of the project is STARTED, and cron may give up a package job    *)
(*    whose worker goes on.  QUEUED counts as PENDING.                     *)
(*  - Package jobs are rows; of the process jobs of a user, of which the   *)
(*    upload makes one at a time, the last one matters.  When that is over *)
(*    it is as good as none.                                               *)
(*  - A package is one file at first and all of its files later.           *)
(*  - What no query reads is left out: of a job that is over, whether it   *)
(*    was forced and, unless it is finished, what its run had read.        *)
(*  - A user who was removed from the project does not come back.          *)
(***************************************************************************)
EXTENDS Integers, FiniteSets, FiniteSetsExt

CONSTANTS
    Users,        \* people who have, had or may get access to the project
    Owner,        \* the owner of the project
    WithSecret,   \* users with a secret of their own for the project
    IsPublic,     \* project.is_public
    MaxJobs,      \* bound: package jobs ever created
    MaxUploads,   \* bound: uploads
    MaxGiveUps,   \* bound: jobs given up by cron
    MaxEvents,    \* bound: what the environment does in all
    None          \* NULL

ASSUME PackagingAssumption ==
    /\ IsFiniteSet(Users) /\ Owner \in Users /\ WithSecret \subseteq Users
    /\ IsPublic \in BOOLEAN
    /\ MaxJobs \in Nat /\ MaxUploads \in Nat /\ MaxGiveUps \in Nat /\ MaxEvents \in Nat
    /\ None \notin Nat

VARIABLES
    \* the database
    jobs,       \* the package jobs by created_at, and how far their runs are
    process,    \* how far the last process job of a user is
    processed,  \* the version its container has read
    members,    \* for_organization(owner) and the direct collaborators
    version,    \* the version of the project's files, 0 when it has none
    details,    \* the version project_details was made from, None when NULL
    packaged,   \* data_last_packaged_at IS NOT NULL
    \* the requests and the cleaners
    creating,   \* users whose request has found no active package job
    doomed,     \* the packages a cleaner has listed: one per job, 0 is cron's
    cleaning,   \* cron has listed and not deleted yet
    \* history
    left,       \* users who were removed from the project at some time
    overtaken,  \* jobs during whose run the files changed after they were read
    unseen,     \* uploads that no process job was created for, and whose
                \* user's active one had read the files before
    gaveUp

vars == <<jobs, process, processed, members, version, details, packaged, creating, doomed, cleaning,
          left, overtaken, unseen, gaveUp>>

Versions == 0..MaxUploads
JobIds == DOMAIN jobs
ActiveStatus == {"pending", "started"}

JobRow == [by : Users, forced : BOOLEAN,
           status : ActiveStatus \cup {"finished", "failed"},
           finished_at : Versions \cup {None},
           files : {"none", "some", "all"},
           \* the run: the worker's place, and the version its container has read
           run : {"idle", "launched", "read", "after", "clean", "finish", "thrown"},
           read : Versions \cup {None}]

TypeOK ==
    /\ DOMAIN jobs \in {1..n : n \in 0..MaxJobs} /\ \A j \in JobIds : jobs[j] \in JobRow
    /\ process \in [Users -> {"none", "pending", "launched", "read", "after", "finish", "failed", "thrown"}]
    /\ processed \in [Users -> Versions \cup {None}]
    /\ members \subseteq Users /\ Owner \in members
    /\ version \in Versions /\ details \in Versions \cup {None}
    /\ packaged \in BOOLEAN /\ cleaning \in BOOLEAN
    /\ creating \subseteq Users /\ left \subseteq Users
    /\ doomed \in [0..MaxJobs -> SUBSET JobIds]
    /\ overtaken \subseteq JobIds /\ unseen \subseteq Versions
    /\ gaveUp \in 0..MaxGiveUps

Init ==
    /\ jobs = <<>> /\ members = {Owner}
    /\ process = [u \in Users |-> "none"] /\ processed = [u \in Users |-> None]
    /\ version = 0 /\ details = None /\ packaged = FALSE
    /\ creating = {} /\ doomed = [c \in 0..MaxJobs |-> {}] /\ cleaning = FALSE
    /\ left = {} /\ overtaken = {} /\ unseen = {} /\ gaveUp = 0

-----------------------------------------------------------------------------
(* Queries.                                                                *)

IsActive(j) == jobs[j].status \in ActiveStatus

\* The job that was created last, None of an empty set.
NewestOf(J) == IF J = {} THEN None ELSE Max(J)

\* Jobs made with another user's secrets are not for a user with an own secret.
PackageJobsFor(u) ==
    {j \in JobIds : u \notin WithSecret \/ jobs[j].by = u}

LatestPackageJobFor(u) == NewestOf(PackageJobsFor(u))

LatestFinishedFor(u) == NewestOf({j \in PackageJobsFor(u) : ~IsActive(j)})

LatestOf(u) == NewestOf({j \in JobIds : jobs[j].by = u})

LatestPackageJobs ==
    {LatestOf(u) : u \in IF IsPublic THEN Users ELSE members} \ {None}

\* As if a package of anyone did for the user.
NeedsRepackagingByAny(u) ==
    LET j == NewestOf(JobIds) IN
    \/ details = None \/ version = 0 \/ ~packaged \/ j = None
    \/ jobs[j].finished_at = None
    \/ jobs[j].finished_at < version

NeedsRepackaging(u) ==
    LET j == LatestPackageJobFor(u) IN
    \/ details = None \/ version = 0 \/ ~packaged \/ j = None
    \/ jobs[j].finished_at = None
    \/ jobs[j].finished_at < version

\* As if active jobs were not spared.
ObsoleteActive ==
    {j \in JobIds : jobs[j].files # "none" /\ j \notin LatestPackageJobs}

\* As if latest_package_jobs were one job for the project.
ObsoleteButOne ==
    {j \in JobIds :
        jobs[j].files # "none" /\ ~IsActive(j) /\ j # NewestOf(JobIds)}

Obsolete ==
    {j \in JobIds :
        jobs[j].files # "none" /\ ~IsActive(j) /\ j \notin LatestPackageJobs}

-----------------------------------------------------------------------------
(* The API.                                                                *)

runUnchanged == UNCHANGED <<details, packaged, doomed, cleaning, gaveUp>>
accessUnchanged == UNCHANGED <<members, left>>
uploadUnchanged == UNCHANGED <<version, process, processed, overtaken, unseen>>

\* Requests, uploads, changes of the members and jobs given up so far.
Events == Cardinality(JobIds) + Cardinality(creating) + version + gaveUp
          + Cardinality(members) - 1 + 2 * Cardinality(left)

CreateJob(u, forced) ==
    /\ Cardinality(JobIds) < MaxJobs
    /\ jobs' = [j \in 1..Cardinality(JobIds) + 1 |->
                    IF j \in JobIds THEN jobs[j]
                    ELSE [by |-> u, forced |-> forced, status |-> "pending",
                          finished_at |-> None, files |-> "none", run |-> "idle", read |-> None]]

\* As if a job that waits were not one to wait for.
StartedPackageJobs == {j \in JobIds : jobs[j].status = "started"}

ActivePackageJobs == {j \in JobIds : IsActive(j)}

\* The part of create() that looks for an active package job and finds none.
RequestPackage(u) ==
    /\ u \in members /\ u \notin creating
    /\ Events < MaxEvents
    /\ ActivePackageJobs = {}
    /\ version > 0
    /\ creating' = creating \cup {u}
    /\ UNCHANGED jobs /\ runUnchanged /\ accessUnchanged /\ uploadUnchanged

CreatePackage(u) ==
    /\ u \in creating
    /\ CreateJob(u, FALSE)
    /\ creating' = creating \ {u}
    /\ runUnchanged /\ accessUnchanged /\ uploadUnchanged

\* force: no look for another job, nor for the QGIS file.
ForcePackage(u) ==
    /\ u \in members
    /\ Events < MaxEvents
    /\ CreateJob(u, TRUE)
    /\ UNCHANGED creating
    /\ runUnchanged /\ accessUnchanged /\ uploadUnchanged

\* As if the jobs of other users were as good as one's own.
ProcessActiveOfAny(u) == \E w \in Users : process[w] \notin {"none", "failed"}

ProcessActive(u) == process[u] \notin {"none", "failed"}

HasRead(u) == processed[u] # None

\* The end of upload_project_file_version, one transaction.
Upload(u) ==
    /\ u \in members
    /\ Events < MaxEvents
    /\ version < MaxUploads
    /\ version' = version + 1
    /\ process[u] # "failed"
    /\ process' = IF ProcessActive(u) THEN process ELSE [process EXCEPT ![u] = "pending"]
    /\ overtaken' = overtaken \cup {j \in JobIds : jobs[j].run # "idle" /\ jobs[j].read # None}
    /\ unseen' = IF process[u] # "none" /\ HasRead(u) THEN unseen \cup {version + 1} ELSE unseen
    /\ UNCHANGED <<jobs, processed, creating>>
    /\ runUnchanged /\ accessUnchanged

AddMember(u) ==
    /\ u \notin members \cup left
    /\ Events < MaxEvents
    /\ members' = members \cup {u}
    /\ UNCHANGED <<jobs, creating, left>>
    /\ runUnchanged /\ uploadUnchanged

RemoveMember(u) ==
    /\ u \in members \ {Owner}
    /\ Events < MaxEvents
    /\ members' = members \ {u}
    /\ left' = left \cup {u}
    /\ UNCHANGED <<jobs, creating>>
    /\ runUnchanged /\ uploadUnchanged

-----------------------------------------------------------------------------
(* A run: the worker and its container.                                    *)

requestUnchanged == UNCHANGED <<members, version, creating, cleaning, left, overtaken, unseen>>

packageOnly == UNCHANGED <<process, processed, details>> /\ requestUnchanged

\* The concurrency check of JobRun.run.
NothingStarted ==
    /\ \A j \in JobIds : jobs[j].status # "started"
    /\ \A u \in Users : process[u] \in {"none", "pending", "failed"}

Start(j) ==
    /\ jobs[j].status = "pending" /\ NothingStarted
    /\ jobs' = [jobs EXCEPT ![j].status = "started", ![j].run = "launched"]
    /\ UNCHANGED <<packaged, doomed, gaveUp>> /\ packageOnly

\* download_project
Download(j) ==
    /\ jobs[j].run = "launched"
    /\ version > 0
    /\ jobs' = [jobs EXCEPT ![j].run = "read", ![j].read = version]
    /\ UNCHANGED <<packaged, doomed, gaveUp>> /\ packageOnly

\* upload_package; the server takes files of started jobs only.
UploadPackageFile(j) ==
    /\ jobs[j].run = "read" /\ jobs[j].status = "started"
    /\ jobs[j].files # "all"
    /\ jobs' = [jobs EXCEPT ![j].files = IF @ = "none" THEN "some" ELSE "all"]
    /\ UNCHANGED <<packaged, doomed, gaveUp>> /\ packageOnly

ContainerSucceeds(j) ==
    /\ jobs[j].run = "read" /\ jobs[j].files = "all"
    /\ jobs' = [jobs EXCEPT ![j].run = "after"]
    /\ UNCHANGED <<packaged, doomed, gaveUp>> /\ packageOnly

Ended(j, status) ==
    [jobs[j] EXCEPT !.run = "idle", !.status = status, !.forced = FALSE,
                    !.read = IF status = "finished" THEN @ ELSE None]

\* A container that fails, or leaves an error in its feedback: no finished_at.
ContainerFails(j) ==
    /\ jobs[j].run \in {"launched", "read"}
    /\ jobs' = [jobs EXCEPT ![j] = Ended(j, "failed")]
    /\ UNCHANGED <<packaged, doomed, gaveUp>> /\ packageOnly

\* Anything else that raises goes to the global handler of the run.
Throw(j) ==
    /\ jobs[j].run \in {"launched", "read", "after", "clean", "finish"}
    /\ jobs' = [jobs EXCEPT ![j].run = "thrown"]
    /\ doomed' = [doomed EXCEPT ![j] = {}]
    /\ UNCHANGED <<packaged, gaveUp>> /\ packageOnly

SaveFailure(j) ==
    /\ jobs[j].run = "thrown"
    /\ jobs' = [jobs EXCEPT ![j] = [Ended(j, "failed") EXCEPT !.finished_at = version]]
    /\ UNCHANGED <<packaged, doomed, gaveUp>> /\ packageOnly

\* PackageJobRun.after_docker_run: delete_obsolete_packages lists, then deletes.
SavePackagedAt(j) ==
    /\ jobs[j].run = "after"
    /\ packaged' = TRUE
    /\ doomed' = [doomed EXCEPT ![j] = Obsolete]
    /\ jobs' = [jobs EXCEPT ![j].run = "clean"]
    /\ UNCHANGED gaveUp /\ packageOnly

WithoutFilesOf(J) ==
    [k \in JobIds |-> IF k \in J THEN [jobs[k] EXCEPT !.files = "none"] ELSE jobs[k]]

CleanUp(j) ==
    /\ jobs[j].run = "clean"
    /\ jobs' = [WithoutFilesOf(doomed[j]) EXCEPT ![j].run = "finish"]
    /\ doomed' = [doomed EXCEPT ![j] = {}]
    /\ UNCHANGED <<packaged, gaveUp>> /\ packageOnly

Finish(j) ==
    /\ jobs[j].run = "finish"
    /\ jobs' = [jobs EXCEPT ![j] = [Ended(j, "finished") EXCEPT !.finished_at = version]]
    /\ UNCHANGED <<packaged, doomed, gaveUp>> /\ packageOnly

-----------------------------------------------------------------------------
(* The run of a process job.                                               *)

processOnly == UNCHANGED <<jobs, packaged, doomed, gaveUp>> /\ requestUnchanged

GotoProcess(u, from, to) ==
    /\ process[u] \in from
    /\ process' = [process EXCEPT ![u] = to]

StartProcess(u) ==
    /\ NothingStarted
    /\ GotoProcess(u, {"pending"}, "launched")
    /\ UNCHANGED <<processed, details>> /\ processOnly

DownloadForProcess(u) ==
    /\ GotoProcess(u, {"launched"}, "read")
    /\ processed' = [processed EXCEPT ![u] = version]
    /\ UNCHANGED details /\ processOnly

ProcessSucceeds(u) ==
    /\ GotoProcess(u, {"read"}, "after")
    /\ UNCHANGED <<processed, details>> /\ processOnly

\* The job has failed before the hook runs, or is to fail after it.
ProcessFails(u) ==
    /\ \/ GotoProcess(u, {"launched", "read"}, "failed")
       \/ GotoProcess(u, {"launched", "read", "after", "finish"}, "thrown")
    /\ UNCHANGED <<processed, details>> /\ processOnly

\* ProcessProjectfileJobRun.after_docker_exception
ResetDetails(u) ==
    /\ GotoProcess(u, {"failed", "thrown"}, "none")
    /\ details' = None
    /\ processed' = [processed EXCEPT ![u] = None]
    /\ processOnly

\* ProcessProjectfileJobRun.after_docker_run
SaveDetails(u) ==
    /\ GotoProcess(u, {"after"}, "finish")
    /\ details' = processed[u]
    /\ UNCHANGED processed /\ processOnly

FinishProcess(u) ==
    /\ GotoProcess(u, {"finish"}, "none")
    /\ processed' = [processed EXCEPT ![u] = None]
    /\ UNCHANGED details /\ processOnly

-----------------------------------------------------------------------------
(* cron.                                                                   *)

\* SetTerminatedWorkersToFinalStatusJob: the worker may go on.
GiveUp(j) ==
    /\ jobs[j].status = "started"
    /\ gaveUp < MaxGiveUps
    /\ Events < MaxEvents
    /\ gaveUp' = gaveUp + 1
    /\ jobs' = [jobs EXCEPT ![j].status = "failed", ![j].finished_at = version]
    /\ UNCHANGED <<packaged, doomed>> /\ packageOnly

\* DeleteObsoleteProjectPackagesJob
ListObsolete ==
    /\ ~cleaning /\ Obsolete # {}
    /\ cleaning' = TRUE
    /\ doomed' = [doomed EXCEPT ![0] = Obsolete]
    /\ UNCHANGED <<jobs, details, packaged, creating, gaveUp>>
    /\ accessUnchanged /\ uploadUnchanged

DeleteObsolete ==
    /\ cleaning
    /\ cleaning' = FALSE
    /\ jobs' = WithoutFilesOf(doomed[0])
    /\ doomed' = [doomed EXCEPT ![0] = {}]
    /\ UNCHANGED <<details, packaged, creating, gaveUp>>
    /\ accessUnchanged /\ uploadUnchanged

-----------------------------------------------------------------------------
PackageRun(j) ==
    \/ Start(j) \/ Download(j) \/ UploadPackageFile(j)
    \/ ContainerSucceeds(j) \/ ContainerFails(j) \/ Throw(j) \/ SaveFailure(j)
    \/ SavePackagedAt(j) \/ CleanUp(j) \/ Finish(j)
    \/ GiveUp(j)

ProcessRun(u) ==
    \/ StartProcess(u) \/ DownloadForProcess(u) \/ ProcessSucceeds(u) \/ ProcessFails(u)
    \/ ResetDetails(u) \/ SaveDetails(u) \/ FinishProcess(u)

Request(u) ==
    \/ RequestPackage(u) \/ CreatePackage(u) \/ ForcePackage(u) \/ Upload(u)
    \/ AddMember(u) \/ RemoveMember(u)

Next ==
    \/ \E j \in JobIds : PackageRun(j)
    \/ \E u \in Users : ProcessRun(u) \/ Request(u)
    \/ ListObsolete \/ DeleteObsolete

Spec == Init /\ [][Next]_vars

-----------------------------------------------------------------------------
(* Properties.                                                             *)

\* Rows and processes keep their types, and the package that the API offers a
\* user for download is whole, unless the user it was made for has asked for
\* another one since or is no longer a member: no cleaner takes it for
\* obsolete, whatever was created, has finished or was given up since the
\* cleaner made its list.
OfferedIsWhole ==
    /\ TypeOK
    /\ \A u \in members :
        LET j == LatestFinishedFor(u) IN
        j # None /\ jobs[j].status = "finished" =>
            \/ jobs[j].files = "all"
            \/ j # LatestOf(jobs[j].by)
            \/ jobs[j].by \notin members \ left

\* No cleaner deletes the files of a package that is still being uploaded:
\* its container could not tell, and the job would finish without them.
UploadsSurvive ==
    [][\A j \in JobIds :
        jobs[j].status = "started" /\ jobs[j].files # "none" => jobs'[j].files # "none"]_vars

\* When the API tells a user that there is nothing to repackage, the newest
\* package for that user has been made from the files as they are, unless they
\* changed under its run (finished_at is after the update then) or the run
\* ended in the global handler or by cron, which set finished_at too.
UpToDate ==
    \A u \in members \ left :
        ~NeedsRepackaging(u) =>
            LET j == LatestPackageJobFor(u) IN
            /\ j # None
            /\ \/ jobs[j].status # "finished"
               \/ j \in overtaken
               \/ jobs[j].by \notin members \ left
               \/ jobs[j].read = version /\ jobs[j].files = "all"

\* create() looks for an active package job and creates one in two steps:
\* requests that overlap may create one each, and there are never more active
\* jobs that were not forced than there are users.
DoublesBounded ==
    Cardinality({j \in JobIds : jobs[j].status \in ActiveStatus /\ ~jobs[j].forced})
        <= Cardinality(Users)

\* When no process job is left to run, the details are those of the files as
\* they are, or a failed job has reset them.  One exception: an upload during
\* the run of a job of the same user that has already read the files creates no
\* job of its own.
DetailsCurrent ==
    (\A u \in Users : process[u] = "none")
        => details \in {version, None} \/ version \in unseen \/ version = 0
=============================================================================
