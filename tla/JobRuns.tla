------------------------------- MODULE JobRuns -------------------------------
(***************************************************************************)
(* One run of a job: the workflow that a QGIS container or ECS task works  *)
(* off, the feedback it leaves in the directory it shares with the worker, *)
(* and what the worker makes of both.  Other workers, workers that die and *)
(* cron are in JobQueue; the work of the steps is in DeltaApply, Packaging *)
(* and Creation.                                                           *)
(***************************************************************************)
EXTENDS Integers, Sequences

CONSTANTS
    JobKinds,      \* types of jobs, with the executor of the deployment
    MaxTasks,      \* bound: containers or tasks that are started
    MaxAttempts    \* RUN_TASK_RETRY_COUNT

ASSUME JobRunsAssumption ==
    /\ JobKinds \subseteq [type: {"package", "process_projectfile", "delta_apply", "create_project"},
                           executor: {"docker", "ecs"}]
    /\ MaxTasks \in Nat \ {0} /\ MaxAttempts \in Nat \ {0}

VARIABLES
    jobKind,       \* its type and executor
    qgisTasks,     \* containers of Docker, tasks of ECS
    feedbackFile,  \* feedback.json of the shared directory
    jobRun,        \* the JobRun in the memory of the worker
    jobRow         \* the row of the job

jobRunVars == <<jobKind, qgisTasks, feedbackFile, jobRun, jobRow>>

-----------------------------------------------------------------------------
(* Workflows.  A step takes what former steps returned, a set of pairs of  *)
(* a step and a name; `raises` are the kinds of errors of its method.      *)
WorkflowStep(id, takes, returns, outputs, raises) ==
    [id |-> id, takes |-> takes, returns |-> returns, outputs |-> outputs, raises |-> raises]

StartQgisApp == WorkflowStep("start_qgis_app", {}, {"qgis_version"}, {}, {})
DownloadProjectDirectory ==
    WorkflowStep("download_project_directory", {}, {"tmp_project_dir"}, {}, {"api"})
UploadProjectDirectory == WorkflowStep("upload_project_directory", {}, {}, {}, {"api"})
StopQgisApp == WorkflowStep("stop_qgis_app", {}, {}, {}, {})
(* open_qgis_project: the file is missing, or QGIS cannot read it. *)
OpenRaises == {"file", "other"}
(* Taking the feature counts out: no archive, no XML, or no way to zip it again *)
StripRaises == {"other"}
(* A project that QGIS cannot read on the side raises nothing there: the   *)
(* caller misses the keys of its details.                                  *)
OpenTemporarilyRaises == {"other"}
(* No project in the archive; no XML, another root, no version in it *)
ReadVersionRaises == {"other"}
(* The assertions that the project has a file and the extent is in degrees *)
SaveRaises == {"other"}
LayersDataStep(id, takes) ==
    WorkflowStep(id, takes, {"layers_by_id"}, {"layers_by_id"}, OpenRaises)

(* No extent, an unknown offliner, whatever libqfieldsync raises, nothing packaged *)
PackageProject ==
    WorkflowStep("package_project", {}, {"the_qgis_file_name_in_qfield"}, {}, OpenRaises)
UploadPackagedProject == WorkflowStep("upload_packaged_project", {}, {}, {}, {"api"})

PackageWorkflow ==
    << StartQgisApp, DownloadProjectDirectory, LayersDataStep("qgis_layers_data", {}),
       PackageProject,
       LayersDataStep("qfield_layer_data", {<<"package_project", "the_qgis_file_name_in_qfield">>}),
       StopQgisApp, UploadPackagedProject >>

(* A missing file and an unknown extension have no type of their own. *)
ProjectValidityCheck == WorkflowStep("project_validity_check", {}, {}, {}, {"xml", "other"})
OpeningCheck ==
    WorkflowStep("opening_check", {}, {"project"}, {}, OpenRaises \cup StripRaises)
ProjectDetails ==
    WorkflowStep("project_details", {<<"opening_check", "project">>},
                 {"project_details"}, {"project_details"},
                 OpenTemporarilyRaises \cup ReadVersionRaises)

(* A project without an extent, or a renderer that is not active, makes no *)
(* thumbnail, which is no error: then there is nothing to upload.          *)
GenerateThumbnailImage ==
    WorkflowStep("generate_thumbnail_image", {}, {"thumbnail_filename"}, {},
                 OpenTemporarilyRaises \cup {"other"})
UploadThumbnail ==
    WorkflowStep("upload_thumbnail", {<<"generate_thumbnail_image", "thumbnail_filename">>},
                 {}, {}, {"api"})

ProcessWorkflow ==
    << StartQgisApp, DownloadProjectDirectory, ProjectValidityCheck, OpeningCheck, ProjectDetails,
       GenerateThumbnailImage, UploadThumbnail, StopQgisApp >>

DeltaWorkflow ==
    << StartQgisApp, DownloadProjectDirectory,
       WorkflowStep("apply_deltas", {}, {"delta_feedback"}, {"delta_feedback"}, {"other"}),
       StopQgisApp, UploadProjectDirectory >>

CreationWorkflow ==
    << StartQgisApp, WorkflowStep("get_project_seed", {}, {"project_seed"}, {}, {"api"}),
       WorkflowStep("get_project_seed_xlsform", {<<"get_project_seed", "project_seed">>},
                    {"xlsform_filename"}, {}, {"api"}),
       WorkflowStep("prepare_project_files",
                    {<<"get_project_seed", "project_seed">>,
                     <<"get_project_seed_xlsform", "xlsform_filename">>},
                    {"project_filename"}, {}, {"api", "file", "unable"}),
       WorkflowStep("configure_qgis_project",
                    {<<"get_project_seed", "project_seed">>,
                     <<"prepare_project_files", "project_filename">>},
                    {"qgis_project_file"}, {}, (OpenRaises \ {"file"}) \cup SaveRaises),
       LayersDataStep("qgis_layers_data", {<<"configure_qgis_project", "qgis_project_file">>}),
       UploadProjectDirectory, StopQgisApp >>

WorkflowOf(type) ==
    CASE type = "package" -> PackageWorkflow
      [] type = "process_projectfile" -> ProcessWorkflow
      [] type = "delta_apply" -> DeltaWorkflow
      [] type = "create_project" -> CreationWorkflow

WorkflowSteps == WorkflowOf(jobKind.type)

(* Workflow.validate *)
IsValid(steps) ==
    /\ steps # <<>>
    /\ \A i, j \in DOMAIN steps : steps[i].id = steps[j].id => i = j
    /\ \A i \in DOMAIN steps : \A arg \in steps[i].takes :
          \E j \in 1..(i - 1) : steps[j].id = arg[1] /\ arg[2] \in steps[j].returns

(* The error_type of a feedback *)
ErrorType(kind) ==
    CASE kind = "api" -> "API"   \* one for each of several HTTP statuses
      [] kind = "file" -> "FILE_NOT_FOUND"
      [] kind = "xml" -> "INVALID_PROJECT_FILE"
      [] kind = "unable" -> "UNABLE_TO_CONTINUE"
      [] OTHER -> "UNKNOWN"

(* Step.stage: 2 when the step is completed, 1 when it raised, 0 else *)
Stage(feedback, i) ==
    CASE i <= feedback.done -> 2
      [] i = feedback.done + 1 /\ feedback.raised # "none" -> 1
      [] OTHER -> 0

(* The outputs of a feedback are those of the completed steps. *)
Outputs(feedback) ==
    UNION {{<<WorkflowSteps[i].id, name>> : name \in WorkflowSteps[i].outputs} :
              i \in {i \in DOMAIN WorkflowSteps : Stage(feedback, i) = 2}}

-----------------------------------------------------------------------------
TaskIds == 1..MaxTasks
Failures == {"none", "api", "file", "xml", "unable", "other"}
NoTask == [state |-> "unborn", done |-> 0, raised |-> "none", exit |-> "null", stopping |-> FALSE]
NoFeedback == [state |-> "absent", done |-> 0, raised |-> "none"]
TornFeedback == [NoFeedback EXCEPT !.state = "torn"]

(* What the worker saves: where an error comes from, its type, and the     *)
(* feedback of the workflow                                                *)
Told(origin, error, feedback) == [origin |-> origin, error |-> error, feedback |-> feedback]
NothingTold == Told("none", "none", NoFeedback)

JobRunsTypeOK ==
    /\ jobKind \in JobKinds
    /\ qgisTasks \in [TaskIds -> [state: {"unborn", "running", "writing", "written", "stopped"},
                                  done: 0..Len(WorkflowSteps), raised: Failures,
                                  exit: {"null", "ok", "error", "sigkill"}, stopping: BOOLEAN]]
    /\ feedbackFile.state \in {"absent", "torn", "whole"}
    /\ jobRun.at \in {"construct", "start", "prepare", "launch", "record", "wait", "read", "hook",
                      "fail", "over", "dead"}
    /\ jobRun.task \in 0..MaxTasks /\ jobRow.container \in 0..MaxTasks
    /\ jobRun.attempts \in 0..MaxAttempts
    /\ jobRow.status \in {"queued", "started", "failed", "finished", "deleted"}

JobRunsInit ==
    /\ jobKind \in JobKinds
    /\ qgisTasks = [k \in TaskIds |-> NoTask]
    /\ feedbackFile = NoFeedback
    /\ jobRun = [at |-> "construct", tempdir |-> FALSE, attempts |-> 0, task |-> 0,
                 exit |-> "null", unstopped |-> FALSE]
    /\ jobRow = [status |-> "queued", container |-> 0, told |-> NothingTold]

-----------------------------------------------------------------------------
(* run_workflow, in a task                                                 *)

Unborn == {k \in TaskIds : qgisTasks[k].state = "unborn"}
NextTask == CHOOSE k \in Unborn : \A l \in Unborn : k <= l

(* A command whose workflow is not valid exits before any feedback. *)
Launched == [qgisTasks EXCEPT ![NextTask] =
                IF IsValid(WorkflowSteps) THEN [@ EXCEPT !.state = "running"]
                                          ELSE [@ EXCEPT !.state = "stopped", !.exit = "error"]]

InWorkflow(k) == qgisTasks[k].state = "running" /\ qgisTasks[k].raised = "none"

CompleteStep(k) ==
    /\ InWorkflow(k)
    /\ qgisTasks[k].done < Len(WorkflowSteps)
    /\ qgisTasks' = [qgisTasks EXCEPT ![k].done = @ + 1]
    /\ UNCHANGED <<jobKind, feedbackFile, jobRun, jobRow>>

RaiseInStep(k) ==
    /\ InWorkflow(k)
    /\ qgisTasks[k].done < Len(WorkflowSteps)
    /\ \E kind \in WorkflowSteps[qgisTasks[k].done + 1].raises :
          qgisTasks' = [qgisTasks EXCEPT ![k].raised = kind]
    /\ UNCHANGED <<jobKind, feedbackFile, jobRun, jobRow>>

(* The file is opened for writing; without its directory that raises.      *)
OpenFeedback(k) ==
    /\ qgisTasks[k].state = "running"
    /\ qgisTasks[k].raised # "none" \/ qgisTasks[k].done = Len(WorkflowSteps)
    /\ IF jobRun.tempdir
       THEN /\ qgisTasks' = [qgisTasks EXCEPT ![k].state = "writing"]
            /\ feedbackFile' = TornFeedback
       ELSE /\ qgisTasks' = [qgisTasks EXCEPT ![k].state = "stopped", ![k].exit = "error"]
            /\ UNCHANGED feedbackFile
    /\ UNCHANGED <<jobKind, jobRun, jobRow>>

(* Two that write at a time may leave a mixture. *)
WriteFeedback(k) ==
    /\ qgisTasks[k].state = "writing"
    /\ qgisTasks' = [qgisTasks EXCEPT ![k].state = "written"]
    /\ \/ feedbackFile' = [state |-> "whole", done |-> qgisTasks[k].done,
                           raised |-> qgisTasks[k].raised]
       \/ /\ \/ feedbackFile.state = "whole"
             \/ \E l \in TaskIds \ {k} : qgisTasks[l].state = "writing"
          /\ feedbackFile' = TornFeedback
    /\ UNCHANGED <<jobKind, jobRun, jobRow>>

(* An error of a step makes no exit code, a crash of QGIS at exit does.    *)
ExitTask(k) ==
    /\ qgisTasks[k].state = "written"
    /\ \E exit \in {"ok", "error"} :
          qgisTasks' = [qgisTasks EXCEPT ![k].state = "stopped", ![k].exit = exit]
    /\ UNCHANGED <<jobKind, feedbackFile, jobRun, jobRow>>

Alive(k) == qgisTasks[k].state \in {"running", "writing", "written"}

(* How far a task had come that was killed before its feedback was written *)
(* nobody will know.                                                       *)
Killed(task, exit) ==
    [(IF task.state = "written" THEN task ELSE NoTask) EXCEPT !.state = "stopped", !.exit = exit]

(* Memory runs out, or a task that was asked to stop does not in time; ECS *)
(* may have no exit code to tell.                                          *)
KillTask(k) ==
    /\ Alive(k)
    /\ \E exit \in {"sigkill"} \cup (IF jobKind.executor = "ecs" THEN {"null"} ELSE {}) :
          qgisTasks' = [qgisTasks EXCEPT ![k] = Killed(@, exit)]
    /\ UNCHANGED <<jobKind, feedbackFile, jobRun, jobRow>>

-----------------------------------------------------------------------------
(* JobRun, in a worker.  Saving a row that was deleted raises, and what    *)
(* handles that saves it again: the worker dies.                           *)

GoesTo(at) == jobRun' = [jobRun EXCEPT !.at = at]
RowExists == jobRow.status # "deleted"

(* Without a directory the job is saved as failed, and is run all the same. *)
ConstructJobRun ==
    /\ jobRun.at = "construct"
    /\ IF RowExists
       THEN \/ jobRun' = [jobRun EXCEPT !.at = "start", !.tempdir = TRUE] /\ UNCHANGED jobRow
            \/ /\ GoesTo("start")
               /\ jobRow' = [jobRow EXCEPT !.status = "failed",
                                           !.told = Told("worker_wrapper", "none", NoFeedback)]
       ELSE GoesTo("dead") /\ UNCHANGED jobRow
    /\ UNCHANGED <<jobKind, qgisTasks, feedbackFile>>

StartRun ==
    /\ jobRun.at = "start"
    /\ IF RowExists
       THEN GoesTo("prepare") /\ jobRow' = [jobRow EXCEPT !.status = "started"]
       ELSE GoesTo("dead") /\ UNCHANGED jobRow
    /\ UNCHANGED <<jobKind, qgisTasks, feedbackFile>>

(* before_docker_run, get_command, get_volumes, get_environment, the image *)
(* or task definition.  Any may raise: the project has no QGIS file, its   *)
(* QGIS version has no image.                                              *)
PrepareRun ==
    /\ jobRun.at = "prepare"
    /\ \/ RowExists /\ jobRun.tempdir /\ GoesTo("launch")
       \/ GoesTo("fail")
    /\ UNCHANGED <<jobKind, qgisTasks, feedbackFile, jobRow>>

(* containers.run; one that raises may have started the container. *)
RunContainer ==
    /\ jobRun.at = "launch" /\ jobKind.executor = "docker"
    /\ \/ /\ qgisTasks' = Launched
          /\ jobRun' = [jobRun EXCEPT !.at = "record", !.task = NextTask]
       \/ GoesTo("fail") /\ (qgisTasks' = Launched \/ UNCHANGED qgisTasks)
    /\ UNCHANGED <<jobKind, feedbackFile, jobRow>>

(* run_task, and again when it fails for a while or its answer is lost:    *)
(* then a task was started nevertheless.                                   *)
RunTask ==
    /\ jobRun.at = "launch" /\ jobKind.executor = "ecs"
    /\ \/ /\ Unborn # {} /\ qgisTasks' = Launched
          /\ jobRun' = [jobRun EXCEPT !.at = "record", !.task = NextTask]
       \/ /\ \/ UNCHANGED qgisTasks
             \/ Unborn # {} /\ qgisTasks' = Launched
          /\ jobRun' = [jobRun EXCEPT !.attempts = @ + 1,
                                      !.at = IF jobRun.attempts + 1 = MaxAttempts THEN "fail" ELSE @]
       \/ GoesTo("fail") /\ UNCHANGED qgisTasks
    /\ UNCHANGED <<jobKind, feedbackFile, jobRow>>

RecordTask ==
    /\ jobRun.at = "record"
    /\ IF RowExists
       THEN GoesTo("wait") /\ jobRow' = [jobRow EXCEPT !.container = jobRun.task]
       ELSE GoesTo("dead") /\ UNCHANGED jobRow
    /\ UNCHANGED <<jobKind, qgisTasks, feedbackFile>>

(* container.wait or describe_tasks.  A container that was not killed is   *)
(* removed then, which may fail; a task without exit code raises.          *)
SeeTaskStopped ==
    LET exit == qgisTasks[jobRun.task].exit IN
    /\ jobRun.at = "wait"
    /\ qgisTasks[jobRun.task].state = "stopped"
    /\ \/ ~RowExists /\ ~(jobKind.executor = "docker" /\ exit = "sigkill") /\ GoesTo("dead")
       \/ /\ RowExists \/ (jobKind.executor = "docker" /\ exit = "sigkill")
          /\ exit # "null" /\ jobRun' = [jobRun EXCEPT !.at = "read", !.exit = exit]
       \/ RowExists /\ (exit = "null" \/ (jobKind.executor = "docker" /\ exit # "sigkill"))
          /\ GoesTo("fail")
    /\ UNCHANGED <<jobKind, qgisTasks, feedbackFile, jobRow>>

(* Mutant: the task goes on, as its container did before it was stopped.   *)
StopLater == UNCHANGED qgisTasks

(* container.stop waits for the end of it, stop_task does not. *)
StopTask ==
    qgisTasks' = [qgisTasks EXCEPT ![jobRun.task] =
                     IF jobKind.executor = "ecs" THEN [@ EXCEPT !.stopping = TRUE]
                     ELSE Killed(@, "sigkill")]

(* Too long: the task is stopped, or the call for that raises. *)
TimeOut ==
    /\ jobRun.at = "wait" /\ Alive(jobRun.task)
    /\ \/ RowExists /\ StopTask /\ jobRun' = [jobRun EXCEPT !.at = "read", !.exit = "timeout"]
       \/ /\ RowExists /\ UNCHANGED qgisTasks
          /\ jobRun' = [jobRun EXCEPT !.at = "fail", !.unstopped = TRUE]
       \/ ~RowExists /\ GoesTo("dead") /\ UNCHANGED qgisTasks
    /\ UNCHANGED <<jobKind, feedbackFile, jobRow>>

(* The call that waits raises, a ReadTimeout of Docker or any error of     *)
(* describe_tasks, which nothing tries again.                              *)
WaitFails ==
    /\ jobRun.at = "wait" /\ Alive(jobRun.task)
    /\ jobRun' = [jobRun EXCEPT !.at = "fail", !.unstopped = TRUE]
    /\ UNCHANGED <<jobKind, qgisTasks, feedbackFile, jobRow>>

(* The feedback by the exit code *)
FeedbackRead ==
    IF jobRun.exit = "sigkill" THEN Told("container", "DOCKER_ENGINE_SIGKILL", NoFeedback)
    ELSE IF jobRun.exit = "timeout" THEN Told("container", "TIMEOUT", NoFeedback)
    ELSE IF feedbackFile.state # "whole" THEN Told("worker_wrapper", "none", NoFeedback)
    ELSE IF feedbackFile.raised # "none"
    THEN Told("container", ErrorType(feedbackFile.raised), feedbackFile)
    ELSE Told("none", "none", feedbackFile)

(* Mutant: the exit code alone decides. *)
HasFailedByExit(told) == jobRun.exit # "ok"

HasFailed(told) == jobRun.exit # "ok" \/ told.origin # "none"

ReadFeedback ==
    /\ jobRun.at = "read"
    /\ IF RowExists
       THEN LET failed == HasFailed(FeedbackRead) IN
            /\ jobRow' = [jobRow EXCEPT !.told = FeedbackRead,
                                        !.status = IF failed THEN "failed" ELSE @]
            /\ GoesTo(IF failed THEN "over" ELSE "hook")
       ELSE GoesTo(IF jobRun.exit = "sigkill" THEN "over" ELSE "dead") /\ UNCHANGED jobRow
    /\ UNCHANGED <<jobKind, qgisTasks, feedbackFile>>

(* What after_docker_run reads of the outputs *)
HookReads ==
    CASE jobKind.type = "process_projectfile" -> {<<"project_details", "project_details">>}
      [] jobKind.type = "delta_apply" -> {<<"apply_deltas", "delta_feedback">>}
      [] OTHER -> {}

(* after_docker_run, which may raise in the database as well; the shared   *)
(* directory goes with the success only.                                   *)
FinishRun ==
    /\ jobRun.at = "hook"
    /\ \/ /\ RowExists /\ HookReads \subseteq Outputs(jobRow.told.feedback)
          /\ jobRow' = [jobRow EXCEPT !.status = "finished"]
          /\ jobRun' = [jobRun EXCEPT !.at = "over", !.tempdir = FALSE]
          /\ feedbackFile' = NoFeedback
       \/ GoesTo("fail") /\ UNCHANGED <<jobRow, feedbackFile>>
    /\ UNCHANGED <<jobKind, qgisTasks>>

FailRun ==
    /\ jobRun.at = "fail"
    /\ IF RowExists
       THEN /\ jobRow' = [jobRow EXCEPT !.status = "failed",
                                        !.told = Told("worker_wrapper", "none", @.feedback)]
            /\ GoesTo("over")
       ELSE GoesTo("dead") /\ UNCHANGED jobRow
    /\ UNCHANGED <<jobKind, qgisTasks, feedbackFile>>

-----------------------------------------------------------------------------
(* The project is deleted during the run, and its jobs with it. *)
DeleteJob ==
    /\ RowExists /\ jobRun.at \notin {"over", "dead"}
    /\ jobRow' = [status |-> "deleted", container |-> 0, told |-> NothingTold]
    /\ UNCHANGED <<jobKind, qgisTasks, feedbackFile, jobRun>>

IsOrphan(k) == Alive(k) /\ ~(RowExists /\ jobRow.container = k)

(* The clean-up of any worker *)
CancelOrphan(k) ==
    /\ IsOrphan(k)
    /\ qgisTasks' = [qgisTasks EXCEPT ![k] =
                        IF jobKind.executor = "ecs" THEN [@ EXCEPT !.stopping = TRUE]
                        ELSE Killed(@, "sigkill")]
    /\ UNCHANGED <<jobKind, feedbackFile, jobRun, jobRow>>

JobRunsNext ==
    \/ \E k \in TaskIds :
          \/ CompleteStep(k) \/ RaiseInStep(k) \/ OpenFeedback(k) \/ WriteFeedback(k)
          \/ ExitTask(k) \/ KillTask(k) \/ CancelOrphan(k)
    \/ ConstructJobRun \/ StartRun \/ PrepareRun \/ RunContainer \/ RunTask \/ RecordTask
    \/ SeeTaskStopped \/ TimeOut \/ WaitFails \/ ReadFeedback \/ FinishRun \/ FailRun
    \/ DeleteJob

JobRunsSpec == JobRunsInit /\ [][JobRunsNext]_jobRunVars

-----------------------------------------------------------------------------
(* What the API reads of the feedback of a finished job, the hooks apart *)
ApiReads == IF jobKind.type = "package" THEN {<<"qgis_layers_data", "layers_by_id">>} ELSE {}

Completed(k) == qgisTasks[k].done = Len(WorkflowSteps)

(* A job is finished only when some task of it went through every step of  *)
(* its workflow and the one that is on record ended well, and then all the *)
(* outputs are there that the worker and the API look for by name.  When a *)
(* step is blamed, a task raised that error behind the steps that are said *)
(* to be completed.  And a job without a second task, whose own completed  *)
(* and ended well, fails by an error of the worker only, which it names:   *)
(* whatever was launched twice, written half or killed in between.         *)
ResultTold ==
    LET told == jobRow.told
        blamed == told.origin = "container" /\ told.feedback.state = "whole"
        own == qgisTasks[jobRow.container]
        single == jobRow.container = 1 /\ Unborn = 2..MaxTasks
    IN
    /\ JobRunsTypeOK
    /\ jobRun.at = "over" /\ jobRow.status = "finished" =>
          /\ \E k \in TaskIds : Completed(k)
          /\ jobRow.container # 0 /\ own.exit = "ok"
          /\ \A i \in DOMAIN WorkflowSteps : Stage(told.feedback, i) = 2
          /\ HookReads \cup ApiReads \subseteq Outputs(told.feedback)
    /\ jobRun.at = "over" /\ jobRow.status = "failed" =>
          /\ blamed => \E k \in TaskIds :
                /\ qgisTasks[k].raised # "none" /\ told.error = ErrorType(qgisTasks[k].raised)
                /\ {i \in DOMAIN WorkflowSteps : Stage(told.feedback, i) = 2} = 1..qgisTasks[k].done
          /\ single /\ Completed(1) /\ own.exit = "ok" =>
                told.origin = "worker_wrapper" \/ told.error = "TIMEOUT"

(* Behind a run nothing goes on in its name that nobody will stop: a task  *)
(* that is alive was told to stop, or is an orphan to the clean-up since   *)
(* its id was not saved or its row is deleted.  The exception is known: a  *)
(* wait or a stop that raised leaves a task that counts as the job's.      *)
NoTaskLeft ==
    jobRun.at \in {"over", "dead"} /\ ~jobRun.unstopped =>
        \A k \in TaskIds : Alive(k) => qgisTasks[k].stopping \/ IsOrphan(k)
=============================================================================
