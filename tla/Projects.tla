------------------------------- MODULE Projects -------------------------------
(***************************************************************************)
(* The rows of projects and what the server tells of them: which one has   *)
(* the shared datasets of an owner, the problems and the status of a       *)
(* project, and whether its owner's plan lets it have jobs.                *)
(*                                                                         *)
(* Two kinds of saves change a row.  An upload, a deletion and a job write *)
(* the columns they name; a PATCH, like a form of the admin site, reads    *)
(* the row, looks at it, and writes all of it back.                        *)
(*                                                                         *)
(* Abstractions:                                                           *)
(*  - A QGIS project file is a set of layers; its details are what the     *)
(*    worker said of them.  FileVersions has the versions of a file and    *)
(*    the two transactions of its deletion, Packaging the course of a job. *)
(*  - Everybody may do what he asks for (Access), all of a project's files *)
(*    are uploaded by one user, and no plan ends.                          *)
(***************************************************************************)
EXTENDS Naturals, FiniteSets

CONSTANTS
    ProjectIds, ProjectOwners,
    ExternalDb,       \* owners whose plan has is_external_db_supported
    ProjectFiles,     \* the QGIS project files, each a set of layers
    Patchers,         \* requests that may overlap
    MaxProjectChanges \* bound: requests

\* Layers by what QGIS finds in the container: a file, a table on the network, a
\* file among the shared datasets, which is in no container, a file that is not
\* there, and a layer whose provider is not installed.
LayerKinds ==
    [file      |-> [valid |-> TRUE,  provider |-> "valid",   localized |-> FALSE, named |-> TRUE],
     online    |-> [valid |-> TRUE,  provider |-> "valid",   localized |-> FALSE, named |-> FALSE],
     shared    |-> [valid |-> FALSE, provider |-> "invalid", localized |-> TRUE,  named |-> TRUE],
     absent    |-> [valid |-> FALSE, provider |-> "invalid", localized |-> FALSE, named |-> TRUE],
     foreign   |-> [valid |-> FALSE, provider |-> "none",    localized |-> FALSE, named |-> TRUE]]

Layers == DOMAIN LayerKinds

ASSUME ProjectsAssumption ==
    /\ IsFiniteSet(ProjectIds) /\ ExternalDb \subseteq ProjectOwners
    /\ ProjectFiles \subseteq SUBSET Layers /\ MaxProjectChanges \in Nat

VARIABLES
    projects,     \* Project rows
    qgisFiles,    \* the QGIS project files in the storage
    datasets,     \* the projects that store the file of the layer "shared"
    creating,     \* projects with an active CREATE_PROJECT job
    projectJobs,  \* the process job of each
    patch,        \* requests that overlap others
    projectChanges,
    \* history of the run
    overtaken,    \* projects whose row was written back after it had changed
    crossed,      \* projects that got a QGIS file after a rename that the upload had not seen
    outrun,       \* projects whose file changed after the job had read it, or whose job died
    fromVariant   \* projects renamed from another spelling of the name

projectRowVars ==
    <<projects, qgisFiles, datasets, creating, projectJobs, patch, projectChanges,
      overtaken, crossed, outrun, fromVariant>>

SHARED_DATASETS == "shared_datasets"
\* The name, the name in other letters, another name.
ProjectNames == {SHARED_DATASETS, "Shared_Datasets", "survey"}
Lower(name) == IF name = "Shared_Datasets" THEN SHARED_DATASETS ELSE name

NoProject == [name |-> "none"]
NoQgisFile == {"none"}
NoDetails == {"none"}
NoPatch == [kind |-> "none"]

ProjectRow ==
    [name: ProjectNames, owner: ProjectOwners, shared: BOOLEAN, file: BOOLEAN,
     details: ProjectFiles \cup {NoDetails}]

ProjectsTypeOK ==
    /\ projects \in [ProjectIds -> ProjectRow \cup {NoProject}]
    /\ qgisFiles \in [ProjectIds -> ProjectFiles \cup {NoQgisFile}]
    /\ UNION {datasets, creating, overtaken, crossed, outrun, fromVariant} \subseteq ProjectIds
    /\ projectJobs \in [ProjectIds -> [step: {"none", "pending", "started"},
                                       read: ProjectFiles \cup {NoQgisFile}, had: BOOLEAN]]
    /\ DOMAIN patch = Patchers /\ projectChanges \in 0..MaxProjectChanges

Exists(p) == projects[p] # NoProject
NoProjectJob == [step |-> "none", read |-> NoQgisFile, had |-> FALSE]
PendingJob == [step |-> "pending", read |-> NoQgisFile, had |-> FALSE]

\* Project.save() sets the type by the name.
Saved(row) == [row EXCEPT !.shared = (row.name = SHARED_DATASETS)]

NewProject(name, owner) ==
    Saved([name |-> name, owner |-> owner, shared |-> FALSE, file |-> FALSE, details |-> NoDetails])

ProjectsInit ==
    /\ projects \in [ProjectIds -> {NewProject("survey", owner) : owner \in ProjectOwners} \cup {NoProject}]
    /\ \A p, q \in ProjectIds : Exists(p) /\ Exists(q) /\ p # q => projects[p].owner # projects[q].owner
    /\ qgisFiles = [p \in ProjectIds |-> NoQgisFile]
    /\ projectJobs = [p \in ProjectIds |-> NoProjectJob]
    /\ patch = [t \in Patchers |-> NoPatch]
    /\ datasets = {} /\ creating = {}
    /\ overtaken = {} /\ crossed = {} /\ outrun = {} /\ fromVariant = {}
    /\ projectChanges = 0

-----------------------------------------------------------------------------
historyUnchanged == UNCHANGED <<overtaken, crossed, outrun, fromVariant>>

CountProjectChange ==
    /\ projectChanges < MaxProjectChanges
    /\ projectChanges' = projectChanges + 1

\* The UniqueConstraint of owner and name.
Taken(p, owner, name) ==
    \E q \in ProjectIds \ {p} : Exists(q) /\ projects[q].owner = owner /\ projects[q].name = name

\* As if a project with a QGIS project file could be renamed.
RenamesAnyway(row, name) == TRUE

\* A project with a QGIS project file may not be given the name, unless it has
\* it in other letters.
Renames(row, name) ==
    Lower(name) = SHARED_DATASETS => Lower(row.name) = SHARED_DATASETS \/ ~row.file

\* ProjectSerializer.validate asks for the name under the owner of before.
Validates(p, row, name) == ~Taken(p, row.owner, name) /\ Renames(row, name)

\* perform_create, with a seed or without.
CreateProject(p, name, owner, seeded) ==
    /\ ~Exists(p) /\ \A t \in Patchers : patch[t] # NoPatch => patch[t].project # p
    /\ CountProjectChange
    /\ ~Taken(p, owner, name)
    /\ projects' = [projects EXCEPT ![p] = NewProject(name, owner)]
    /\ creating' = IF seeded THEN creating \cup {p} ELSE creating
    /\ UNCHANGED <<qgisFiles, datasets, projectJobs, patch>>
    /\ overtaken' = overtaken \ {p} /\ crossed' = crossed \ {p}
    /\ outrun' = outrun \ {p} /\ fromVariant' = fromVariant \ {p}

\* A PATCH reads the row: get_object(), validate().
BeginPatch(t, p, name, owner) ==
    /\ patch[t] = NoPatch /\ Exists(p)
    /\ CountProjectChange
    /\ Validates(p, projects[p], name)
    /\ patch' = [patch EXCEPT ![t] =
            [kind |-> "patch", project |-> p, row |-> projects[p], name |-> name, owner |-> owner]]
    /\ UNCHANGED <<projects, qgisFiles, datasets, creating, projectJobs>> /\ historyUnchanged

EndPatch(t) == patch' = [patch EXCEPT ![t] = NoPatch]

\* perform_update writes every column, and inserts the row if it is gone by now.
SavePatch(t) ==
    LET p   == patch[t].project
        row == [patch[t].row EXCEPT !.name = patch[t].name, !.owner = patch[t].owner] IN
    /\ patch[t].kind = "patch"
    /\ ~Taken(p, row.owner, row.name)
    /\ projects' = [projects EXCEPT ![p] = Saved(row)]
    /\ overtaken' = IF projects[p] # patch[t].row THEN overtaken \cup {p} ELSE overtaken
    /\ fromVariant' = IF row.file /\ patch[t].row.name = "Shared_Datasets"
                      THEN fromVariant \cup {p} ELSE fromVariant
    /\ EndPatch(t)
    /\ UNCHANGED <<qgisFiles, datasets, creating, projectJobs, projectChanges, crossed, outrun>>

\* The constraint, or the quota of the new owner (Subscriptions): a rollback.
PatchFails(t) ==
    /\ patch[t].kind # "none"
    /\ EndPatch(t)
    /\ UNCHANGED <<projects, qgisFiles, datasets, creating, projectJobs, projectChanges>> /\ historyUnchanged

\* The rows that go with a project: its files and jobs.
DeleteProject(p) ==
    /\ Exists(p)
    /\ CountProjectChange
    /\ projects' = [projects EXCEPT ![p] = NoProject]
    /\ qgisFiles' = [qgisFiles EXCEPT ![p] = NoQgisFile]
    /\ datasets' = datasets \ {p} /\ creating' = creating \ {p}
    /\ projectJobs' = [projectJobs EXCEPT ![p] = NoProjectJob]
    /\ UNCHANGED patch /\ historyUnchanged

\* upload_project_file_version looks at the row before its transaction.
BeginUpload(t, p, file) ==
    /\ patch[t] = NoPatch /\ Exists(p)
    /\ CountProjectChange
    /\ ~projects[p].shared
    /\ patch' = [patch EXCEPT ![t] = [kind |-> "upload", project |-> p, row |-> projects[p], file |-> file]]
    /\ UNCHANGED <<projects, qgisFiles, datasets, creating, projectJobs>> /\ historyUnchanged

\* A process job, unless the user has one.
Processes(p) ==
    projectJobs' = IF projectJobs[p].step = "none"
                   THEN [projectJobs EXCEPT ![p] = PendingJob] ELSE projectJobs

\* What the transaction stores of the QGIS file, by a row that it locks.
StoreQgisFile(p, file, read) ==
    /\ Exists(p)
    /\ qgisFiles' = [qgisFiles EXCEPT ![p] = file]
    /\ projects' = [projects EXCEPT ![p].file = TRUE]
    /\ Processes(p)
    /\ overtaken' = overtaken \ {p}
    /\ crossed' = IF read.shared # projects[p].shared THEN crossed \cup {p} ELSE crossed
    /\ outrun' = IF projectJobs[p].step = "started" THEN outrun \cup {p} ELSE outrun
    /\ UNCHANGED <<datasets, fromVariant>>

CommitUpload(t) ==
    /\ patch[t].kind = "upload"
    /\ StoreQgisFile(patch[t].project, patch[t].file, patch[t].row)
    /\ EndPatch(t)
    /\ UNCHANGED <<creating, projectChanges>>

DeleteQgisFile(p) ==
    /\ Exists(p) /\ qgisFiles[p] # NoQgisFile
    /\ CountProjectChange
    /\ qgisFiles' = [qgisFiles EXCEPT ![p] = NoQgisFile]
    /\ projects' = [projects EXCEPT ![p].file = FALSE]
    /\ UNCHANGED <<datasets, creating, projectJobs, patch>> /\ historyUnchanged

UploadDataset(p) ==
    /\ Exists(p) /\ p \notin datasets
    /\ CountProjectChange
    /\ datasets' = datasets \cup {p}
    /\ IF projects[p].file THEN Processes(p) ELSE UNCHANGED projectJobs
    /\ UNCHANGED <<projects, qgisFiles, creating, patch>> /\ historyUnchanged

DeleteDataset(p) ==
    /\ p \in datasets
    /\ CountProjectChange
    /\ datasets' = datasets \ {p}
    /\ UNCHANGED <<projects, qgisFiles, creating, projectJobs, patch>> /\ historyUnchanged

-----------------------------------------------------------------------------
(* Jobs.                                                                   *)

jobsUnchanged == UNCHANGED <<datasets, patch, projectChanges>>

\* The container of a seeded project uploads the QGIS file it made, unless the
\* upload is refused; then, or when it fails, there is none.
CreateRuns(p, file) ==
    /\ p \in creating
    /\ creating' = creating \ {p}
    /\ \/ ~projects[p].shared /\ StoreQgisFile(p, file, projects[p])
       \/ UNCHANGED <<projects, qgisFiles, datasets, projectJobs>> /\ historyUnchanged
    /\ UNCHANGED <<patch, projectChanges>>

\* get_context() asserts that there is a file and reads the row; the container
\* downloads the file.
StartProcess(p) ==
    /\ projectJobs[p].step = "pending"
    /\ projectJobs' =
          [projectJobs EXCEPT ![p] =
              [step |-> "started", had |-> projects[p].details # NoDetails,
               read |-> IF projects[p].file THEN qgisFiles[p] ELSE NoQgisFile]]
    /\ outrun' = outrun \ {p}
    /\ UNCHANGED <<projects, qgisFiles, creating, overtaken, crossed, fromVariant>> /\ jobsUnchanged

EndsJob(p) == projectJobs' = [projectJobs EXCEPT ![p] = NoProjectJob]

\* after_docker_run, of a row that is read again.
FinishProcess(p) ==
    /\ projectJobs[p].step = "started" /\ projectJobs[p].read # NoQgisFile
    /\ projects' = [projects EXCEPT ![p].details = projectJobs[p].read]
    /\ EndsJob(p)
    /\ UNCHANGED <<qgisFiles, creating>> /\ historyUnchanged /\ jobsUnchanged

\* after_docker_exception, of the row that the job has read.
FailProcess(p) ==
    /\ projectJobs[p].step = "started"
    /\ projects' = IF projectJobs[p].had THEN [projects EXCEPT ![p].details = NoDetails] ELSE projects
    /\ EndsJob(p)
    /\ UNCHANGED <<qgisFiles, creating>> /\ historyUnchanged /\ jobsUnchanged

\* Its worker dies, and cron gives it up.
ProcessDies(p) ==
    /\ projectJobs[p].step = "started"
    /\ EndsJob(p)
    /\ outrun' = outrun \cup {p}
    /\ UNCHANGED <<projects, qgisFiles, creating, overtaken, crossed, fromVariant>> /\ jobsUnchanged

ProjectsNext ==
    \/ \E p \in ProjectIds :
          \/ \E name \in ProjectNames, owner \in ProjectOwners :
                \/ \E seeded \in BOOLEAN : CreateProject(p, name, owner, seeded)
                \/ \E t \in Patchers : BeginPatch(t, p, name, owner)
          \/ \E file \in ProjectFiles : CreateRuns(p, file) \/ \E t \in Patchers : BeginUpload(t, p, file)
          \/ DeleteProject(p) \/ DeleteQgisFile(p) \/ UploadDataset(p) \/ DeleteDataset(p)
          \/ StartProcess(p) \/ FinishProcess(p) \/ FailProcess(p) \/ ProcessDies(p)
    \/ \E t \in Patchers : SavePatch(t) \/ PatchFails(t) \/ CommitUpload(t)

-----------------------------------------------------------------------------
(* What the server tells of a project.                                     *)

\* get_layers_data: how the worker sees a layer.
ErrorCode(layer) ==
    IF layer.valid THEN "no_error"
    ELSE CASE layer.provider = "none"    -> "missing_dataprovider"
           [] layer.provider = "valid"   -> "invalid_layer"
           [] layer.provider = "invalid" ->
                 IF layer.localized THEN "localized_dataprovider" ELSE "invalid_dataprovider"

LayersData(details) ==
    {[layer |-> kind, error_code |-> ErrorCode(LayerKinds[kind]),
      is_localized |-> LayerKinds[kind].localized, filename |-> LayerKinds[kind].named] :
        kind \in details \cap Layers}

\* Vector layers but memory and virtual ones, which are not among the kinds.
HasOnlineVectorData(row) == \E data \in LayersData(row.details) : ~data.filename

\* As if it were looked up by its type alone.
SharedDatasetsProjectOfAnybody(owner) == {q \in ProjectIds : Exists(q) /\ projects[q].shared}

SharedDatasetsProject(owner) ==
    {q \in ProjectIds : Exists(q) /\ projects[q].shared /\ projects[q].owner = owner}

LocalizedLayers(row) == {data \in LayersData(row.details) : data.is_localized}

MissingLocalizedLayers(row) ==
    IF SharedDatasetsProject(row.owner) \cap datasets # {} THEN {} ELSE LocalizedLayers(row)

Problem(level, code, layer) == [level |-> level, code |-> code, layer |-> layer]

\* The warning of a layer without primary key reads a key, layer_type_name, that
\* the worker does not write, and is never there.
LayerProblems(row) ==
    {Problem("warning", "missing_localized_project", "none") :
        data \in IF SharedDatasetsProject(row.owner) = {} THEN LocalizedLayers(row) ELSE {}}
    \cup {Problem("warning", "missing_localized_file", data.layer) : data \in MissingLocalizedLayers(row)}
    \cup {Problem("warning", "layer_problem", data.layer) :
            data \in {d \in LayersData(row.details) : d.error_code \notin {"no_error", "localized_dataprovider"}}}

Problems(p) ==
    LET row == projects[p] IN
    IF p \in creating THEN {Problem("info", "project_being_created", "none")}
    ELSE IF row.shared
    THEN IF row.file THEN {Problem("error", "qgis_project_file_not_allowed", "none")} ELSE {}
    ELSE IF ~row.file THEN {Problem("error", "missing_projectfile", "none")}
    ELSE IF row.details = NoDetails THEN {Problem("error", "missing_project_details", "none")}
    ELSE LayerProblems(row)

\* Without the cap of collaborators, which is in Access.
Status(p) ==
    LET row == projects[p] IN
    IF p \in creating \/ projectJobs[p].step # "none" THEN "busy"
    ELSE IF ~row.shared /\ (~row.file \/ row.details = NoDetails) THEN "failed"
    ELSE "ok"

\* check_supported_regarding_owner_account, of a subscription that is active.
OwnerCanCreateJob(p) == HasOnlineVectorData(projects[p]) => projects[p].owner \in ExternalDb

-----------------------------------------------------------------------------
(* Properties.                                                             *)

\* Rows keep their types.  An owner has one shared datasets project at most, the
\* one that is named so, and it has no QGIS project file, whoever is renamed,
\* transferred, deleted and uploaded to at the same time, unless a row was
\* written back or looked at too early, or the name was there in other letters.
\* A project's row knows whether it has a QGIS project file.
FileFitsType ==
    /\ ProjectsTypeOK
    /\ \A p \in {q \in ProjectIds : Exists(q)} :
          /\ projects[p].shared <=> projects[p].name = SHARED_DATASETS
          /\ projects[p].shared => SharedDatasetsProject(projects[p].owner) = {p}
          /\ p \notin overtaken => (projects[p].file <=> qgisFiles[p] # NoQgisFile)
          /\ projects[p].shared /\ qgisFiles[p] # NoQgisFile => p \in overtaken \cup crossed \cup fromVariant

\* What the server tells of a project at rest is true of its files and those of
\* the other projects of its owner by now, unless its row was written back, its file
\* changed under its job or its job died: it has failed when there is an error,
\* every layer that a device cannot use is among the problems and no other, and it
\* may have jobs when the plan of its owner supports its layers.
ToldAsItIs ==
    \A p \in {q \in ProjectIds : Exists(q) /\ Status(q) # "busy" /\ ~projects[q].shared} \ (overtaken \cup outrun) :
        LET usable == {kind \in Layers : LayerKinds[kind].valid
                           \/ /\ LayerKinds[kind].localized
                              /\ \E q \in datasets : /\ projects[q].name = SHARED_DATASETS
                                                     /\ projects[q].owner = projects[p].owner} IN
        /\ (Status(p) = "failed") <=> \E problem \in Problems(p) : problem.level = "error"
        /\ Status(p) = "ok" =>
              /\ {problem.layer : problem \in Problems(p)} \ {"none"} = qgisFiles[p] \ usable
              /\ OwnerCanCreateJob(p) <=> ("online" \in qgisFiles[p] => projects[p].owner \in ExternalDb)
=============================================================================
