------------------------------- MODULE Creation -------------------------------
(***************************************************************************)
(* The creation of a project from a seed: a copy of another project, an    *)
(* XLSForm or nothing but settings.  The CREATE_PROJECT job downloads what *)
(* the seed names, makes or opens the QGIS project file, sets its title,   *)
(* CRS and extent, and uploads all of the files, while the users of the    *)
(* source and of the new project go on working.                            *)
(*                                                                         *)
(* A file's content is [kind, n]: the n-th content of the source's file,   *)
(* a blank project, what a user of the new project uploaded, or none.      *)
(* JobQueue says how the job is dequeued and its container watched; what   *)
(* an upload triggers is in Packaging.                                     *)
(***************************************************************************)
EXTENDS Naturals, FiniteSets

CONSTANTS
    DataFiles,    \* names of data files and attachments
    QgisNames,    \* names of QGIS project files
    MaxEdits,     \* bound: uploads and deletions by users
    MaxReruns     \* bound: reruns of the job by staff

ASSUME CreationAssumption ==
    /\ IsFiniteSet(DataFiles) /\ IsFiniteSet(QgisNames)
    /\ DataFiles \cap QgisNames = {}
    /\ MaxEdits \in Nat /\ MaxReruns \in Nat

VARIABLES
    source,    \* the files of the project to clone: how often each was uploaded, 0 when deleted
    target,    \* the files of the new project
    seed,      \* ProjectSeed: "clone", "xlsform", "empty", or "gone"
    job,       \* the job's status and the step of its workflow
    local,     \* the files directory of the container
    todo,      \* files still to be downloaded or uploaded
    edits, reruns,
    \* history of the run
    listed,    \* the files that were listed
    seen,      \* contents the source's files had between listing and download
    moved,     \* the source's project file came, went or was renamed meanwhile
    touched    \* files the users of the new project changed

creationVars ==
    <<source, target, seed, job, local, todo, edits, reruns, listed, seen, moved, touched>>

CreationFiles == DataFiles \cup QgisNames
Missing == [kind |-> "none", n |-> 0]
CopyOf(n) == [kind |-> "copy", n |-> n]
Contents == [kind: {"none", "blank", "own", "copy"}, n: 0..MaxEdits + 1]
Present(files) == {f \in CreationFiles : files[f].kind # "none"}

CreationTypeOK ==
    /\ source \in [CreationFiles -> 0..MaxEdits + 1]
    /\ target \in [CreationFiles -> Contents] /\ local \in [CreationFiles -> Contents]
    /\ seed \in {"clone", "xlsform", "empty", "gone"}
    /\ job \in [status: {"pending", "started", "finished", "failed"},
                step: {"seed", "list", "download", "name", "configure", "upload"},
                kind: {"none", "clone", "xlsform", "empty"}, file: QgisNames \cup {"none"}]
    /\ todo \cup listed \subseteq CreationFiles /\ touched \subseteq CreationFiles
    /\ seen \in [CreationFiles -> SUBSET (0..MaxEdits + 1)] /\ moved \in BOOLEAN
    /\ edits \in 0..MaxEdits /\ reruns \in 0..MaxReruns

NewJob == [status |-> "pending", step |-> "seed", kind |-> "none", file |-> "none"]

(* ProjectViewSet.perform_create, in one transaction: the project, its     *)
(* seed and the job.                                                       *)
CreationInit ==
    /\ source \in [CreationFiles -> {0, 1}]
    /\ Cardinality({f \in QgisNames : source[f] > 0}) <= 1
    /\ target = [f \in CreationFiles |-> Missing]
    /\ seed \in {"clone", "xlsform", "empty"}
    /\ job = NewJob /\ local = [f \in CreationFiles |-> Missing] /\ todo = {}
    /\ edits = 0 /\ reruns = 0
    /\ listed = {} /\ seen = [f \in CreationFiles |-> {}] /\ moved = FALSE /\ touched = {}

-----------------------------------------------------------------------------
filesUnchanged == UNCHANGED <<source, target, edits, touched>>
At(step) == job.status = "started" /\ job.step = step
GoTo(step) == job' = [job EXCEPT !.step = step]
TheQgisFiles(files) == {f \in QgisNames : files[f] # 0}

(* The job starts with an empty work directory. *)
StartCreation ==
    /\ job.status = "pending"
    /\ job' = [NewJob EXCEPT !.status = "started"]
    /\ local' = [f \in CreationFiles |-> Missing]
    /\ todo' = {} /\ touched' = {}
    /\ UNCHANGED <<source, target, seed, edits, reruns, listed, seen, moved>>

(* get_project_seed: 404 when it went with the source. *)
GetSeed ==
    /\ At("seed") /\ seed # "gone"
    /\ job' = [job EXCEPT !.kind = seed, !.step = IF seed = "clone" THEN "list" ELSE "name"]
    /\ filesUnchanged /\ UNCHANGED <<seed, local, todo, reruns, listed, seen, moved>>

(* download_project, of the attachments too: list_remote_files ... *)
ListSource ==
    /\ At("list") /\ seed = "clone"
    /\ listed' = {f \in CreationFiles : source[f] > 0}
    /\ todo' = listed'
    /\ seen' = [f \in CreationFiles |-> {source[f]}]
    /\ moved' = FALSE
    /\ GoTo("download")
    /\ filesUnchanged /\ UNCHANGED <<seed, local, reruns>>

(* Mutant: throw_on_error = False. *)
SkipDeletedFile(f) ==
    /\ At("download") /\ f \in todo
    /\ local' = [local EXCEPT ![f] = IF source[f] > 0 THEN CopyOf(source[f]) ELSE Missing]
    /\ todo' = todo \ {f}
    /\ filesUnchanged /\ UNCHANGED <<seed, job, reruns, listed, seen, moved>>

(* ... and download_files: the content of the moment. *)
DownloadFile(f) ==
    /\ At("download") /\ f \in todo /\ source[f] > 0
    /\ local' = [local EXCEPT ![f] = CopyOf(source[f])]
    /\ todo' = todo \ {f}
    /\ filesUnchanged /\ UNCHANGED <<seed, job, reruns, listed, seen, moved>>

Downloaded ==
    /\ At("download") /\ todo = {}
    /\ GoTo("name")
    /\ filesUnchanged /\ UNCHANGED <<seed, local, todo, reruns, listed, seen, moved>>

(* prepare_project_files: the name that the source's project file has now, *)
(* or the file that the form is converted to, or the default name.         *)
NameProjectFile(f) ==
    /\ At("name") /\ f \in QgisNames
    /\ job.kind = "clone" => seed # "gone" /\ f \in TheQgisFiles(source)
    /\ \/ UNCHANGED local
       \/ job.kind = "xlsform" /\ local' = [local EXCEPT ![f] = [kind |-> "blank", n |-> 0]]
    /\ job' = [job EXCEPT !.step = "configure", !.file = f]
    /\ filesUnchanged /\ UNCHANGED <<seed, todo, reruns, listed, seen, moved>>

(* configure_qgis_project: a file that is not there is made. *)
ConfigureProject ==
    /\ At("configure")
    /\ local' = IF local[job.file].kind = "none"
                THEN [local EXCEPT ![job.file] = [kind |-> "blank", n |-> 0]] ELSE local
    /\ todo' = Present(local')
    /\ GoTo("upload")
    /\ filesUnchanged /\ UNCHANGED <<seed, reruns, listed, seen, moved>>

(* upload_project: a file at a time; a second project file is refused. *)
UploadFile(f) ==
    /\ At("upload") /\ f \in todo
    /\ f \in QgisNames => Present(target) \cap QgisNames \subseteq {f}
    /\ target' = [target EXCEPT ![f] = local[f]]
    /\ todo' = todo \ {f}
    /\ touched' = touched \ {f}
    /\ UNCHANGED <<source, seed, job, local, edits, reruns, listed, seen, moved>>

FinishCreation ==
    /\ At("upload") /\ todo = {}
    /\ job' = [job EXCEPT !.status = "finished"]
    /\ filesUnchanged /\ UNCHANGED <<seed, local, todo, reruns, listed, seen, moved>>

(* A request of the container fails, or the conversion, or the container   *)
(* dies: the workflow stops, and what was uploaded stays.                  *)
FailCreation ==
    /\ job.status = "started"
    /\ job' = [job EXCEPT !.status = "failed"]
    /\ filesUnchanged /\ UNCHANGED <<seed, local, todo, reruns, listed, seen, moved>>

(* JobAdmin.rerun_job, of a job that is over *)
RerunCreation ==
    /\ job.status \in {"finished", "failed"} /\ reruns < MaxReruns
    /\ reruns' = reruns + 1
    /\ job' = NewJob
    /\ filesUnchanged /\ UNCHANGED <<seed, local, todo, listed, seen, moved>>

-----------------------------------------------------------------------------
(* The users of the source upload and delete; a second project file is     *)
(* refused.                                                                *)
EditSource(f, n) ==
    /\ seed # "gone" /\ edits < MaxEdits /\ n # source[f]
    /\ n > 0 /\ f \in QgisNames => TheQgisFiles(source) \subseteq {f}
    /\ edits' = edits + 1
    /\ source' = [source EXCEPT ![f] = n]
    /\ IF job.step \in {"download", "name"}
       THEN /\ seen' = [seen EXCEPT ![f] = @ \cup {n}]
            /\ moved' = (moved \/ (f \in QgisNames /\ 0 \in {n, source[f]}))
       ELSE UNCHANGED <<seen, moved>>
    /\ UNCHANGED <<target, seed, job, local, todo, reruns, listed, touched>>

(* The source is deleted, and the seed with it (on_delete = CASCADE). *)
DeleteSource ==
    /\ seed = "clone"
    /\ seed' = "gone"
    /\ source' = [f \in CreationFiles |-> 0]
    /\ UNCHANGED <<target, job, local, todo, edits, reruns, listed, seen, moved, touched>>

(* The users of the new project need not wait: has_active_create_job is    *)
(* only shown to them.                                                     *)
EditTarget(f, content) ==
    /\ edits < MaxEdits
    /\ content.kind = "own" /\ f \in QgisNames => Present(target) \cap QgisNames \subseteq {f}
    /\ content.kind = "none" => f \in Present(target)
    /\ edits' = edits + 1
    /\ target' = [target EXCEPT ![f] = content]
    /\ touched' = touched \cup {f}
    /\ UNCHANGED <<source, seed, job, local, todo, reruns, listed, seen, moved>>

CreationNext ==
    \/ StartCreation \/ GetSeed \/ ListSource \/ Downloaded \/ ConfigureProject
    \/ FinishCreation \/ FailCreation \/ RerunCreation \/ DeleteSource
    \/ \E f \in CreationFiles :
          \/ DownloadFile(f) \/ NameProjectFile(f) \/ UploadFile(f)
          \/ \E n \in {0, edits + 2} : EditSource(f, n)
          \/ \E content \in {Missing, [kind |-> "own", n |-> 0]} : EditTarget(f, content)

CreationSpec == CreationInit /\ [][CreationNext]_creationVars

-----------------------------------------------------------------------------
(* Rows keep their types, and a creation that ends well leaves a project   *)
(* file in the new project; a copy also every file that was listed, with a *)
(* content it had in the source until it was downloaded, unless the new    *)
(* project's own users changed it meanwhile.  The project file is a copy   *)
(* unless that of the source came, went or was renamed between the listing *)
(* and the look for its name: then it may be blank.                        *)
CloneIsWhole ==
    /\ CreationTypeOK
    /\ job.status = "finished" =>
       /\ job.file \in touched \cup Present(target)
       /\ job.kind = "clone" =>
            /\ \A f \in listed \ touched : target[f].kind = "copy" /\ target[f].n \in seen[f]
            /\ moved \/ job.file \in listed
=============================================================================
