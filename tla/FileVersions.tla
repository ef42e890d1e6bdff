---------------------------- MODULE FileVersions ----------------------------
(***************************************************************************)
(* The files of one project: rows of File and FileVersion in the database, *)
(* objects in the object storage, and the requests that upload a version,  *)
(* delete a version and delete a file (view_helpers.py, filestorage/       *)
(* models.py, helpers.py, signals.py).                                     *)
(*                                                                         *)
(* Abstractions:                                                           *)
(*  - A version is a number, in the order of uploaded_at: add_version      *)
(*    reads the clock and draws the id in one go.  A File has the number   *)
(*    of its first version for an id, so that a file that was deleted and  *)
(*    uploaded again is another row.  0 stands for None.                   *)
(*  - Every version has the size 1.                                        *)
(*  - A transaction takes effect at its COMMIT, which fails when a foreign *)
(*    key does (Postgres checks them there); the values it has read before *)
(*    are those of READ COMMITTED, as old as the statement that read them. *)
(*  - django_cleanup deletes the object of a deleted row on_commit.        *)
(***************************************************************************)
EXTENDS Integers, FiniteSets, Sequences

CONSTANTS
    Clients,      \* processes that serve requests
    Names,        \* file names
    QgisNames,    \* those that end in .qgs or .qgz
    Unversioned,  \* those of attachments, when they are not versioned
    MaxVersion,   \* bound: how many uploads get as far as add_version
    KeepCount,    \* project.owner_aware_storage_keep_versions
    Quota,        \* what the plan of the owner allows the project to store
    Exempt,       \* clients of a type that can_always_upload_files
    NoName,       \* the_qgis_file_name IS NULL
    MaxCrashes    \* bound: how often a process dies in a request

ASSUME FilesAssumption ==
    /\ IsFiniteSet(Clients) /\ Clients # {}
    /\ IsFiniteSet(Names) /\ Names # {}
    /\ QgisNames \subseteq Names /\ Unversioned \subseteq Names
    /\ QgisNames \cap Unversioned = {}
    /\ Exempt \subseteq Clients
    /\ NoName \notin Names
    /\ MaxVersion \in Nat /\ KeepCount \in Nat \ {0}
    /\ Quota \in Nat /\ MaxCrashes \in Nat

VARIABLES
    \* the database
    fileOf,       \* the id of the File of a name
    latest,       \* File.latest_version
    rowOf,        \* FileVersion.file, 0 when there is no such row
    content,      \* FileVersion.content: its key, or 0 for ''
    created,      \* the versions in the order of created_at
    storageBytes, \* Project.file_storage_bytes
    qgisName,     \* Project.the_qgis_file_name
    \* the object storage
    stored,       \* the version whose bytes are under a key
    \* the requests
    pc, op, name, ver,
    file,         \* the id of the File a request has read or inserted
    doomed,       \* the rows it has loaded to delete
    heir,         \* the latest_version its signal handler has worked out
    nextVersion,  \* the next version to be uploaded
    \* history
    crashes,
    lapsed,       \* a request ended after a deletion and before the tally
    condemned,    \* versions that a deletion by id was let loose on
    raced,        \* files of which two deletions overlapped
    shuffled      \* files with an upload saved after one that began later,
                  \* or while a signal handler was at work

dbVars == <<fileOf, latest, rowOf, content, created, storageBytes, qgisName>>
reqVars == <<pc, op, name, ver, file, doomed, heir, nextVersion>>
historyVars == <<crashes, lapsed, condemned, raced, shuffled>>
vars == <<dbVars, stored, reqVars, historyVars>>

Versions == 1..MaxVersion
Id == 0..MaxVersion
Keys == Versions \cup Unversioned

\* get_file_version_upload_to
Key(n, v) == IF n \in Unversioned THEN n ELSE v

TypeOK ==
    /\ fileOf \in [Names -> Id] /\ latest \in [Names -> Id]
    /\ rowOf \in [Versions -> Id]
    /\ content \in [Versions -> Keys \cup {0}]
    /\ created \in Seq(Versions)
    /\ storageBytes \in Nat
    /\ qgisName \in QgisNames \cup {NoName}
    /\ stored \in [Keys -> Id]
    /\ pc \in [Clients -> {"idle", "begin", "create", "put", "save", "purge", "content",
                           "blank", "signal", "commit", "cascade", "clean", "tally"}]
    /\ op \in [Clients -> {"upload", "version", "file"}]
    /\ name \in [Clients -> Names]
    /\ ver \in [Clients -> Id] /\ file \in [Clients -> Id]
    /\ doomed \in [Clients -> SUBSET Versions]
    /\ \A c \in Clients : heir[c] \in [DOMAIN heir[c] -> Id] /\ DOMAIN heir[c] \subseteq Id
    /\ nextVersion \in 1..MaxVersion + 1
    /\ crashes \in 0..MaxCrashes /\ lapsed \in BOOLEAN
    /\ condemned \subseteq Versions
    /\ raced \subseteq Id /\ shuffled \subseteq Id

NoHeirs == [f \in {} |-> 0]

Init ==
    /\ fileOf = [n \in Names |-> 0] /\ latest = [n \in Names |-> 0]
    /\ rowOf = [v \in Versions |-> 0]
    /\ content = [v \in Versions |-> 0]
    /\ created = <<>>
    /\ storageBytes = 0
    /\ qgisName = NoName
    /\ stored = [k \in Keys |-> 0]
    /\ pc = [c \in Clients |-> "idle"]
    /\ op = [c \in Clients |-> "upload"]
    /\ name = [c \in Clients |-> CHOOSE n \in Names : TRUE]
    /\ ver = [c \in Clients |-> 0] /\ file = [c \in Clients |-> 0]
    /\ doomed = [c \in Clients |-> {}]
    /\ heir = [c \in Clients |-> NoHeirs]
    /\ nextVersion = 1
    /\ crashes = 0 /\ lapsed = FALSE
    /\ condemned = {} /\ raced = {} /\ shuffled = {}

-----------------------------------------------------------------------------
(* Queries.                                                                *)

\* file.versions, by the id of the File
VersionsOf(f) == {v \in Versions : rowOf[v] = f /\ f # 0}

Rows == {v \in Versions : rowOf[v] # 0}

\* Sum("versions__size") over project_files, for given rows
SizeOf(rows) == Cardinality(rows)

Position(v) == CHOOSE i \in 1..Len(created) : created[i] = v

\* file.versions.order_by("-created_at")[keep_count:]
Surplus(f) ==
    {v \in VersionsOf(f) :
        Cardinality({w \in VersionsOf(f) : Position(w) > Position(v)}) >= KeepCount}

\* created_at is set by every INSERT: the version moves to the end
Before(v) == SubSeq(created, 1, Position(v) - 1)
After(v) == SubSeq(created, Position(v) + 1, Len(created))

Inserted(v) ==
    IF \E i \in 1..Len(created) : created[i] = v
    THEN Append(Before(v) \o After(v), v)
    ELSE Append(created, v)

\* Deletions of versions that are under way in the file f.
Deleting(f) == {c \in Clients : pc[c] \in {"content", "blank", "signal", "commit"}
                               /\ \E v \in doomed[c] : rowOf[v] = f}

\* storage_free_bytes of the owner: it counts the rows, not file_storage_bytes
FreeBytes == Quota - SizeOf(Rows)

-----------------------------------------------------------------------------
(* Requests.                                                               *)

Goto(c, step) == pc' = [pc EXCEPT ![c] = step]

\* The end of a request; what it has kept in memory is forgotten.
End(c) ==
    /\ pc' = [pc EXCEPT ![c] = "idle"]
    /\ op' = [op EXCEPT ![c] = "upload"]
    /\ name' = [name EXCEPT ![c] = CHOOSE n \in Names : TRUE]
    /\ ver' = [ver EXCEPT ![c] = 0]
    /\ file' = [file EXCEPT ![c] = 0]
    /\ doomed' = [doomed EXCEPT ![c] = {}]
    /\ heir' = [heir EXCEPT ![c] = NoHeirs]
    /\ UNCHANGED nextVersion

\* The checks of upload_project_file_version, before its transaction.
OneQgisFile(n) == n \in QgisNames => qgisName \in {NoName, n}

CanUpload(c) == c \in Exempt \/ 1 <= FreeBytes

CheckUpload(c, n) ==
    /\ pc[c] = "idle"
    /\ OneQgisFile(n)
    /\ CanUpload(c)
    /\ Goto(c, "begin")
    /\ name' = [name EXCEPT ![c] = n]
    /\ UNCHANGED <<dbVars, stored, op, ver, file, doomed, heir, nextVersion, historyVars>>

\* add_version begins: the clock, the id, and File.objects.get.
BeginUpload(c) ==
    LET f == fileOf[name[c]] IN
    /\ pc[c] = "begin"
    /\ nextVersion <= MaxVersion
    /\ nextVersion' = nextVersion + 1
    /\ ver' = [ver EXCEPT ![c] = nextVersion]
    /\ file' = [file EXCEPT ![c] = f]
    /\ Goto(c, IF f = 0 THEN "create" ELSE "put")
    /\ UNCHANGED <<dbVars, stored, op, name, doomed, heir, historyVars>>

\* Whether the request has inserted the File, in its open transaction.
Inserts(c) == file[c] = ver[c]

\* File.objects.create waits for an uncommitted row of the same name ...
Unclaimed(c) ==
    \A d \in Clients \ {c} : ~(pc[d] \in {"put", "save"} /\ name[d] = name[c] /\ Inserts(d))

CreateFile(c) ==
    /\ pc[c] = "create"
    /\ Unclaimed(c)
    /\ fileOf[name[c]] = 0
    /\ file' = [file EXCEPT ![c] = ver[c]]
    /\ Goto(c, "put")
    /\ UNCHANGED <<dbVars, stored, op, name, ver, doomed, heir, nextVersion, historyVars>>

\* ... and fails on a committed one: unique_file_per_project_name_type_packagejob.
CreateFails(c) ==
    /\ pc[c] = "create"
    /\ Unclaimed(c)
    /\ fileOf[name[c]] # 0
    /\ End(c)
    /\ UNCHANGED <<dbVars, stored, historyVars>>

\* FileVersion.objects.create writes the object, then takes created_at.
PutObject(c) ==
    /\ pc[c] = "put"
    /\ stored' = [stored EXCEPT ![Key(name[c], ver[c])] = ver[c]]
    /\ created' = Inserted(ver[c])
    /\ Goto(c, "save")
    /\ UNCHANGED <<fileOf, latest, rowOf, content, storageBytes, qgisName,
                   op, name, ver, file, doomed, heir, nextVersion, historyVars>>

\* The rest of the transaction: the row, the File, and, under the lock of the
\* project, the name of the QGIS file and the storage (Packaging has the job).
SaveUpload(c) ==
    LET n == name[c]
        v == ver[c]
    IN
    /\ pc[c] = "save"
    /\ Inserts(c) \/ fileOf[n] = file[c]
    /\ rowOf' = [rowOf EXCEPT ![v] = file[c]]
    /\ content' = [content EXCEPT ![v] = Key(n, v)]
    /\ fileOf' = [fileOf EXCEPT ![n] = file[c]]
    /\ latest' = [latest EXCEPT ![n] = v]
    /\ storageBytes' = SizeOf(Rows \cup {v})
    /\ shuffled' = shuffled \cup {f \in {file[c]} :
            (\E w \in VersionsOf(f) : w > v) \/ (\E d \in Deleting(f) : pc[d] = "commit")}
    /\ qgisName' = IF n \in QgisNames THEN n ELSE qgisName
    /\ Goto(c, "purge")
    /\ UNCHANGED <<created, stored, op, name, ver, file, doomed, heir, nextVersion,
                   crashes, lapsed, condemned, raced>>

\* The File is gone: its update finds no row, the transaction is rolled back.
\* A write that the storage refuses ends the same way.
UploadFails(c) ==
    /\ \/ pc[c] = "put"
       \/ pc[c] = "save" /\ ~Inserts(c) /\ fileOf[name[c]] # file[c]
    /\ End(c)
    /\ UNCHANGED <<dbVars, stored, historyVars>>

-----------------------------------------------------------------------------
(* Deletions of versions: the loaded rows, the signal handler, the COMMIT. *)

ListSurplusAndClean(c) ==
    LET surplus == UNION {Surplus(fileOf[n]) : n \in Names} IN
    /\ pc[c] = "purge"
    /\ surplus # {}
    /\ doomed' = [doomed EXCEPT ![c] = surplus]
    /\ stored' = [k \in Keys |-> IF k \in surplus THEN 0 ELSE stored[k]]
    /\ Goto(c, "signal")
    /\ UNCHANGED <<dbVars, op, name, ver, file, heir, nextVersion, historyVars>>

\* purge_old_file_versions lists what is beyond keep_count, without a lock.
ListSurplus(c) ==
    LET surplus == UNION {Surplus(fileOf[n]) : n \in Names} IN
    /\ pc[c] = "purge"
    /\ surplus # {}
    /\ doomed' = [doomed EXCEPT ![c] = surplus]
    /\ Goto(c, "signal")
    /\ UNCHANGED <<dbVars, stored, op, name, ver, file, heir, nextVersion, historyVars>>

NothingToPurge(c) ==
    /\ pc[c] = "purge"
    /\ \A n \in Names : Surplus(fileOf[n]) = {}
    /\ End(c)
    /\ UNCHANGED <<dbVars, stored, historyVars>>

OthersRemainOffByOne(f) == Cardinality(VersionsOf(f)) >= 1
OthersRemain(f) == Cardinality(VersionsOf(f)) > 1

\* delete_project_file_version with a version: the last one is refused.
CheckDeleteVersion(c, n, v) ==
    /\ pc[c] = "idle"
    /\ v \in VersionsOf(fileOf[n])
    /\ OthersRemain(fileOf[n])
    /\ op' = [op EXCEPT ![c] = "version"]
    /\ Goto(c, IF content[v] = 0 THEN "signal" ELSE "content")
    /\ name' = [name EXCEPT ![c] = n]
    /\ ver' = [ver EXCEPT ![c] = v]
    /\ file' = [file EXCEPT ![c] = fileOf[n]]
    /\ doomed' = [doomed EXCEPT ![c] = {v}]
    /\ condemned' = condemned \cup {v}
    /\ UNCHANGED <<dbVars, stored, heir, nextVersion, crashes, lapsed, raced, shuffled>>

\* FileVersion.delete calls content.delete(): the object goes first ...
DeleteContent(c) ==
    /\ pc[c] = "content"
    /\ stored' = [stored EXCEPT ![Key(name[c], ver[c])] = 0]
    /\ Goto(c, "blank")
    /\ UNCHANGED <<dbVars, op, name, ver, file, doomed, heir, nextVersion, historyVars>>

\* ... and the row is saved without it: inserted again when it is gone.
BlankContent(c) ==
    LET v == ver[c] IN
    /\ pc[c] = "blank"
    /\ rowOf[v] # 0 \/ fileOf[name[c]] = file[c]
    /\ rowOf' = [rowOf EXCEPT ![v] = file[c]]
    /\ created' = IF rowOf[v] = 0 THEN Inserted(v) ELSE created
    /\ content' = [content EXCEPT ![v] = 0]
    /\ Goto(c, "signal")
    /\ UNCHANGED <<fileOf, latest, storageBytes, qgisName, stored,
                   op, name, ver, file, doomed, heir, nextVersion, historyVars>>

\* What latest_version may become when pre_delete_file_version has seen all of
\* the rows to delete, in the order of their random ids.
Heirs(f, head, rows) ==
    LET below == {w \in VersionsOf(f) : w < head} \cup {0} IN
    {w \in below : \A x \in below : w < x => x \in rows}

\* The rows are loaded and the handlers run; the files whose latest_version
\* is among the rows get an heir.
SignalDeletion(c) ==
    LET rows == doomed[c] \cap Rows
        hit == {n \in Names : latest[n] \in rows}
    IN
    /\ pc[c] = "signal"
    /\ \E h \in [{fileOf[n] : n \in hit} -> Id] :
        /\ \A n \in hit : h[fileOf[n]] \in Heirs(fileOf[n], latest[n], rows)
        /\ heir' = [heir EXCEPT ![c] = h]
    /\ doomed' = [doomed EXCEPT ![c] = rows]
    /\ Goto(c, "commit")
    /\ UNCHANGED <<dbVars, stored, op, name, ver, file, nextVersion, historyVars>>

NewLatest(c) ==
    [n \in Names |-> IF fileOf[n] \in DOMAIN heir[c] THEN heir[c][fileOf[n]] ELSE latest[n]]

\* The rows of the files are still there to update, and no File refers to a
\* version that is gone.
ForeignKeysHold(c) ==
    /\ DOMAIN heir[c] \subseteq {fileOf[n] : n \in Names}
    /\ \A n \in Names : NewLatest(c)[n] \in {0} \cup (VersionsOf(fileOf[n]) \ doomed[c])

RecomputeNothing(rows) ==
    /\ UNCHANGED storageBytes
    /\ lapsed' = FALSE

\* The storage is computed under the lock of the project.
Recompute(rows) ==
    /\ storageBytes' = SizeOf(rows)
    /\ lapsed' = FALSE

CommitDeletion(c) ==
    LET rest == Rows \ doomed[c]
        files == {rowOf[v] : v \in doomed[c] \cap Rows}
    IN
    /\ pc[c] = "commit"
    /\ ForeignKeysHold(c)
    /\ rowOf' = [v \in Versions |-> IF v \in doomed[c] THEN 0 ELSE rowOf[v]]
    /\ latest' = NewLatest(c)
    /\ raced' = raced \cup {f \in files : Deleting(f) # {c}}
    /\ \/ op[c] = "upload" /\ Recompute(rest) /\ Goto(c, "clean")
       \/ op[c] = "version" /\ UNCHANGED <<storageBytes, lapsed>> /\ Goto(c, "tally")
    /\ UNCHANGED <<fileOf, content, created, qgisName, stored, op, name, ver, file,
                   doomed, heir, nextVersion, crashes, condemned, shuffled>>

\* Whether a deletion has changed rows that file_storage_bytes does not count.
Untallied(c) == op[c] # "upload" /\ pc[c] \in {"signal", "commit", "clean", "tally"}

DeletionFails(c) ==
    /\ \/ pc[c] = "commit" /\ ~ForeignKeysHold(c)
       \/ pc[c] = "blank" /\ rowOf[ver[c]] = 0 /\ fileOf[name[c]] # file[c]
    /\ lapsed' = (lapsed \/ Untallied(c))
    /\ End(c)
    /\ UNCHANGED <<dbVars, stored, crashes, condemned, raced, shuffled>>

\* django_cleanup, on_commit: the content of the loaded rows is deleted.
CleanObjects(c) ==
    LET gone == {content[v] : v \in doomed[c]} IN
    /\ pc[c] = "clean"
    /\ stored' = [k \in Keys |-> IF k \in gone THEN 0 ELSE stored[k]]
    /\ \/ op[c] = "upload" /\ End(c)
       \/ op[c] = "file" /\ Goto(c, "tally")
                         /\ UNCHANGED <<op, name, ver, file, doomed, heir, nextVersion>>
    /\ UNCHANGED <<dbVars, historyVars>>

-----------------------------------------------------------------------------
(* The deletion of a File, with all of its versions.                       *)

CheckDeleteFile(c, n) ==
    /\ pc[c] = "idle"
    /\ fileOf[n] # 0
    /\ Goto(c, "cascade")
    /\ op' = [op EXCEPT ![c] = "file"]
    /\ name' = [name EXCEPT ![c] = n]
    /\ file' = [file EXCEPT ![c] = fileOf[n]]
    /\ doomed' = [doomed EXCEPT ![c] = VersionsOf(fileOf[n])]
    /\ UNCHANGED <<dbVars, stored, ver, heir, nextVersion, historyVars>>

\* The cascade deletes the versions that were there when it collected them.
Cascade(c) ==
    LET n == name[c] IN
    /\ pc[c] = "cascade"
    /\ VersionsOf(file[c]) \subseteq doomed[c]
    /\ rowOf' = [v \in Versions |-> IF v \in doomed[c] THEN 0 ELSE rowOf[v]]
    /\ fileOf' = [fileOf EXCEPT ![n] = IF @ = file[c] THEN 0 ELSE @]
    /\ latest' = [latest EXCEPT ![n] = IF fileOf[n] = file[c] THEN 0 ELSE @]
    /\ Goto(c, "clean")
    /\ UNCHANGED <<content, created, storageBytes, qgisName, stored, op, name, ver, file,
                   doomed, heir, nextVersion, historyVars>>

\* A version that was added since refers to the File.
CascadeFails(c) ==
    /\ pc[c] = "cascade"
    /\ ~(VersionsOf(file[c]) \subseteq doomed[c])
    /\ End(c)
    /\ UNCHANGED <<dbVars, stored, historyVars>>

\* The second transaction of delete_project_file_version.  It reads the QGIS
\* version from the latest version that is left of a QGIS file.
Readable(n) ==
    /\ latest[n] # 0
    /\ content[latest[n]] # 0
    /\ stored[Key(n, latest[n])] # 0

Unreadable(n) == n \in QgisNames /\ fileOf[n] # 0 /\ ~Readable(n)

Tally(c) ==
    LET n == name[c] IN
    /\ pc[c] = "tally"
    /\ ~Unreadable(n)
    /\ Recompute(Rows)
    /\ qgisName' = IF n \in QgisNames /\ fileOf[n] = 0 THEN NoName ELSE qgisName
    /\ End(c)
    /\ UNCHANGED <<fileOf, latest, rowOf, content, created, stored,
                   crashes, condemned, raced, shuffled>>

TallyFails(c) ==
    /\ pc[c] = "tally"
    /\ Unreadable(name[c])
    /\ lapsed' = TRUE
    /\ End(c)
    /\ UNCHANGED <<dbVars, stored, crashes, condemned, raced, shuffled>>

\* The process that serves a request dies: an open transaction is rolled back.
Crash(c) ==
    /\ pc[c] # "idle"
    /\ crashes < MaxCrashes
    /\ crashes' = crashes + 1
    /\ lapsed' = (lapsed \/ Untallied(c))
    /\ End(c)
    /\ UNCHANGED <<dbVars, stored, condemned, raced, shuffled>>

Next ==
    \/ \E c \in Clients, n \in Names :
        \/ CheckUpload(c, n)
        \/ CheckDeleteFile(c, n)
        \/ \E v \in Versions : CheckDeleteVersion(c, n, v)
    \/ \E c \in Clients :
        \/ BeginUpload(c) \/ CreateFile(c) \/ CreateFails(c) \/ PutObject(c)
        \/ SaveUpload(c) \/ UploadFails(c)
        \/ ListSurplus(c) \/ NothingToPurge(c)
        \/ DeleteContent(c) \/ BlankContent(c)
        \/ SignalDeletion(c) \/ CommitDeletion(c) \/ DeletionFails(c) \/ CleanObjects(c)
        \/ Cascade(c) \/ CascadeFails(c) \/ Tally(c) \/ TallyFails(c)
        \/ Crash(c)

Spec == Init /\ [][Next]_vars

-----------------------------------------------------------------------------
(* Properties.                                                             *)

\* The tables keep their types, and a version that no deletion by id was let
\* loose on has its bytes, whatever requests overlap and wherever they die: the
\* purge and the deletion of a file remove the row first and the object after
\* the COMMIT, an upload writes the object before the row.
StoredVersions ==
    /\ TypeOK
    /\ \A v \in Rows \ condemned : content[v] # 0 /\ stored[content[v]] = v

\* A file loses its last version only when two deletions in it overlap:
\* delete_project_file_version refuses the last version, and the purge keeps
\* keep_count of them.  And one that has versions has a latest one (the download
\* asserts it), as long as its uploads are saved in the order in which they began,
\* and not between the read and the write of the signal handler.
NeverEmptied ==
    \A n \in Names : fileOf[n] # 0 =>
        /\ VersionsOf(fileOf[n]) = {} => fileOf[n] \in raced
        /\ VersionsOf(fileOf[n]) # {} /\ latest[n] = 0 => fileOf[n] \in shuffled \cup raced

\* Outside of a deletion, file_storage_bytes is the size of the versions there
\* are: every request that changes them computes it under the project's lock.
StorageCounted ==
    lapsed \/ (\E c \in Clients : Untallied(c)) \/ storageBytes = SizeOf(Rows)

\* Uploads that pass the check of the quota at the same time may overdraw it, by
\* one upload of each client but one, whatever deletions they overlap with.
OverdraftBounded ==
    Exempt = {} =>
        SizeOf({v \in Rows : content[v] # 0}) <= Quota + Cardinality(Clients) - 1

\* The storage that a plan is asked to pay for is that of the versions, and no
\* more than its quota but for uploads that overlap.
StorageWithinPlan == StorageCounted /\ OverdraftBounded
=============================================================================
