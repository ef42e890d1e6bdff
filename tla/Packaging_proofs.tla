--------------------------- MODULE Packaging_proofs ---------------------------
(***************************************************************************)
(* Proofs about Packaging, for any number of users, jobs, uploads and jobs *)
(* given up, and whoever has secrets of his own.                           *)
(***************************************************************************)
EXTENDS Packaging, FiniteSetTheorems, WellFoundedInduction, TLAPS

USE DEF vars, runUnchanged, accessUnchanged, uploadUnchanged, requestUnchanged,
        packageOnly, processOnly

LEMMA NextIsAStep ==
    ASSUME [Next]_vars
    PROVE  \/ \E j \in JobIds : PackageRun(j)
           \/ \E u \in Users : ProcessRun(u)
           \/ \E u \in Users : Request(u)
           \/ ListObsolete \/ DeleteObsolete
           \/ UNCHANGED vars
BY DEF Next

-----------------------------------------------------------------------------
(* The rows of package jobs.                                               *)

\* The rows are numbered from 1 on.
LEMMA JobsCounted ==
    ASSUME TypeOK
    PROVE  /\ JobIds = 1..Cardinality(JobIds)
           /\ Cardinality(JobIds) \in 0..MaxJobs
           /\ IsFiniteSet(JobIds)
<1>1. PICK n \in 0..MaxJobs : JobIds = 1..n
    BY DEF TypeOK, JobIds
<1>2. IsFiniteSet(1..n) /\ Cardinality(1..n) = n
    BY <1>1, FS_Interval, PackagingAssumption
<1> QED
    BY <1>1, <1>2

\* A step that changes one row.
Becomes(j, row) ==
    /\ JobIds' = JobIds
    /\ jobs'[j] = row
    /\ \A k \in JobIds \ {j} : jobs'[k] = jobs[k]

\* A step that deletes files and may let a job go on.
Cleans(J) ==
    /\ JobIds' = JobIds
    /\ \A k \in JobIds :
        /\ k \in J => jobs'[k].files = "none"
        /\ k \notin J => jobs'[k].files = jobs[k].files

\* The rows that a run makes of the row of its job.
StartedRow(row) == [row EXCEPT !.status = "started", !.run = "launched"]
ReadRow(row) == [row EXCEPT !.run = "read", !.read = version]
FilledRow(row) == [row EXCEPT !.files = IF row.files = "none" THEN "some" ELSE "all"]
RowAt(row, place) == [row EXCEPT !.run = place]
FailedRow(row) == [row EXCEPT !.run = "idle", !.status = "failed", !.forced = FALSE, !.read = None]
ThrownRow(row) == [FailedRow(row) EXCEPT !.finished_at = version]
FinishedRow(row) ==
    [row EXCEPT !.run = "idle", !.status = "finished", !.forced = FALSE,
                !.finished_at = version, !.read = row.read]
GivenUpRow(row) == [row EXCEPT !.status = "failed", !.finished_at = version]

\* A step of a run but for the deletion of files.
LEMMA RunRows ==
    ASSUME TypeOK, NEW j \in JobIds
    PROVE  /\ Start(j) => Becomes(j, StartedRow(jobs[j]))
           /\ Download(j) => Becomes(j, ReadRow(jobs[j]))
           /\ UploadPackageFile(j) => Becomes(j, FilledRow(jobs[j]))
           /\ ContainerSucceeds(j) => Becomes(j, RowAt(jobs[j], "after"))
           /\ ContainerFails(j) => Becomes(j, FailedRow(jobs[j]))
           /\ Throw(j) => Becomes(j, RowAt(jobs[j], "thrown"))
           /\ SaveFailure(j) => Becomes(j, ThrownRow(jobs[j]))
           /\ SavePackagedAt(j) => Becomes(j, RowAt(jobs[j], "clean"))
           /\ Finish(j) => Becomes(j, FinishedRow(jobs[j]))
           /\ GiveUp(j) => Becomes(j, GivenUpRow(jobs[j]))
<1> USE DEF TypeOK, JobRow, Becomes, JobIds
<1>1. Start(j) => Becomes(j, StartedRow(jobs[j]))
    BY DEF Start, StartedRow
<1>2. Download(j) => Becomes(j, ReadRow(jobs[j]))
    BY DEF Download, ReadRow
<1>3. UploadPackageFile(j) => Becomes(j, FilledRow(jobs[j]))
    BY DEF UploadPackageFile, FilledRow
<1>4. ContainerSucceeds(j) => Becomes(j, RowAt(jobs[j], "after"))
    BY DEF ContainerSucceeds, RowAt
<1>5. ContainerFails(j) => Becomes(j, FailedRow(jobs[j]))
    BY DEF ContainerFails, Ended, FailedRow
<1>6. Throw(j) => Becomes(j, RowAt(jobs[j], "thrown"))
    BY DEF Throw, RowAt
<1>7. SaveFailure(j) => Becomes(j, ThrownRow(jobs[j]))
    BY DEF SaveFailure, Ended, ThrownRow, FailedRow
<1>8. SavePackagedAt(j) => Becomes(j, RowAt(jobs[j], "clean"))
    BY DEF SavePackagedAt, RowAt
<1>9. Finish(j) => Becomes(j, FinishedRow(jobs[j]))
    BY ZenonT(60) DEF Finish, Ended, FinishedRow
<1>10. GiveUp(j) => Becomes(j, GivenUpRow(jobs[j]))
    BY DEF GiveUp, GivenUpRow
<1> QED
    BY <1>1, <1>2, <1>3, <1>4, <1>5, <1>6, <1>7, <1>8, <1>9, <1>10

\* The same, column by column.
Writes(j, status, finished_at, files, run, read) ==
    /\ JobIds' = JobIds
    /\ jobs'[j].by = jobs[j].by
    /\ jobs'[j].forced = jobs[j].forced \/ status \in {"finished", "failed"}
    /\ jobs'[j].status = status
    /\ jobs'[j].finished_at = finished_at
    /\ jobs'[j].files = files
    /\ jobs'[j].run = run
    /\ jobs'[j].read = read
    /\ \A k \in JobIds \ {j} : jobs'[k] = jobs[k]

LEMMA RunWrites ==
    ASSUME TypeOK, NEW j \in JobIds
    PROVE  /\ Start(j) =>
                Writes(j, "started", jobs[j].finished_at, jobs[j].files, "launched", jobs[j].read)
           /\ Download(j) =>
                Writes(j, jobs[j].status, jobs[j].finished_at, jobs[j].files, "read", version)
           /\ UploadPackageFile(j) =>
                Writes(j, jobs[j].status, jobs[j].finished_at,
                  IF jobs[j].files = "none" THEN "some" ELSE "all", jobs[j].run, jobs[j].read)
           /\ ContainerSucceeds(j) =>
                Writes(j, jobs[j].status, jobs[j].finished_at, jobs[j].files, "after", jobs[j].read)
           /\ ContainerFails(j) =>
                Writes(j, "failed", jobs[j].finished_at, jobs[j].files, "idle", None)
           /\ Throw(j) =>
                Writes(j, jobs[j].status, jobs[j].finished_at, jobs[j].files, "thrown", jobs[j].read)
           /\ SaveFailure(j) =>
                Writes(j, "failed", version, jobs[j].files, "idle", None)
           /\ SavePackagedAt(j) =>
                Writes(j, jobs[j].status, jobs[j].finished_at, jobs[j].files, "clean", jobs[j].read)
           /\ Finish(j) =>
                Writes(j, "finished", version, jobs[j].files, "idle", jobs[j].read)
           /\ GiveUp(j) =>
                Writes(j, "failed", version, jobs[j].files, jobs[j].run, jobs[j].read)
<1>1. jobs[j] \in JobRow
    BY DEF TypeOK
<1> USE DEF Writes, Becomes, JobRow
<1>2. ASSUME Start(j)
      PROVE  Writes(j, "started", jobs[j].finished_at, jobs[j].files, "launched", jobs[j].read)
  <2>1. Becomes(j, StartedRow(jobs[j]))
      BY <1>2, RunRows
  <2> QED
      BY <1>1, <2>1 DEF StartedRow
<1>3. ASSUME Download(j)
      PROVE  Writes(j, jobs[j].status, jobs[j].finished_at, jobs[j].files, "read", version)
  <2>1. Becomes(j, ReadRow(jobs[j]))
      BY <1>3, RunRows
  <2> QED
      BY <1>1, <2>1 DEF ReadRow
<1>4. ASSUME UploadPackageFile(j)
      PROVE  Writes(j, jobs[j].status, jobs[j].finished_at,
                  IF jobs[j].files = "none" THEN "some" ELSE "all", jobs[j].run, jobs[j].read)
  <2>1. Becomes(j, FilledRow(jobs[j]))
      BY <1>4, RunRows
  <2> QED
      BY <1>1, <2>1 DEF FilledRow
<1>5. ASSUME ContainerSucceeds(j)
      PROVE  Writes(j, jobs[j].status, jobs[j].finished_at, jobs[j].files, "after", jobs[j].read)
  <2>1. Becomes(j, RowAt(jobs[j], "after"))
      BY <1>5, RunRows
  <2> QED
      BY <1>1, <2>1 DEF RowAt
<1>6. ASSUME ContainerFails(j)
      PROVE  Writes(j, "failed", jobs[j].finished_at, jobs[j].files, "idle", None)
  <2>1. Becomes(j, FailedRow(jobs[j]))
      BY <1>6, RunRows
  <2> QED
      BY <1>1, <2>1 DEF FailedRow
<1>7. ASSUME Throw(j)
      PROVE  Writes(j, jobs[j].status, jobs[j].finished_at, jobs[j].files, "thrown", jobs[j].read)
  <2>1. Becomes(j, RowAt(jobs[j], "thrown"))
      BY <1>7, RunRows
  <2> QED
      BY <1>1, <2>1 DEF RowAt
<1>8. ASSUME SaveFailure(j)
      PROVE  Writes(j, "failed", version, jobs[j].files, "idle", None)
  <2>1. Becomes(j, ThrownRow(jobs[j]))
      BY <1>8, RunRows
  <2> QED
      BY <1>1, <2>1 DEF ThrownRow, FailedRow
<1>9. ASSUME SavePackagedAt(j)
      PROVE  Writes(j, jobs[j].status, jobs[j].finished_at, jobs[j].files, "clean", jobs[j].read)
  <2>1. Becomes(j, RowAt(jobs[j], "clean"))
      BY <1>9, RunRows
  <2> QED
      BY <1>1, <2>1 DEF RowAt
<1>10. ASSUME Finish(j)
      PROVE  Writes(j, "finished", version, jobs[j].files, "idle", jobs[j].read)
  <2>1. Becomes(j, FinishedRow(jobs[j]))
      BY <1>10, RunRows
  <2> QED
      BY <1>1, <2>1 DEF FinishedRow
<1>11. ASSUME GiveUp(j)
      PROVE  Writes(j, "failed", version, jobs[j].files, jobs[j].run, jobs[j].read)
  <2>1. Becomes(j, GivenUpRow(jobs[j]))
      BY <1>11, RunRows
  <2> QED
      BY <1>1, <2>1 DEF GivenUpRow
<1> QED
    BY <1>2, <1>3, <1>4, <1>5, <1>6, <1>7, <1>8, <1>9, <1>10, <1>11

\* What the deletion of files leaves of the other columns.
LEMMA CleanUpRows ==
    ASSUME TypeOK, NEW j \in JobIds, CleanUp(j)
    PROVE  /\ Cleans(doomed[j])
           /\ jobs[j].run = "clean"
           /\ \A k \in JobIds :
                /\ jobs'[k] \in JobRow
                /\ jobs'[k].by = jobs[k].by /\ jobs'[k].forced = jobs[k].forced
                /\ jobs'[k].status = jobs[k].status /\ jobs'[k].finished_at = jobs[k].finished_at
                /\ jobs'[k].read = jobs[k].read
                /\ jobs'[k].run = IF k = j THEN "finish" ELSE jobs[k].run
<1> USE DEF TypeOK, JobIds
<1>1. JobIds' = JobIds /\ jobs[j].run = "clean"
    BY DEF CleanUp, WithoutFilesOf
<1>2. ASSUME NEW k \in JobIds
      PROVE  jobs'[k] =
                [jobs[k] EXCEPT !.files = IF k \in doomed[j] THEN "none" ELSE jobs[k].files,
                                !.run = IF k = j THEN "finish" ELSE jobs[k].run]
    BY DEF CleanUp, WithoutFilesOf, JobRow
<1>3. Cleans(doomed[j])
  <2>1. ASSUME NEW k \in JobIds
        PROVE  jobs'[k].files = IF k \in doomed[j] THEN "none" ELSE jobs[k].files
    <3>1. jobs[k] \in JobRow
        OBVIOUS
    <3> QED
        BY <1>2, <3>1 DEF JobRow
  <2> QED
      BY ZenonT(60), <1>1, <2>1 DEF Cleans
<1>4. ASSUME NEW k \in JobIds
      PROVE  /\ jobs'[k] \in JobRow
             /\ jobs'[k].by = jobs[k].by /\ jobs'[k].forced = jobs[k].forced
             /\ jobs'[k].status = jobs[k].status /\ jobs'[k].finished_at = jobs[k].finished_at
             /\ jobs'[k].read = jobs[k].read
             /\ jobs'[k].run = IF k = j THEN "finish" ELSE jobs[k].run
  <2> DEFINE f == IF k \in doomed[j] THEN "none" ELSE jobs[k].files
             g == IF k = j THEN "finish" ELSE jobs[k].run
  <2>1. jobs[k] \in JobRow /\ jobs'[k] = [jobs[k] EXCEPT !.files = f, !.run = g]
      BY <1>2
  <2>2. f \in {"none", "some", "all"}
      BY <2>1 DEF JobRow
  <2>3. g \in {"idle", "launched", "read", "after", "clean", "finish", "thrown"}
      BY <2>1 DEF JobRow
  <2>4. jobs'[k].run = g
      BY <2>1 DEF JobRow
  <2> HIDE DEF f, g
  <2> QED
      BY <2>1, <2>2, <2>3, <2>4 DEF JobRow, g
<1> QED
    BY <1>1, <1>3, <1>4

LEMMA DeleteRows ==
    ASSUME TypeOK, DeleteObsolete
    PROVE  /\ Cleans(doomed[0])
           /\ \A k \in JobIds :
                /\ jobs'[k] \in JobRow
                /\ jobs'[k].by = jobs[k].by /\ jobs'[k].forced = jobs[k].forced
                /\ jobs'[k].status = jobs[k].status /\ jobs'[k].finished_at = jobs[k].finished_at
                /\ jobs'[k].read = jobs[k].read /\ jobs'[k].run = jobs[k].run
<1> USE DEF TypeOK, JobRow, JobIds, Cleans, DeleteObsolete, WithoutFilesOf
<1>1. JobIds' = JobIds
    OBVIOUS
<1>2. ASSUME NEW k \in JobIds
      PROVE  jobs'[k] = [jobs[k] EXCEPT !.files = IF k \in doomed[0] THEN "none" ELSE jobs[k].files]
    OBVIOUS
<1>3. Cleans(doomed[0])
    BY <1>1, <1>2
<1>4. ASSUME NEW k \in JobIds
      PROVE  /\ jobs'[k] \in JobRow
             /\ jobs'[k].by = jobs[k].by /\ jobs'[k].forced = jobs[k].forced
             /\ jobs'[k].status = jobs[k].status /\ jobs'[k].finished_at = jobs[k].finished_at
             /\ jobs'[k].read = jobs[k].read /\ jobs'[k].run = jobs[k].run
    BY ZenonT(60), <1>2
<1> QED
    BY <1>3, <1>4

\* A new job is the last one.
LEMMA NewRow ==
    ASSUME TypeOK, NEW u \in Users, NEW forced \in BOOLEAN, CreateJob(u, forced)
    PROVE  \E n \in Nat :
             /\ JobIds = 1..n /\ JobIds' = 1..n + 1 /\ n < MaxJobs
             /\ \A k \in JobIds : jobs'[k] = jobs[k]
             /\ jobs'[n + 1] =
                  [by |-> u, forced |-> forced, status |-> "pending",
                   finished_at |-> None, files |-> "none", run |-> "idle", read |-> None]
<1>1. PICK n \in Nat : n = Cardinality(JobIds) /\ JobIds = 1..n
    BY JobsCounted, PackagingAssumption
<1>2. n < MaxJobs /\ JobIds' = 1..n + 1
    BY <1>1 DEF CreateJob, JobIds
<1>3. \A k \in JobIds : k \in 1..n + 1
  <2>1. \A k \in 1..n : k \in 1..n + 1
    OBVIOUS
  <2> QED
    BY <1>1, <2>1
<1>4. \A k \in JobIds : jobs'[k] = jobs[k]
    BY <1>1, <1>3 DEF CreateJob
<1>5. n + 1 \in 1..n + 1 /\ n + 1 \notin JobIds
  <2>1. n + 1 \in 1..n + 1 /\ n + 1 \notin 1..n
    OBVIOUS
  <2> QED
    BY <1>1, <2>1
<1>6. jobs'[n + 1] =
        [by |-> u, forced |-> forced, status |-> "pending",
         finished_at |-> None, files |-> "none", run |-> "idle", read |-> None]
    BY <1>1, <1>5 DEF CreateJob
<1> QED
    BY <1>1, <1>2, <1>4, <1>6
-----------------------------------------------------------------------------
(* Types.                                                                  *)

LEMMA RowTypes ==
    ASSUME NEW row \in JobRow, version \in Versions
    PROVE  {StartedRow(row), ReadRow(row), FilledRow(row), FailedRow(row), ThrownRow(row),
            FinishedRow(row), GivenUpRow(row), RowAt(row, "after"), RowAt(row, "thrown"),
            RowAt(row, "clean")} \subseteq JobRow
<1> USE DEF JobRow, ActiveStatus
<1>1. {StartedRow(row), ReadRow(row), FilledRow(row)} \subseteq JobRow
  <2>1. StartedRow(row) \in JobRow
      BY DEF StartedRow
  <2>2. ReadRow(row) \in JobRow
      BY DEF ReadRow
  <2>3. FilledRow(row) \in JobRow
      BY DEF FilledRow
  <2> QED
      BY <2>1, <2>2, <2>3
<1>2. {FailedRow(row), ThrownRow(row), FinishedRow(row), GivenUpRow(row)} \subseteq JobRow
  <2>1. FailedRow(row) \in JobRow /\ ThrownRow(row) \in JobRow
      BY DEF FailedRow, ThrownRow
  <2>2. FinishedRow(row) \in JobRow /\ GivenUpRow(row) \in JobRow
      BY DEF FinishedRow, GivenUpRow
  <2> QED
      BY <2>1, <2>2
<1>3. {RowAt(row, "after"), RowAt(row, "thrown"), RowAt(row, "clean")} \subseteq JobRow
    BY DEF RowAt
<1> QED
    BY <1>1, <1>2, <1>3

LEMMA RunTypes ==
    ASSUME TypeOK, NEW j \in JobIds, PackageRun(j)
    PROVE  TypeOK'
<1>0. j \in 1..MaxJobs /\ j \in 0..MaxJobs
    BY JobsCounted, PackagingAssumption
<1>1. (\A k \in JobIds : jobs'[k] \in JobRow) /\ JobIds' = JobIds
  <2>1. CASE CleanUp(j)
      BY <2>1, CleanUpRows DEF Cleans
  <2>2. CASE ~CleanUp(j)
    <3>1. JobIds' = JobIds /\ \A k \in JobIds \ {j} : jobs'[k] = jobs[k]
        BY <2>2, RunRows DEF PackageRun, Becomes
    <3>2. jobs'[j] \in JobRow
      <4>1. jobs[j] \in JobRow /\ version \in Versions
          BY DEF TypeOK
      <4>2. \E row \in JobRow : jobs'[j] = row
          BY <2>2, <4>1, RunRows, RowTypes DEF PackageRun, Becomes
      <4> QED
          BY <4>2
    <3> QED
        BY <3>1, <3>2 DEF TypeOK
  <2> QED
      BY <2>1, <2>2
<1>2. /\ UNCHANGED <<process, processed, members, version, details, creating, cleaning,
                     left, overtaken, unseen>>
      /\ packaged' \in BOOLEAN /\ gaveUp' \in 0..MaxGiveUps
      /\ doomed' \in [0..MaxJobs -> SUBSET JobIds]
    <2> USE DEF TypeOK
    <2>1. Obsolete \subseteq JobIds
        BY DEF Obsolete
    <2>2. CASE SavePackagedAt(j)
        BY <1>0, <2>1, <2>2 DEF SavePackagedAt
    <2>3. CASE CleanUp(j) \/ Throw(j)
        BY <1>0, <2>3 DEF CleanUp, Throw
    <2>4. CASE GiveUp(j)
        BY <2>4, PackagingAssumption DEF GiveUp
    <2>5. CASE Start(j) \/ Download(j) \/ UploadPackageFile(j) \/ ContainerSucceeds(j)
               \/ ContainerFails(j) \/ SaveFailure(j) \/ Finish(j)
        BY <2>5 DEF Start, Download, UploadPackageFile, ContainerSucceeds, ContainerFails,
                    SaveFailure, Finish
    <2> QED
        BY <2>2, <2>3, <2>4, <2>5 DEF PackageRun
<1> QED
    BY <1>1, <1>2 DEF TypeOK, JobIds

LEMMA ProcessTypes ==
    ASSUME TypeOK, NEW u \in Users, ProcessRun(u)
    PROVE  TypeOK'
<1> USE DEF TypeOK, JobIds
<1>1. CASE StartProcess(u)
    BY <1>1 DEF StartProcess, GotoProcess
<1>2. CASE DownloadForProcess(u)
    BY <1>2 DEF DownloadForProcess, GotoProcess
<1>3. CASE ProcessSucceeds(u)
    BY <1>3 DEF ProcessSucceeds, GotoProcess
<1>4. CASE ProcessFails(u)
    BY <1>4 DEF ProcessFails, GotoProcess
<1>5. CASE ResetDetails(u)
    BY <1>5 DEF ResetDetails, GotoProcess
<1>6. CASE SaveDetails(u)
    BY <1>6 DEF SaveDetails, GotoProcess
<1>7. CASE FinishProcess(u)
    BY <1>7 DEF FinishProcess, GotoProcess
<1> QED
    BY <1>1, <1>2, <1>3, <1>4, <1>5, <1>6, <1>7 DEF ProcessRun

LEMMA RequestTypes ==
    ASSUME TypeOK, NEW u \in Users, Request(u)
    PROVE  TypeOK'
<1>1. ASSUME NEW forced \in BOOLEAN, CreateJob(u, forced)
      PROVE  /\ JobIds' \in {1..n : n \in 0..MaxJobs}
             /\ \A j \in JobIds' : jobs'[j] \in JobRow
             /\ JobIds \subseteq JobIds'
  <2>1. PICK n \in Nat :
             /\ JobIds = 1..n /\ JobIds' = 1..n + 1 /\ n < MaxJobs
             /\ \A k \in JobIds : jobs'[k] = jobs[k]
             /\ jobs'[n + 1] =
                  [by |-> u, forced |-> forced, status |-> "pending",
                   finished_at |-> None, files |-> "none", run |-> "idle", read |-> None]
      BY <1>1, NewRow
  <2>2. n + 1 \in 0..MaxJobs /\ 1..n \subseteq 1..n + 1 /\ \A k \in 1..n + 1 : k \in 1..n \/ k = n + 1
      BY <2>1, PackagingAssumption
  <2>3. jobs'[n + 1] \in JobRow
      BY <2>1 DEF JobRow, ActiveStatus
  <2>4. \A k \in JobIds : jobs'[k] \in JobRow
      BY <2>1 DEF TypeOK
  <2> QED
      BY <2>1, <2>2, <2>3, <2>4
<1>2. CASE CreatePackage(u)
  <2>1. CreateJob(u, FALSE)
      BY <1>2 DEF CreatePackage
  <2> QED
      BY <1>1, <1>2, <2>1 DEF CreatePackage, TypeOK, JobIds
<1>3. CASE ForcePackage(u)
  <2>1. CreateJob(u, TRUE)
      BY <1>3 DEF ForcePackage
  <2> QED
      BY <1>1, <1>3, <2>1 DEF ForcePackage, TypeOK, JobIds
<1> USE DEF TypeOK, JobIds
<1>4. CASE RequestPackage(u)
    BY <1>4 DEF RequestPackage
<1>5. CASE Upload(u)
  <2>1. version' \in Versions
      BY <1>5, PackagingAssumption DEF Upload, Versions
  <2>2. process' \in [Users -> {"none", "pending", "launched", "read", "after", "finish", "failed", "thrown"}]
      BY <1>5 DEF Upload
  <2>3. overtaken' \subseteq JobIds'
      BY <1>5 DEF Upload
  <2>4. unseen' \subseteq Versions
      BY <1>5, <2>1 DEF Upload
  <2> QED
      BY <1>5, <2>1, <2>2, <2>3, <2>4 DEF Upload
<1>6. CASE AddMember(u)
    BY <1>6 DEF AddMember
<1>7. CASE RemoveMember(u)
    BY <1>7 DEF RemoveMember
<1> QED
    BY <1>2, <1>3, <1>4, <1>5, <1>6, <1>7 DEF Request

LEMMA CronTypes ==
    ASSUME TypeOK, ListObsolete \/ DeleteObsolete
    PROVE  TypeOK'
<1>1. 0 \in 0..MaxJobs
    BY PackagingAssumption
<1>2. CASE ListObsolete
    BY <1>1, <1>2 DEF ListObsolete, TypeOK, JobIds, Obsolete
<1>3. CASE DeleteObsolete
  <2>1. (\A k \in JobIds : jobs'[k] \in JobRow) /\ JobIds' = JobIds
      BY <1>3, DeleteRows DEF Cleans
  <2> QED
      BY <1>1, <1>3, <2>1 DEF DeleteObsolete, TypeOK, JobIds
<1> QED
    BY <1>2, <1>3

LEMMA TypesNext ==
    ASSUME TypeOK, [Next]_vars
    PROVE  TypeOK'
<1>1. CASE UNCHANGED vars
    BY <1>1 DEF TypeOK, JobIds
<1> QED
    BY <1>1, NextIsAStep, RunTypes, ProcessTypes, RequestTypes, CronTypes

LEMMA TypesInit ==
    ASSUME Init
    PROVE  TypeOK
<1>1. 1..0 = {} /\ DOMAIN jobs = {} /\ 0 \in 0..MaxJobs
    BY PackagingAssumption DEF Init
<1> QED
    BY <1>1, PackagingAssumption DEF Init, TypeOK, JobIds, Versions
-----------------------------------------------------------------------------
(* The details of the QGIS project file.                                   *)

Busy == {"launched", "read", "after", "finish", "thrown"}

\* The concurrency check lets one process job run at a time.
OneProcess ==
    \A u, w \in Users : process[u] \in Busy /\ process[w] \in Busy => u = w

\* A container that has read the files knows their version.
ReadsKnown ==
    \A u \in Users : process[u] \in {"read", "after", "finish"} => HasRead(u)

\* A run that has read what is no longer the last version is followed by
\* another one, unless the upload counted on this one.
Followed ==
    \A u \in Users :
        process[u] \in {"read", "after"} /\ processed[u] # version
        => version \in unseen \/ \E w \in Users : process[w] = "pending"

\* A process job that will save the details of the last version, or reset them.
Due(u) ==
    \/ process[u] \in {"pending", "launched", "failed", "thrown"}
    \/ process[u] \in {"read", "after"} /\ processed[u] = version

DetailsDue ==
    version = 0 \/ version \in unseen \/ details \in {version, None} \/ \E u \in Users : Due(u)

DetailsInv == OneProcess /\ ReadsKnown /\ Followed /\ DetailsDue

\* Steps that have nothing to do with process jobs.
LEMMA DetailsStutter ==
    ASSUME DetailsInv, UNCHANGED <<process, processed, version, details, unseen>>
    PROVE  DetailsInv'
BY DEF DetailsInv, OneProcess, ReadsKnown, HasRead, Followed, DetailsDue, Due

LEMMA DetailsRun ==
    ASSUME TypeOK, DetailsInv, NEW u \in Users, ProcessRun(u)
    PROVE  DetailsInv'
<1>0. UNCHANGED <<version, unseen>>
    BY DEF ProcessRun, StartProcess, DownloadForProcess, ProcessSucceeds, ProcessFails,
           ResetDetails, SaveDetails, FinishProcess
<1> USE DEF TypeOK
<1>1. CASE StartProcess(u)
  <2>1. /\ process' = [process EXCEPT ![u] = "launched"] /\ process[u] = "pending"
        /\ \A w \in Users : process[w] \in {"none", "pending", "failed"}
        /\ UNCHANGED <<processed, details>>
      BY <1>1 DEF StartProcess, GotoProcess, NothingStarted
  <2> QED
      BY <1>0, <2>1 DEF DetailsInv, OneProcess, ReadsKnown, HasRead, Followed, DetailsDue, Due, Busy
<1>2. CASE DownloadForProcess(u)
  <2>1. /\ process' = [process EXCEPT ![u] = "read"] /\ process[u] = "launched"
        /\ processed' = [processed EXCEPT ![u] = version] /\ UNCHANGED details
      BY <1>2 DEF DownloadForProcess, GotoProcess
  <2>2. version # None
      BY PackagingAssumption DEF Versions
  <2> QED
      BY <1>0, <2>1, <2>2 DEF DetailsInv, OneProcess, ReadsKnown, HasRead, Followed, DetailsDue, Due, Busy
<1>3. CASE ProcessSucceeds(u)
  <2>1. /\ process' = [process EXCEPT ![u] = "after"] /\ process[u] = "read"
        /\ UNCHANGED <<processed, details>>
      BY <1>3 DEF ProcessSucceeds, GotoProcess
  <2> QED
      BY <1>0, <2>1 DEF DetailsInv, OneProcess, ReadsKnown, HasRead, Followed, DetailsDue, Due, Busy
<1>4. CASE ProcessFails(u)
  <2>1. PICK to \in {"failed", "thrown"} : process' = [process EXCEPT ![u] = to]
      BY <1>4 DEF ProcessFails, GotoProcess
  <2>2. process[u] \in Busy /\ UNCHANGED <<processed, details>>
      BY <1>4 DEF ProcessFails, GotoProcess, Busy
  <2> QED
      BY <1>0, <2>1, <2>2 DEF DetailsInv, OneProcess, ReadsKnown, HasRead, Followed, DetailsDue, Due, Busy
<1>5. CASE ResetDetails(u)
  <2>1. /\ process' = [process EXCEPT ![u] = "none"] /\ process[u] \in {"failed", "thrown"}
        /\ processed' = [processed EXCEPT ![u] = None] /\ details' = None
      BY <1>5 DEF ResetDetails, GotoProcess
  <2> QED
      BY <1>0, <2>1 DEF DetailsInv, OneProcess, ReadsKnown, HasRead, Followed, DetailsDue, Due, Busy
<1>6. CASE SaveDetails(u)
  <2>1. /\ process' = [process EXCEPT ![u] = "finish"] /\ process[u] = "after"
        /\ details' = processed[u] /\ UNCHANGED processed
      BY <1>6 DEF SaveDetails, GotoProcess
  <2> QED
      BY <1>0, <2>1 DEF DetailsInv, OneProcess, ReadsKnown, HasRead, Followed, DetailsDue, Due, Busy
<1>7. CASE FinishProcess(u)
  <2>1. /\ process' = [process EXCEPT ![u] = "none"] /\ process[u] = "finish"
        /\ processed' = [processed EXCEPT ![u] = None] /\ UNCHANGED details
      BY <1>7 DEF FinishProcess, GotoProcess
  <2> QED
      BY <1>0, <2>1 DEF DetailsInv, OneProcess, ReadsKnown, HasRead, Followed, DetailsDue, Due, Busy
<1> QED
    BY <1>1, <1>2, <1>3, <1>4, <1>5, <1>6, <1>7 DEF ProcessRun

\* An upload makes a job that is due, or finds one that has not read the files
\* yet, or is in unseen.
LEMMA DetailsUpload ==
    ASSUME TypeOK, DetailsInv, NEW u \in Users, Upload(u)
    PROVE  DetailsInv'
<1> USE DEF TypeOK
<1>1. UNCHANGED <<processed, details>> /\ version' = version + 1 /\ process[u] # "failed"
    BY DEF Upload
<1>2. CASE process[u] = "none"
  <2>1. process' = [process EXCEPT ![u] = "pending"] /\ unseen' = unseen
      BY <1>2 DEF Upload, ProcessActive
  <2> QED
      BY <1>1, <1>2, <2>1 DEF DetailsInv, OneProcess, ReadsKnown, HasRead, Followed, DetailsDue, Due, Busy
<1>3. CASE process[u] # "none"
  <2>1. process' = process
      BY <1>1, <1>3 DEF Upload, ProcessActive
  <2>2. CASE HasRead(u)
    <3>1. version' \in unseen'
        BY <1>1, <1>3, <2>2 DEF Upload
    <3> QED
        BY <1>1, <2>1, <3>1 DEF DetailsInv, OneProcess, ReadsKnown, HasRead, Followed, DetailsDue, Due, Busy
  <2>3. CASE ~HasRead(u)
    <3>1. process[u] \in {"pending", "launched", "thrown"}
        BY <1>1, <1>3, <2>3 DEF DetailsInv, ReadsKnown
    <3>2. \A w \in Users : process[w] \in {"read", "after"} => process[u] = "pending"
        BY <3>1 DEF DetailsInv, OneProcess, Busy
    <3> QED
        BY <1>1, <2>1, <3>1, <3>2 DEF DetailsInv, OneProcess, ReadsKnown, HasRead, Followed, DetailsDue, Due
  <2> QED
      BY <2>2, <2>3
<1> QED
    BY <1>2, <1>3

LEMMA DetailsNext ==
    ASSUME TypeOK, DetailsInv, [Next]_vars
    PROVE  DetailsInv'
<1>1. ASSUME NEW j \in JobIds, PackageRun(j)
      PROVE  UNCHANGED <<process, processed, version, details, unseen>>
    BY <1>1 DEF PackageRun, Start, Download, UploadPackageFile, ContainerSucceeds, ContainerFails,
                Throw, SaveFailure, SavePackagedAt, CleanUp, Finish, GiveUp
<1>2. ASSUME NEW u \in Users, Request(u), ~Upload(u)
      PROVE  UNCHANGED <<process, processed, version, details, unseen>>
    BY <1>2 DEF Request, RequestPackage, CreatePackage, ForcePackage, AddMember, RemoveMember
<1>3. ASSUME ListObsolete \/ DeleteObsolete \/ UNCHANGED vars
      PROVE  UNCHANGED <<process, processed, version, details, unseen>>
    BY <1>3 DEF ListObsolete, DeleteObsolete
<1> QED
    BY <1>1, <1>2, <1>3, NextIsAStep, DetailsStutter, DetailsRun, DetailsUpload

\* When no process job is left to run, the details are those of the files as
\* they are or were reset, but for uploads during a run of the same user that
\* had read the files.
THEOREM DetailsCurrentAlways == Spec => []DetailsCurrent
<1>1. Init => TypeOK /\ DetailsInv
    BY TypesInit DEF Init, DetailsInv, OneProcess, ReadsKnown, Followed, DetailsDue, Busy
<1>2. TypeOK /\ DetailsInv /\ [Next]_vars => (TypeOK /\ DetailsInv)'
    BY TypesNext, DetailsNext
<1>3. TypeOK /\ DetailsInv => DetailsCurrent
    BY DEF DetailsInv, DetailsDue, Due, DetailsCurrent
<1> QED
    BY <1>1, <1>2, <1>3, PTL DEF Spec

-----------------------------------------------------------------------------
(* The latest job of a user.                                               *)

\* A set of jobs has a last one.
LEMMA NewestExists ==
    ASSUME TypeOK, NEW J, J \subseteq JobIds, J # {}
    PROVE  /\ NewestOf(J) \in J /\ NewestOf(J) # None
           /\ \A k \in J : k <= NewestOf(J)
<1>1. PICK n \in Nat : JobIds = 1..n
    BY JobsCounted
<1> DEFINE Above == {n - k : k \in J}
           R == {z \in Nat \X Nat : z[1] < z[2]}
<1>2. J \subseteq 1..n
    BY <1>1
<1>3. IsWellFoundedOn(R, Nat)
    BY NatLessThanWellFounded DEF OpToRel
<1>4. Above # {} /\ Above \subseteq Nat
  <2>1. ASSUME NEW k \in J
        PROVE  n - k \in Nat
    <3>1. k \in 1..n
        BY <1>2
    <3> QED
        BY <3>1
  <2> QED
      BY <2>1
<1> HIDE DEF R
<1>5. PICK m \in Above : \A x \in Above : ~(<<x, m>> \in R)
    BY <1>3, <1>4, WFMin
<1>6. PICK k \in J : m = n - k /\ \A i \in J : i <= k
  <2>1. PICK k \in J : m = n - k
      OBVIOUS
  <2>2. ASSUME NEW i \in J
        PROVE  i <= k
    <3>1. <<n - i, m>> \in Nat \X Nat /\ ~(<<n - i, m>> \in R)
        BY <1>4, <1>5
    <3>2. ~(<<n - i, m>>[1] < <<n - i, m>>[2])
        BY <3>1 DEF R
    <3> QED
        BY <1>2, <2>1, <3>2
  <2> QED
      BY <2>1, <2>2
<1>7. \E x \in J : \A y \in J : x >= y
    BY <1>2, <1>6
<1>8. Max(J) \in J /\ \A y \in J : Max(J) >= y
    BY <1>7 DEF Max
<1> QED
  <2>1. Max(J) \in 1..n
      BY <1>2, <1>8
  <2>2. Max(J) # None /\ \A y \in J : y <= Max(J)
      BY <1>2, <1>8, <2>1, PackagingAssumption
  <2> QED
      BY <1>8, <2>2 DEF NewestOf

\* A newer job takes the place of j, or the user it was made for has left.
Replaced(j) ==
    \/ \E k \in JobIds : jobs[k].by = jobs[j].by /\ k > j
    \/ jobs[j].by \in left

LEMMA ReplacedIsNotLatest ==
    ASSUME TypeOK, NEW j \in JobIds, j # LatestOf(jobs[j].by)
    PROVE  Replaced(j)
<1> DEFINE J == {k \in JobIds : jobs[k].by = jobs[j].by}
<1>1. j \in J /\ J \subseteq JobIds
    OBVIOUS
<1>2. NewestOf(J) \in J /\ \A k \in J : k <= NewestOf(J)
    BY <1>1, NewestExists
<1>3. NewestOf(J) # j
    BY DEF LatestOf
<1>4. PICK n \in Nat : JobIds = 1..n
    BY JobsCounted
<1> QED
    BY <1>1, <1>2, <1>3, <1>4 DEF Replaced

LEMMA LatestIsNotReplaced ==
    ASSUME TypeOK, NEW j \in JobIds, j = LatestOf(jobs[j].by), Replaced(j)
    PROVE  jobs[j].by \in left
<1> DEFINE J == {k \in JobIds : jobs[k].by = jobs[j].by}
<1>1. j \in J /\ J \subseteq JobIds
    OBVIOUS
<1>2. \A k \in J : k <= NewestOf(J)
    BY <1>1, NewestExists
<1>3. \A k \in J : k <= j
    BY <1>2 DEF LatestOf
<1>4. PICK n \in Nat : JobIds = 1..n
    BY JobsCounted
<1> QED
    BY <1>3, <1>4 DEF Replaced

-----------------------------------------------------------------------------
(* What a step keeps of the rows.                                          *)

\* Rows are never deleted, change no hands and are not taken up again.
Keeps(j) ==
    /\ j \in JobIds'
    /\ jobs'[j].by = jobs[j].by
    /\ ~IsActive(j) => jobs'[j].status \notin ActiveStatus

LEMMA RunKeeps ==
    ASSUME TypeOK, NEW j \in JobIds, PackageRun(j), NEW k \in JobIds
    PROVE  Keeps(k)
<1>1. CASE CleanUp(j)
    BY <1>1, CleanUpRows DEF Keeps, Cleans, IsActive
<1>2. CASE ~CleanUp(j) /\ k # j
    BY <1>2, RunRows DEF PackageRun, Becomes, Keeps, IsActive
<1>3. CASE ~CleanUp(j) /\ k = j
  <2>1. jobs[j] \in JobRow /\ (Start(j) => jobs[j].status = "pending")
      BY DEF TypeOK, Start
  <2> USE DEF Keeps, IsActive, JobRow, ActiveStatus
  <2>2. CASE Start(j)
    <3>1. Writes(j, "started", jobs[j].finished_at, jobs[j].files, "launched", jobs[j].read)
        BY <2>2, RunWrites
    <3> QED
        BY <1>3, <2>1, <2>2, <3>1 DEF Writes
  <2>3. CASE Download(j)
    <3>1. Writes(j, jobs[j].status, jobs[j].finished_at, jobs[j].files, "read", version)
        BY <2>3, RunWrites
    <3> QED
        BY <1>3, <2>1, <2>3, <3>1 DEF Writes
  <2>4. CASE UploadPackageFile(j)
    <3>1. Writes(j, jobs[j].status, jobs[j].finished_at,
                  IF jobs[j].files = "none" THEN "some" ELSE "all", jobs[j].run, jobs[j].read)
        BY <2>4, RunWrites
    <3> QED
        BY <1>3, <2>1, <2>4, <3>1 DEF Writes
  <2>5. CASE ContainerSucceeds(j)
    <3>1. Writes(j, jobs[j].status, jobs[j].finished_at, jobs[j].files, "after", jobs[j].read)
        BY <2>5, RunWrites
    <3> QED
        BY <1>3, <2>1, <2>5, <3>1 DEF Writes
  <2>6. CASE ContainerFails(j)
    <3>1. Writes(j, "failed", jobs[j].finished_at, jobs[j].files, "idle", None)
        BY <2>6, RunWrites
    <3> QED
        BY <1>3, <2>1, <2>6, <3>1 DEF Writes
  <2>7. CASE Throw(j)
    <3>1. Writes(j, jobs[j].status, jobs[j].finished_at, jobs[j].files, "thrown", jobs[j].read)
        BY <2>7, RunWrites
    <3> QED
        BY <1>3, <2>1, <2>7, <3>1 DEF Writes
  <2>8. CASE SaveFailure(j)
    <3>1. Writes(j, "failed", version, jobs[j].files, "idle", None)
        BY <2>8, RunWrites
    <3> QED
        BY <1>3, <2>1, <2>8, <3>1 DEF Writes
  <2>9. CASE SavePackagedAt(j)
    <3>1. Writes(j, jobs[j].status, jobs[j].finished_at, jobs[j].files, "clean", jobs[j].read)
        BY <2>9, RunWrites
    <3> QED
        BY <1>3, <2>1, <2>9, <3>1 DEF Writes
  <2>10. CASE Finish(j)
    <3>1. Writes(j, "finished", version, jobs[j].files, "idle", jobs[j].read)
        BY <2>10, RunWrites
    <3> QED
        BY <1>3, <2>1, <2>10, <3>1 DEF Writes
  <2>11. CASE GiveUp(j)
    <3>1. Writes(j, "failed", version, jobs[j].files, jobs[j].run, jobs[j].read)
        BY <2>11, RunWrites
    <3> QED
        BY <1>3, <2>1, <2>11, <3>1 DEF Writes
  <2> QED
      BY <1>3, <2>2, <2>3, <2>4, <2>5, <2>6, <2>7, <2>8, <2>9, <2>10, <2>11 DEF PackageRun
<1> QED
    BY <1>1, <1>2, <1>3

LEMMA CreateKeeps ==
    ASSUME TypeOK, NEW u \in Users, NEW forced \in BOOLEAN, CreateJob(u, forced), NEW k \in JobIds
    PROVE  Keeps(k) /\ jobs'[k] = jobs[k]
<1>1. PICK n \in Nat :
             /\ JobIds = 1..n /\ JobIds' = 1..n + 1
             /\ \A i \in JobIds : jobs'[i] = jobs[i]
    BY NewRow
<1>2. \A i \in 1..n : i \in 1..n + 1
    OBVIOUS
<1> QED
    BY <1>1, <1>2 DEF Keeps, IsActive

LEMMA StepKeeps ==
    ASSUME TypeOK, [Next]_vars
    PROVE  /\ left \subseteq left'
           /\ \A k \in JobIds : Keeps(k)
<1>1. ASSUME NEW j \in JobIds, PackageRun(j)
      PROVE  left \subseteq left'
    BY <1>1 DEF PackageRun, Start, Download, UploadPackageFile, ContainerSucceeds, ContainerFails,
                Throw, SaveFailure, SavePackagedAt, CleanUp, Finish, GiveUp
<1>2. ASSUME NEW u \in Users, ProcessRun(u)
      PROVE  left' = left /\ jobs' = jobs
    BY <1>2 DEF ProcessRun, StartProcess, DownloadForProcess, ProcessSucceeds, ProcessFails,
                ResetDetails, SaveDetails, FinishProcess
<1>3. ASSUME NEW u \in Users, Request(u)
      PROVE  left \subseteq left' /\ \A k \in JobIds : Keeps(k)
  <2>1. left \subseteq left'
      BY <1>3 DEF Request, RequestPackage, CreatePackage, ForcePackage, Upload, AddMember, RemoveMember
  <2>2. CASE CreatePackage(u)
      BY <2>1, <2>2, CreateKeeps DEF CreatePackage
  <2>3. CASE ForcePackage(u)
      BY <2>1, <2>3, CreateKeeps DEF ForcePackage
  <2>4. CASE RequestPackage(u) \/ Upload(u) \/ AddMember(u) \/ RemoveMember(u)
      BY <2>1, <2>4 DEF RequestPackage, Upload, AddMember, RemoveMember, Keeps, JobIds, IsActive
  <2> QED
      BY <1>3, <2>2, <2>3, <2>4 DEF Request
<1>4. CASE ListObsolete \/ UNCHANGED vars
    BY <1>4 DEF ListObsolete, Keeps, JobIds, IsActive
<1>5. CASE DeleteObsolete
    BY <1>5, DeleteRows DEF DeleteObsolete, Cleans, Keeps, IsActive
<1>6. CASE \E j \in JobIds : PackageRun(j)
    BY <1>1, <1>6, RunKeeps
<1>7. CASE \E u \in Users : ProcessRun(u)
    BY <1>2, <1>7 DEF Keeps, JobIds, IsActive
<1> QED
    BY <1>3, <1>4, <1>5, <1>6, <1>7, NextIsAStep

\* A job that was replaced stays so.
LEMMA ReplacedStays ==
    ASSUME TypeOK, [Next]_vars
    PROVE  \A j \in JobIds : Replaced(j) => Replaced(j)'
BY StepKeeps DEF Replaced, Keeps

-----------------------------------------------------------------------------
(* The files of packages.                                                  *)

\* Who has a job is a member or was one.
ByMembers ==
    /\ members \cap left = {}
    /\ creating \subseteq members \cup left
    /\ \A j \in JobIds : jobs[j].by \in members \cup left

\* A cleaner lists jobs that are over and replaced.
Listed ==
    \A c \in 0..MaxJobs : \A j \in doomed[c] : ~IsActive(j) /\ Replaced(j)

\* A run and its row.  What it has read is what is there when it finishes, but
\* for uploads that overtook it.
RowAgrees(j) ==
    /\ jobs[j].status = "pending" => jobs[j].run = "idle" /\ jobs[j].read = None
    /\ jobs[j].status = "finished" => jobs[j].run = "idle" /\ jobs[j].finished_at # None
    /\ jobs[j].run \in {"read", "after", "clean", "finish"} \/ jobs[j].status = "finished"
       => jobs[j].read # None
    /\ jobs[j].finished_at # None => jobs[j].finished_at <= version
    /\ jobs[j].run # "idle" /\ jobs[j].read # None /\ j \notin overtaken => jobs[j].read = version
    /\ jobs[j].status = "finished" /\ j \notin overtaken => jobs[j].read = jobs[j].finished_at

RunAgrees == \A j \in JobIds : RowAgrees(j)

\* A job whose container has succeeded has all of its files until it is replaced.
RowWhole(j) ==
    jobs[j].run \in {"after", "clean", "finish"} \/ jobs[j].status = "finished"
    => jobs[j].files = "all" \/ Replaced(j)

WholeUntilReplaced == \A j \in JobIds : RowWhole(j)

FilesInv == ByMembers /\ Listed /\ RunAgrees /\ WholeUntilReplaced

LEMMA ByMembersNext ==
    ASSUME TypeOK, ByMembers, [Next]_vars
    PROVE  ByMembers'
<1>0. \A k \in JobIds : jobs'[k].by = jobs[k].by
    BY StepKeeps DEF Keeps
<1>1. ASSUME NEW j \in JobIds, PackageRun(j)
      PROVE  ByMembers'
  <2>1. UNCHANGED <<members, left, creating>>
      BY <1>1 DEF PackageRun, Start, Download, UploadPackageFile, ContainerSucceeds, ContainerFails,
                Throw, SaveFailure, SavePackagedAt, CleanUp, Finish, GiveUp
  <2>2. JobIds' = JobIds
      BY <1>1, RunRows, CleanUpRows DEF PackageRun, Becomes, Cleans
  <2> QED
      BY <1>0, <2>1, <2>2 DEF ByMembers
<1>2. ASSUME NEW u \in Users, ProcessRun(u)
      PROVE  ByMembers'
    BY <1>2 DEF ProcessRun, StartProcess, DownloadForProcess, ProcessSucceeds, ProcessFails,
                ResetDetails, SaveDetails, FinishProcess, ByMembers, JobIds
<1>3. ASSUME NEW u \in Users, NEW forced \in BOOLEAN, CreateJob(u, forced), u \in members \cup left,
             UNCHANGED <<members, left>>, creating' \subseteq creating
      PROVE  ByMembers'
  <2>1. PICK n \in Nat :
             /\ JobIds = 1..n /\ JobIds' = 1..n + 1
             /\ jobs'[n + 1] =
                  [by |-> u, forced |-> forced, status |-> "pending",
                   finished_at |-> None, files |-> "none", run |-> "idle", read |-> None]
      BY <1>3, NewRow
  <2>2. \A k \in 1..n + 1 : k \in 1..n \/ k = n + 1
      OBVIOUS
  <2> QED
      BY <1>0, <1>3, <2>1, <2>2 DEF ByMembers
<1>4. ASSUME NEW u \in Users, Request(u)
      PROVE  ByMembers'
  <2>1. CASE CreatePackage(u)
      BY <1>3, <2>1 DEF CreatePackage, ByMembers
  <2>2. CASE ForcePackage(u)
      BY <1>3, <2>2 DEF ForcePackage, ByMembers
  <2>3. CASE RequestPackage(u) \/ Upload(u) \/ AddMember(u) \/ RemoveMember(u)
      BY <2>3 DEF RequestPackage, Upload, AddMember, RemoveMember, ByMembers, JobIds
  <2> QED
      BY <1>4, <2>1, <2>2, <2>3 DEF Request
<1>5. CASE ListObsolete \/ UNCHANGED vars
    BY <1>5 DEF ListObsolete, ByMembers, JobIds
<1>6. CASE DeleteObsolete
    BY <1>0, <1>6, DeleteRows DEF DeleteObsolete, Cleans, ByMembers
<1> QED
    BY <1>1, <1>2, <1>4, <1>5, <1>6, NextIsAStep

\* What a cleaner lists now is over and replaced.
LEMMA ObsoleteIsReplaced ==
    ASSUME TypeOK, ByMembers, NEW j \in Obsolete
    PROVE  j \in JobIds /\ ~IsActive(j) /\ Replaced(j)
<1>1. j \in JobIds /\ ~IsActive(j) /\ j \notin LatestPackageJobs
    BY DEF Obsolete
<1>2. CASE jobs[j].by \in left
    BY <1>1, <1>2 DEF Replaced
<1>3. CASE jobs[j].by \notin left
  <2>1. jobs[j].by \in members /\ jobs[j].by \in Users
      BY <1>1, <1>3 DEF ByMembers, TypeOK
  <2>2. LatestOf(jobs[j].by) # None
      BY <1>1, NewestExists DEF LatestOf
  <2>3. LatestOf(jobs[j].by) \in LatestPackageJobs
      BY <2>1, <2>2 DEF LatestPackageJobs
  <2> QED
      BY <1>1, <2>3, ReplacedIsNotLatest
<1> QED
    BY <1>2, <1>3

LEMMA ListedNext ==
    ASSUME TypeOK, ByMembers, Listed, [Next]_vars
    PROVE  Listed'
<1>1. ASSUME NEW k \in JobIds, ~IsActive(k), Replaced(k)
      PROVE  ~IsActive(k)' /\ Replaced(k)'
    BY <1>1, StepKeeps, ReplacedStays DEF Keeps, IsActive
<1>2. \A c \in 0..MaxJobs : doomed'[c] \subseteq doomed[c] \cup Obsolete
  <2>0. \A j \in JobIds : j \in 0..MaxJobs
      BY JobsCounted, PackagingAssumption
  <2> USE DEF TypeOK
  <2>1. ASSUME NEW j \in JobIds, PackageRun(j)
        PROVE  \/ doomed' = doomed
               \/ doomed' = [doomed EXCEPT ![j] = {}]
               \/ doomed' = [doomed EXCEPT ![j] = Obsolete]
      BY <2>1 DEF PackageRun, Start, Download, UploadPackageFile, ContainerSucceeds, ContainerFails,
                Throw, SaveFailure, SavePackagedAt, CleanUp, Finish, GiveUp
  <2>2. ASSUME NEW u \in Users, ProcessRun(u)
        PROVE  doomed' = doomed
      BY <2>2 DEF ProcessRun, StartProcess, DownloadForProcess, ProcessSucceeds, ProcessFails,
                ResetDetails, SaveDetails, FinishProcess
  <2>3. ASSUME NEW u \in Users, Request(u)
        PROVE  doomed' = doomed
      BY <2>3 DEF Request, RequestPackage, CreatePackage, ForcePackage, Upload, AddMember, RemoveMember
  <2>4. CASE ListObsolete \/ DeleteObsolete \/ UNCHANGED vars
      BY <2>4 DEF ListObsolete, DeleteObsolete
  <2>5. CASE \E j \in JobIds : PackageRun(j)
      BY <2>0, <2>1, <2>5
  <2> QED
      BY <2>2, <2>3, <2>4, <2>5, NextIsAStep
<1>3. ASSUME NEW c \in 0..MaxJobs, NEW k \in doomed'[c]
      PROVE  k \in JobIds /\ ~IsActive(k) /\ Replaced(k)
  <2>1. CASE k \in doomed[c]
      BY <2>1 DEF TypeOK, Listed
  <2>2. CASE k \in Obsolete
      BY <2>2, ObsoleteIsReplaced
  <2> QED
      BY <1>2, <2>1, <2>2
<1> QED
    BY <1>1, <1>3 DEF Listed

\* Rows that a step does not write agree as before, and so do their files.
LEMMA RowStutter ==
    ASSUME NEW j \in JobIds, RowAgrees(j), jobs'[j] = jobs[j], UNCHANGED <<version, overtaken>>
    PROVE  RowAgrees(j)'
BY DEF RowAgrees

LEMMA WholeStutter ==
    ASSUME TypeOK, [Next]_vars, NEW j \in JobIds, RowWhole(j), jobs'[j] = jobs[j]
    PROVE  RowWhole(j)'
BY ReplacedStays DEF RowWhole

\* A step of a run leaves its row in agreement.
LEMMA RunRowAgrees ==
    ASSUME TypeOK, NEW j \in JobIds, PackageRun(j), ~CleanUp(j), RowAgrees(j)
    PROVE  RowAgrees(j)'
<1>1. jobs[j] \in JobRow /\ version \in Nat /\ None \notin Nat
    BY PackagingAssumption DEF TypeOK, Versions
<1>2. UNCHANGED <<version, overtaken>>
    BY DEF PackageRun, Start, Download, UploadPackageFile, ContainerSucceeds, ContainerFails,
           Throw, SaveFailure, SavePackagedAt, Finish, GiveUp
<1> USE DEF RowAgrees, JobRow, ActiveStatus
<1>3. CASE Start(j)
  <2>1. Writes(j, "started", jobs[j].finished_at, jobs[j].files, "launched", jobs[j].read)
      BY <1>3, RunWrites
  <2> QED
      BY <1>1, <1>2, <1>3, <2>1 DEF Writes, Start
<1>4. CASE Download(j)
  <2>1. Writes(j, jobs[j].status, jobs[j].finished_at, jobs[j].files, "read", version)
      BY <1>4, RunWrites
  <2> QED
      BY <1>1, <1>2, <1>4, <2>1 DEF Writes, Download
<1>5. CASE UploadPackageFile(j)
  <2>1. Writes(j, jobs[j].status, jobs[j].finished_at,
                  IF jobs[j].files = "none" THEN "some" ELSE "all", jobs[j].run, jobs[j].read)
      BY <1>5, RunWrites
  <2> QED
      BY <1>1, <1>2, <1>5, <2>1 DEF Writes, UploadPackageFile
<1>6. CASE ContainerSucceeds(j)
  <2>1. Writes(j, jobs[j].status, jobs[j].finished_at, jobs[j].files, "after", jobs[j].read)
      BY <1>6, RunWrites
  <2> QED
      BY <1>1, <1>2, <1>6, <2>1 DEF Writes, ContainerSucceeds
<1>7. CASE ContainerFails(j)
  <2>1. Writes(j, "failed", jobs[j].finished_at, jobs[j].files, "idle", None)
      BY <1>7, RunWrites
  <2> QED
      BY <1>1, <1>2, <1>7, <2>1 DEF Writes, ContainerFails
<1>8. CASE Throw(j)
  <2>1. Writes(j, jobs[j].status, jobs[j].finished_at, jobs[j].files, "thrown", jobs[j].read)
      BY <1>8, RunWrites
  <2> QED
      BY <1>1, <1>2, <1>8, <2>1 DEF Writes, Throw
<1>9. CASE SaveFailure(j)
  <2>1. Writes(j, "failed", version, jobs[j].files, "idle", None)
      BY <1>9, RunWrites
  <2> QED
      BY <1>1, <1>2, <1>9, <2>1 DEF Writes, SaveFailure
<1>10. CASE SavePackagedAt(j)
  <2>1. Writes(j, jobs[j].status, jobs[j].finished_at, jobs[j].files, "clean", jobs[j].read)
      BY <1>10, RunWrites
  <2> QED
      BY <1>1, <1>2, <1>10, <2>1 DEF Writes, SavePackagedAt
<1>11. CASE Finish(j)
  <2>1. Writes(j, "finished", version, jobs[j].files, "idle", jobs[j].read)
      BY <1>11, RunWrites
  <2> QED
      BY <1>1, <1>2, <1>11, <2>1 DEF Writes, Finish
<1>12. CASE GiveUp(j)
  <2>1. Writes(j, "failed", version, jobs[j].files, jobs[j].run, jobs[j].read)
      BY <1>12, RunWrites
  <2> QED
      BY <1>1, <1>2, <1>12, <2>1 DEF Writes, GiveUp
<1> QED
    BY <1>3, <1>4, <1>5, <1>6, <1>7, <1>8, <1>9, <1>10, <1>11, <1>12 DEF PackageRun

LEMMA RunRowWhole ==
    ASSUME TypeOK, [Next]_vars, NEW j \in JobIds, PackageRun(j), ~CleanUp(j), RowWhole(j)
    PROVE  RowWhole(j)'
<1>1. jobs[j] \in JobRow
    BY DEF TypeOK
<1>2. Replaced(j) => Replaced(j)'
    BY ReplacedStays
<1> USE DEF RowWhole, JobRow, ActiveStatus
<1>3. CASE Start(j)
  <2>1. Writes(j, "started", jobs[j].finished_at, jobs[j].files, "launched", jobs[j].read)
      BY <1>3, RunWrites
  <2> QED
      BY <1>1, <1>2, <1>3, <2>1 DEF Writes, Start
<1>4. CASE Download(j)
  <2>1. Writes(j, jobs[j].status, jobs[j].finished_at, jobs[j].files, "read", version)
      BY <1>4, RunWrites
  <2> QED
      BY <1>1, <1>2, <1>4, <2>1 DEF Writes, Download
<1>5. CASE UploadPackageFile(j)
  <2>1. Writes(j, jobs[j].status, jobs[j].finished_at,
                  IF jobs[j].files = "none" THEN "some" ELSE "all", jobs[j].run, jobs[j].read)
      BY <1>5, RunWrites
  <2> QED
      BY <1>1, <1>2, <1>5, <2>1 DEF Writes, UploadPackageFile
<1>6. CASE ContainerSucceeds(j)
  <2>1. Writes(j, jobs[j].status, jobs[j].finished_at, jobs[j].files, "after", jobs[j].read)
      BY <1>6, RunWrites
  <2> QED
      BY <1>1, <1>2, <1>6, <2>1 DEF Writes, ContainerSucceeds
<1>7. CASE ContainerFails(j)
  <2>1. Writes(j, "failed", jobs[j].finished_at, jobs[j].files, "idle", None)
      BY <1>7, RunWrites
  <2> QED
      BY <1>1, <1>2, <1>7, <2>1 DEF Writes, ContainerFails
<1>8. CASE Throw(j)
  <2>1. Writes(j, jobs[j].status, jobs[j].finished_at, jobs[j].files, "thrown", jobs[j].read)
      BY <1>8, RunWrites
  <2> QED
      BY <1>1, <1>2, <1>8, <2>1 DEF Writes, Throw
<1>9. CASE SaveFailure(j)
  <2>1. Writes(j, "failed", version, jobs[j].files, "idle", None)
      BY <1>9, RunWrites
  <2> QED
      BY <1>1, <1>2, <1>9, <2>1 DEF Writes, SaveFailure
<1>10. CASE SavePackagedAt(j)
  <2>1. Writes(j, jobs[j].status, jobs[j].finished_at, jobs[j].files, "clean", jobs[j].read)
      BY <1>10, RunWrites
  <2> QED
      BY <1>1, <1>2, <1>10, <2>1 DEF Writes, SavePackagedAt
<1>11. CASE Finish(j)
  <2>1. Writes(j, "finished", version, jobs[j].files, "idle", jobs[j].read)
      BY <1>11, RunWrites
  <2> QED
      BY <1>1, <1>2, <1>11, <2>1 DEF Writes, Finish
<1>12. CASE GiveUp(j)
  <2>1. Writes(j, "failed", version, jobs[j].files, jobs[j].run, jobs[j].read)
      BY <1>12, RunWrites
  <2> QED
      BY <1>1, <1>2, <1>12, <2>1 DEF Writes, GiveUp
<1> QED
    BY <1>3, <1>4, <1>5, <1>6, <1>7, <1>8, <1>9, <1>10, <1>11, <1>12 DEF PackageRun

\* Files are deleted of jobs that are over and were replaced.
LEMMA CleanRows ==
    ASSUME TypeOK, FilesInv, [Next]_vars, NEW j \in JobIds, CleanUp(j), NEW k \in JobIds
    PROVE  RowAgrees(k)' /\ RowWhole(k)'
<1> USE DEF FilesInv
<1>1. /\ k \in doomed[j] => jobs'[k].files = "none"
      /\ k \notin doomed[j] => jobs'[k].files = jobs[k].files
      /\ jobs'[k].status = jobs[k].status /\ jobs'[k].finished_at = jobs[k].finished_at
      /\ jobs'[k].read = jobs[k].read
      /\ jobs'[k].run = IF k = j THEN "finish" ELSE jobs[k].run
      /\ jobs[j].run = "clean"
    BY CleanUpRows DEF Cleans
<1>2. j \in 0..MaxJobs
    BY JobsCounted, PackagingAssumption
<1>3. k \in doomed[j] => Replaced(k)
    BY <1>2 DEF Listed
<1>4. Replaced(k) => Replaced(k)'
    BY ReplacedStays
<1>5. UNCHANGED <<version, overtaken>>
    BY DEF CleanUp
<1>6. jobs[k].status \in {"pending", "started", "finished", "failed"}
    BY DEF TypeOK, JobRow, ActiveStatus
<1>7. RowAgrees(k) /\ RowAgrees(j) /\ RowWhole(k)
    BY DEF RunAgrees, WholeUntilReplaced
<1>8. RowAgrees(k)'
    BY <1>1, <1>5, <1>6, <1>7 DEF RowAgrees
<1>9. RowWhole(k)'
    BY <1>1, <1>3, <1>4, <1>7 DEF RowWhole
<1> QED
    BY <1>8, <1>9

LEMMA DeletedRows ==
    ASSUME TypeOK, FilesInv, [Next]_vars, DeleteObsolete, NEW k \in JobIds
    PROVE  RowAgrees(k)' /\ RowWhole(k)'
<1> USE DEF FilesInv
<1>1. /\ k \in doomed[0] => jobs'[k].files = "none"
      /\ k \notin doomed[0] => jobs'[k].files = jobs[k].files
      /\ jobs'[k].status = jobs[k].status /\ jobs'[k].finished_at = jobs[k].finished_at
      /\ jobs'[k].read = jobs[k].read /\ jobs'[k].run = jobs[k].run
    BY DeleteRows DEF Cleans
<1>2. k \in doomed[0] => Replaced(k)
    BY PackagingAssumption DEF Listed
<1>3. Replaced(k) => Replaced(k)'
    BY ReplacedStays
<1>4. UNCHANGED <<version, overtaken>>
    BY DEF DeleteObsolete
<1>5. RowAgrees(k) /\ RowWhole(k)
    BY DEF RunAgrees, WholeUntilReplaced
<1>6. RowAgrees(k)'
    BY <1>1, <1>4, <1>5 DEF RowAgrees
<1>7. RowWhole(k)'
    BY <1>1, <1>2, <1>3, <1>5 DEF RowWhole
<1> QED
    BY <1>6, <1>7

\* The runs that an upload overtakes are remembered.
LEMMA UploadRows ==
    ASSUME TypeOK, FilesInv, NEW u \in Users, Upload(u), NEW k \in JobIds
    PROVE  RowAgrees(k)'
<1>1. jobs[k] \in JobRow /\ version \in Nat /\ version' = version + 1 /\ jobs' = jobs
    BY PackagingAssumption DEF TypeOK, Versions, Upload
<1>2. /\ overtaken \subseteq overtaken'
      /\ jobs[k].run # "idle" /\ jobs[k].read # None => k \in overtaken'
    BY DEF Upload
<1>3. RowAgrees(k) /\ (jobs[k].finished_at # None => jobs[k].finished_at \in Nat)
    BY <1>1, PackagingAssumption DEF FilesInv, RunAgrees, JobRow, Versions
<1>4. jobs[k].finished_at # None => jobs[k].finished_at <= version'
    BY <1>1, <1>3 DEF RowAgrees
<1> QED
    BY <1>1, <1>2, <1>3, <1>4 DEF RowAgrees

LEMMA NewRows ==
    ASSUME TypeOK, FilesInv, [Next]_vars, NEW u \in Users, NEW forced \in BOOLEAN,
           CreateJob(u, forced), UNCHANGED <<version, overtaken>>, NEW k \in JobIds'
    PROVE  RowAgrees(k)' /\ RowWhole(k)'
<1>1. PICK n \in Nat :
             /\ JobIds = 1..n /\ JobIds' = 1..n + 1
             /\ jobs'[n + 1] =
                  [by |-> u, forced |-> forced, status |-> "pending",
                   finished_at |-> None, files |-> "none", run |-> "idle", read |-> None]
    BY NewRow
<1>2. \A i \in 1..n + 1 : i \in 1..n \/ i = n + 1
    OBVIOUS
<1>3. CASE k \in JobIds
    BY <1>3, CreateKeeps, RowStutter, WholeStutter DEF FilesInv, RunAgrees, WholeUntilReplaced
<1>4. CASE k = n + 1
    BY <1>1, <1>4 DEF RowAgrees, RowWhole
<1> QED
    BY <1>1, <1>2, <1>3, <1>4

LEMMA RowsNext ==
    ASSUME TypeOK, FilesInv, [Next]_vars
    PROVE  RunAgrees' /\ WholeUntilReplaced'
<1> SUFFICES ASSUME NEW k \in JobIds'
             PROVE  RowAgrees(k)' /\ RowWhole(k)'
    BY DEF RunAgrees, WholeUntilReplaced
<1>0. k \in JobIds => RowAgrees(k) /\ RowWhole(k)
    BY DEF FilesInv, RunAgrees, WholeUntilReplaced
<1>1. CASE jobs' = jobs /\ UNCHANGED <<version, overtaken>>
    BY <1>0, <1>1, RowStutter, WholeStutter DEF JobIds
<1>2. ASSUME NEW j \in JobIds, PackageRun(j)
      PROVE  RowAgrees(k)' /\ RowWhole(k)'
  <2>1. JobIds' = JobIds /\ UNCHANGED <<version, overtaken>>
    <3>1. JobIds' = JobIds
        BY <1>2, RunRows, CleanUpRows DEF PackageRun, Becomes, Cleans
    <3>2. UNCHANGED <<version, overtaken>>
        BY <1>2 DEF PackageRun, Start, Download, UploadPackageFile, ContainerSucceeds, ContainerFails,
                Throw, SaveFailure, SavePackagedAt, CleanUp, Finish, GiveUp
    <3> QED
        BY <3>1, <3>2
  <2>2. CASE CleanUp(j)
      BY <2>1, <2>2, CleanRows
  <2>3. CASE ~CleanUp(j) /\ k = j
      BY <1>0, <1>2, <2>3, RunRowAgrees, RunRowWhole
  <2>4. CASE ~CleanUp(j) /\ k # j
    <3>1. jobs'[k] = jobs[k]
        BY <1>2, <2>1, <2>4, RunRows DEF PackageRun, Becomes
    <3> QED
        BY <1>0, <2>1, <3>1, RowStutter, WholeStutter
  <2> QED
      BY <2>2, <2>3, <2>4
<1>3. ASSUME NEW u \in Users, ProcessRun(u)
      PROVE  jobs' = jobs /\ UNCHANGED <<version, overtaken>>
    BY <1>3 DEF ProcessRun, StartProcess, DownloadForProcess, ProcessSucceeds, ProcessFails,
                ResetDetails, SaveDetails, FinishProcess
<1>4. ASSUME NEW u \in Users, Request(u)
      PROVE  RowAgrees(k)' /\ RowWhole(k)'
  <2>1. CASE CreatePackage(u)
      BY <2>1, NewRows DEF CreatePackage
  <2>2. CASE ForcePackage(u)
      BY <2>2, NewRows DEF ForcePackage
  <2>3. CASE Upload(u)
    <3>1. jobs' = jobs /\ JobIds' = JobIds
        BY <2>3 DEF Upload, JobIds
    <3> QED
        BY <1>0, <2>3, <3>1, UploadRows, WholeStutter
  <2>4. CASE RequestPackage(u) \/ AddMember(u) \/ RemoveMember(u)
      BY <1>1, <2>4 DEF RequestPackage, AddMember, RemoveMember
  <2> QED
      BY <1>4, <2>1, <2>2, <2>3, <2>4 DEF Request
<1>5. CASE ListObsolete \/ UNCHANGED vars
    BY <1>1, <1>5 DEF ListObsolete
<1>6. CASE DeleteObsolete
    BY <1>6, DeletedRows, DeleteRows DEF Cleans
<1> QED
    BY <1>1, <1>2, <1>3, <1>4, <1>5, <1>6, NextIsAStep

LEMMA FilesNext ==
    ASSUME TypeOK, FilesInv, [Next]_vars
    PROVE  FilesInv'
BY ByMembersNext, ListedNext, RowsNext DEF FilesInv

LEMMA FilesInit ==
    ASSUME Init
    PROVE  FilesInv
<1>1. JobIds = {}
    BY DEF Init, JobIds
<1> QED
    BY <1>1 DEF Init, FilesInv, ByMembers, Listed, RunAgrees, WholeUntilReplaced

\* The invariant of the packages.
THEOREM PackagesAgree == Spec => [](TypeOK /\ FilesInv)
<1>1. TypeOK /\ FilesInv /\ [Next]_vars => (TypeOK /\ FilesInv)'
    BY TypesNext, FilesNext
<1> QED
    BY <1>1, TypesInit, FilesInit, PTL DEF Spec

-----------------------------------------------------------------------------
(* What the API offers.                                                    *)

LEMMA ReplacedOrWhole ==
    ASSUME TypeOK, FilesInv, NEW j \in JobIds, jobs[j].status = "finished"
    PROVE  \/ jobs[j].files = "all"
           \/ j # LatestOf(jobs[j].by)
           \/ jobs[j].by \notin members \ left
BY LatestIsNotReplaced DEF FilesInv, WholeUntilReplaced, RowWhole

\* The package that is offered for download is whole, unless the user it was
\* made for asked for another one or left.
THEOREM OfferedIsWholeAlways == Spec => []OfferedIsWhole
<1>1. ASSUME TypeOK, FilesInv
      PROVE  OfferedIsWhole
  <2>1. ASSUME NEW u \in members, LatestFinishedFor(u) # None
        PROVE  LatestFinishedFor(u) \in JobIds
    <3> DEFINE J == {j \in PackageJobsFor(u) : ~IsActive(j)}
    <3>1. J # {} /\ J \subseteq JobIds
        BY <2>1 DEF LatestFinishedFor, NewestOf, PackageJobsFor
    <3>2. NewestOf(J) \in J
        BY <1>1, <3>1, NewestExists
    <3> QED
        BY <3>1, <3>2 DEF LatestFinishedFor
  <2> QED
      BY <1>1, <2>1, ReplacedOrWhole DEF OfferedIsWhole
<1> QED
    BY <1>1, PackagesAgree, PTL

\* The newest job for a user is the newest of the user it was made for.
LEMMA NewestForIsLatest ==
    ASSUME TypeOK, NEW u, LatestPackageJobFor(u) # None
    PROVE  /\ LatestPackageJobFor(u) \in JobIds
           /\ LatestPackageJobFor(u) = LatestOf(jobs[LatestPackageJobFor(u)].by)
<1> DEFINE J == PackageJobsFor(u)
           j == NewestOf(J)
           K == {k \in JobIds : jobs[k].by = jobs[j].by}
<1>1. J # {} /\ J \subseteq JobIds
    BY DEF LatestPackageJobFor, NewestOf, PackageJobsFor
<1>2. j \in J /\ \A k \in J : k <= j
    BY <1>1, NewestExists
<1>3. K \subseteq J /\ j \in K
    BY <1>1, <1>2 DEF PackageJobsFor
<1>4. NewestOf(K) \in K /\ \A k \in K : k <= NewestOf(K)
  <2>1. K \subseteq JobIds /\ K # {}
      BY <1>3
  <2> QED
      BY <2>1, NewestExists
<1>5. PICK n \in Nat : JobIds = 1..n
    BY JobsCounted
<1>6. NewestOf(K) = j
  <2>1. j \in 1..n /\ NewestOf(K) \in 1..n
      BY <1>1, <1>2, <1>3, <1>4, <1>5
  <2>2. j <= NewestOf(K) /\ NewestOf(K) <= j
      BY <1>2, <1>3, <1>4
  <2> QED
      BY <2>1, <2>2
<1> QED
    BY <1>1, <1>2, <1>6 DEF LatestPackageJobFor, LatestOf

\* What the API says needs no repackaging was packaged from the files as they
\* are, but for the exceptions that UpToDate names.
THEOREM UpToDateAlways == Spec => []UpToDate
<1>1. ASSUME TypeOK, FilesInv, NEW u \in members \ left, ~NeedsRepackaging(u)
      PROVE  LET j == LatestPackageJobFor(u) IN
             /\ j # None
             /\ \/ jobs[j].status # "finished"
                \/ j \in overtaken
                \/ jobs[j].by \notin members \ left
                \/ jobs[j].read = version /\ jobs[j].files = "all"
  <2> DEFINE j == LatestPackageJobFor(u)
  <2>1. j # None /\ jobs[j].finished_at # None /\ ~(jobs[j].finished_at < version)
      BY <1>1 DEF NeedsRepackaging
  <2>2. j \in JobIds /\ j = LatestOf(jobs[j].by)
      BY <1>1, <2>1, NewestForIsLatest
  <2> HIDE DEF j
  <2>3. RowAgrees(j) /\ jobs[j] \in JobRow /\ version \in Nat
      BY <1>1, <2>2, PackagingAssumption DEF FilesInv, RunAgrees, TypeOK, Versions
  <2>4. jobs[j].finished_at \in Nat
      BY <2>1, <2>3, PackagingAssumption DEF JobRow, Versions
  <2>5. jobs[j].finished_at = version
      BY <2>1, <2>3, <2>4 DEF RowAgrees
  <2>6. jobs[j].status = "finished" /\ j \notin overtaken => jobs[j].read = version
      BY <2>3, <2>5 DEF RowAgrees
  <2> QED
      BY <1>1, <2>1, <2>2, <2>6, ReplacedOrWhole DEF j
<1>2. TypeOK /\ FilesInv => UpToDate
    BY <1>1 DEF UpToDate
<1> QED
    BY <1>2, PackagesAgree, PTL

\* No cleaner deletes the files of a package that is still being uploaded.
THEOREM UploadsSurviveAlways == Spec => UploadsSurvive
<1> DEFINE Survives == \A j \in JobIds :
        jobs[j].status = "started" /\ jobs[j].files # "none" => jobs'[j].files # "none"
<1>1. ASSUME TypeOK, FilesInv, [Next]_vars
      PROVE  [Survives]_vars
  <2> SUFFICES ASSUME NEW k \in JobIds, jobs[k].status = "started", jobs[k].files # "none"
               PROVE  jobs'[k].files # "none"
      OBVIOUS
  <2>1. \A c \in 0..MaxJobs : k \notin doomed[c]
      BY <1>1 DEF FilesInv, Listed, IsActive, ActiveStatus
  <2>2. CASE jobs' = jobs
      BY <2>2
  <2>3. ASSUME NEW j \in JobIds, PackageRun(j)
        PROVE  jobs'[k].files # "none"
    <3>1. CASE CleanUp(j)
      <4>1. j \in 0..MaxJobs
          BY <1>1, JobsCounted, PackagingAssumption
      <4> QED
          BY <1>1, <2>1, <3>1, <4>1, CleanUpRows DEF Cleans
    <3>2. CASE ~CleanUp(j) /\ k = j
        BY <1>1, <2>3, <3>2, RunWrites DEF PackageRun, Writes
    <3>3. CASE ~CleanUp(j) /\ k # j
        BY <1>1, <2>3, <3>3, RunRows DEF PackageRun, Becomes
    <3> QED
        BY <3>1, <3>2, <3>3
  <2>4. ASSUME NEW u \in Users, ProcessRun(u)
        PROVE  jobs' = jobs
      BY <2>4 DEF ProcessRun, StartProcess, DownloadForProcess, ProcessSucceeds, ProcessFails,
                ResetDetails, SaveDetails, FinishProcess
  <2>5. ASSUME NEW u \in Users, Request(u)
        PROVE  jobs'[k] = jobs[k]
    <3>1. CASE CreatePackage(u)
        BY <1>1, <3>1, CreateKeeps DEF CreatePackage
    <3>2. CASE ForcePackage(u)
        BY <1>1, <3>2, CreateKeeps DEF ForcePackage
    <3> QED
        BY <2>5, <3>1, <3>2 DEF Request, RequestPackage, Upload, AddMember, RemoveMember
  <2>6. CASE ListObsolete \/ UNCHANGED vars
      BY <2>6 DEF ListObsolete
  <2>7. CASE DeleteObsolete
    <3>1. 0 \in 0..MaxJobs
        BY PackagingAssumption
    <3> QED
        BY <1>1, <2>1, <2>7, <3>1, DeleteRows DEF Cleans
  <2> QED
      BY <1>1, <2>2, <2>3, <2>4, <2>5, <2>6, <2>7, NextIsAStep
<1>2. TypeOK /\ FilesInv /\ [Next]_vars => [Survives]_vars
    BY <1>1
<1> QED
    BY <1>2, PackagesAgree, PTL DEF Spec, UploadsSurvive

-----------------------------------------------------------------------------
(* How many jobs requests that overlap may create.                         *)

Unforced == {j \in JobIds : IsActive(j) /\ ~jobs[j].forced}

\* A request that has found no active job stands for the job it will create.
Doubles ==
    Cardinality(Unforced) + Cardinality(creating) <= Cardinality(Users)

\* Removing jobs and requests keeps the bound.
LEMMA DoublesShrink ==
    ASSUME TypeOK, Doubles, Unforced' \subseteq Unforced, creating' \subseteq creating
    PROVE  Doubles'
<1>1. IsFiniteSet(Unforced) /\ IsFiniteSet(creating)
  <2>1. Unforced \subseteq JobIds /\ creating \subseteq Users
      BY DEF Unforced, TypeOK
  <2> QED
      BY <2>1, JobsCounted, FS_Subset, PackagingAssumption
<1>2. /\ IsFiniteSet(Unforced') /\ Cardinality(Unforced') <= Cardinality(Unforced)
      /\ IsFiniteSet(creating') /\ Cardinality(creating') <= Cardinality(creating)
    BY <1>1, FS_Subset
<1>3. /\ Cardinality(Unforced) \in Nat /\ Cardinality(creating) \in Nat /\ Cardinality(Users) \in Nat
      /\ Cardinality(Unforced') \in Nat /\ Cardinality(creating') \in Nat
    BY <1>1, <1>2, FS_CardinalityType, PackagingAssumption
<1> QED
    BY <1>2, <1>3 DEF Doubles

LEMMA RunUnforced ==
    ASSUME TypeOK, NEW j \in JobIds, PackageRun(j)
    PROVE  Unforced' \subseteq Unforced /\ creating' = creating
<1>1. creating' = creating
    BY DEF PackageRun, Start, Download, UploadPackageFile, ContainerSucceeds, ContainerFails,
           Throw, SaveFailure, SavePackagedAt, CleanUp, Finish, GiveUp
<1>2. JobIds' = JobIds
    BY RunRows, CleanUpRows DEF PackageRun, Becomes, Cleans
<1>3. ASSUME NEW k \in JobIds, ~IsActive(k) \/ jobs[k].forced
      PROVE  jobs'[k].status \notin ActiveStatus \/ jobs'[k].forced
  <2>1. CASE ~IsActive(k)
      BY <2>1, RunKeeps DEF Keeps
  <2>2. CASE jobs[k].forced /\ CleanUp(j)
      BY <2>2, CleanUpRows
  <2>3. CASE jobs[k].forced /\ ~CleanUp(j) /\ k = j
      BY <2>3, RunWrites DEF PackageRun, Writes, ActiveStatus
  <2>4. CASE jobs[k].forced /\ ~CleanUp(j) /\ k # j
      BY <2>4, RunRows DEF PackageRun, Becomes
  <2> QED
      BY <1>3, <2>1, <2>2, <2>3, <2>4
<1> QED
    BY <1>1, <1>2, <1>3 DEF Unforced, IsActive

\* A request counts from the moment in which it finds no active job.
LEMMA RequestDoubles ==
    ASSUME TypeOK, Doubles, NEW u \in Users, RequestPackage(u)
    PROVE  Doubles'
<1>1. creating' = creating \cup {u} /\ creating' \subseteq Users /\ jobs' = jobs
    BY DEF RequestPackage, TypeOK
<1>2. Unforced' = {}
    BY DEF RequestPackage, Unforced, ActivePackageJobs, JobIds, IsActive
<1>3. Cardinality(creating') <= Cardinality(Users) /\ Cardinality(creating') \in Nat
    BY <1>1, FS_Subset, FS_CardinalityType, PackagingAssumption
<1>4. Cardinality(Unforced') = 0
    BY <1>2, FS_EmptySet
<1> QED
    BY <1>3, <1>4 DEF Doubles

LEMMA CreateDoubles ==
    ASSUME TypeOK, Doubles, NEW u \in Users, CreatePackage(u)
    PROVE  Doubles'
<1>1. CreateJob(u, FALSE) /\ u \in creating /\ creating' = creating \ {u}
    BY DEF CreatePackage
<1>2. PICK n \in Nat :
             /\ JobIds = 1..n /\ JobIds' = 1..n + 1
             /\ \A k \in JobIds : jobs'[k] = jobs[k]
             /\ jobs'[n + 1] =
                  [by |-> u, forced |-> FALSE, status |-> "pending",
                   finished_at |-> None, files |-> "none", run |-> "idle", read |-> None]
    BY <1>1, NewRow
<1>3. (\A i \in 1..n + 1 : i \in 1..n \/ i = n + 1) /\ n + 1 \notin 1..n
    OBVIOUS
<1>4. Unforced' \subseteq Unforced \cup {n + 1} /\ n + 1 \notin Unforced
    BY <1>2, <1>3 DEF Unforced, IsActive
<1>5. IsFiniteSet(Unforced) /\ IsFiniteSet(creating)
  <2>1. Unforced \subseteq JobIds /\ creating \subseteq Users
      BY DEF Unforced, TypeOK
  <2> QED
      BY <2>1, JobsCounted, FS_Subset, PackagingAssumption
<1>6. /\ IsFiniteSet(Unforced \cup {n + 1})
      /\ Cardinality(Unforced \cup {n + 1}) = Cardinality(Unforced) + 1
    BY <1>4, <1>5, FS_AddElement
<1>7. /\ IsFiniteSet(Unforced')
      /\ Cardinality(Unforced') <= Cardinality(Unforced) + 1
    BY <1>4, <1>6, FS_Subset
<1>8. IsFiniteSet(creating') /\ Cardinality(creating') = Cardinality(creating) - 1
    BY <1>1, <1>5, FS_RemoveElement
<1>9. /\ Cardinality(Unforced) \in Nat /\ Cardinality(creating) \in Nat /\ Cardinality(Users) \in Nat
      /\ Cardinality(Unforced') \in Nat /\ Cardinality(creating') \in Nat
    BY <1>5, <1>7, <1>8, FS_CardinalityType, PackagingAssumption
<1> QED
    BY <1>7, <1>8, <1>9 DEF Doubles

LEMMA DoublesNext ==
    ASSUME TypeOK, Doubles, [Next]_vars
    PROVE  Doubles'
<1>1. ASSUME NEW u \in Users, ProcessRun(u)
      PROVE  jobs' = jobs /\ creating' = creating
    BY <1>1 DEF ProcessRun, StartProcess, DownloadForProcess, ProcessSucceeds, ProcessFails,
                ResetDetails, SaveDetails, FinishProcess
<1>2. ASSUME NEW u \in Users, ForcePackage(u)
      PROVE  Unforced' \subseteq Unforced /\ creating' = creating
  <2>1. CreateJob(u, TRUE) /\ creating' = creating
      BY <1>2 DEF ForcePackage
  <2>2. PICK n \in Nat :
             /\ JobIds = 1..n /\ JobIds' = 1..n + 1
             /\ \A k \in JobIds : jobs'[k] = jobs[k]
             /\ jobs'[n + 1] =
                  [by |-> u, forced |-> TRUE, status |-> "pending",
                   finished_at |-> None, files |-> "none", run |-> "idle", read |-> None]
      BY <2>1, NewRow
  <2>3. \A i \in 1..n + 1 : i \in 1..n \/ i = n + 1
      OBVIOUS
  <2> QED
      BY <2>1, <2>2, <2>3 DEF Unforced, IsActive
<1>3. ASSUME NEW u \in Users, Request(u)
      PROVE  Doubles'
  <2>1. CASE Upload(u) \/ AddMember(u) \/ RemoveMember(u)
      BY <2>1, DoublesShrink DEF Upload, AddMember, RemoveMember, Unforced, JobIds, IsActive
  <2> QED
      BY <1>2, <1>3, <2>1, RequestDoubles, CreateDoubles, DoublesShrink DEF Request
<1>4. ASSUME jobs' = jobs, creating' = creating
      PROVE  Doubles'
    BY <1>4, DoublesShrink DEF Unforced, JobIds, IsActive
<1>5. CASE ListObsolete \/ UNCHANGED vars
    BY <1>4, <1>5 DEF ListObsolete
<1>6. CASE DeleteObsolete
    BY <1>6, DeleteRows, DoublesShrink DEF DeleteObsolete, Cleans, Unforced, IsActive
<1> QED
    BY <1>1, <1>3, <1>4, <1>5, <1>6, NextIsAStep, RunUnforced, DoublesShrink

\* There are never more active jobs that were not forced than there are users.
THEOREM DoublesBoundedAlways == Spec => []DoublesBounded
<1>1. ASSUME Init
      PROVE  Doubles
  <2>1. Unforced = {} /\ creating = {}
      BY <1>1 DEF Init, Unforced, JobIds
  <2> QED
      BY <2>1, FS_EmptySet, FS_CardinalityType, PackagingAssumption DEF Doubles
<1>2. TypeOK /\ Doubles /\ [Next]_vars => (TypeOK /\ Doubles)'
    BY TypesNext, DoublesNext
<1>3. ASSUME TypeOK, Doubles
      PROVE  DoublesBounded
  <2>1. Unforced = {j \in JobIds : jobs[j].status \in ActiveStatus /\ ~jobs[j].forced}
      BY DEF Unforced, IsActive
  <2>2. IsFiniteSet(Unforced) /\ IsFiniteSet(creating)
    <3>1. Unforced \subseteq JobIds /\ creating \subseteq Users
        BY <1>3 DEF Unforced, TypeOK
    <3> QED
        BY <1>3, <3>1, JobsCounted, FS_Subset, PackagingAssumption
  <2>3. /\ Cardinality(Unforced) \in Nat /\ Cardinality(creating) \in Nat
        /\ Cardinality(Users) \in Nat
      BY <2>2, FS_CardinalityType, PackagingAssumption
  <2> QED
      BY <1>3, <2>1, <2>3 DEF Doubles, DoublesBounded
<1>4. Init => TypeOK /\ Doubles
    BY <1>1, TypesInit
<1>5. TypeOK /\ Doubles => DoublesBounded
    BY <1>3
<1> QED
    BY <1>2, <1>4, <1>5, PTL DEF Spec
===============================================================================
