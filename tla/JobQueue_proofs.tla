-------------------------- MODULE JobQueue_proofs --------------------------
(***************************************************************************)
(* Proofs about JobQueue, for any number of workers, projects, jobs and    *)
(* containers and any number of crashes.                                   *)
(***************************************************************************)
EXTENDS JobQueue, TLAPS, WellFoundedInduction

\* The row that comes first by created_at is one of the rows, and none is older.
LEMMA OldestFirst ==
    ASSUME NEW S, S \subseteq Jobs, S # {}
    PROVE  Oldest(S) \in S /\ \A k \in S : Oldest(S) <= k
<1> DEFINE R == {z \in Nat \X Nat : z[1] < z[2]}
<1>1. IsWellFoundedOn(R, Nat)
    BY NatLessThanWellFounded DEF OpToRel
<1>2. S \subseteq Nat
    BY QueueAssumption
<1> HIDE DEF R
<1>3. PICK x \in S : \A y \in S : ~ (<<y, x>> \in R)
    BY <1>1, <1>2, WFMin
<1>4. \A y \in S : x <= y
    <2>1. ASSUME NEW y \in S PROVE x <= y
        <3>1. <<y, x>> \in Nat \X Nat
            BY <1>2
        <3>2. ~ (<<y, x>>[1] < <<y, x>>[2])
            BY <1>3, <3>1 DEF R
        <3> QED BY <1>2, <3>2
    <2> QED BY <2>1
<1> QED BY <1>4 DEF Oldest

LEMMA OldestIn ==
    ASSUME NEW S, S \subseteq Jobs, S # {}
    PROVE  Oldest(S) \in S
BY OldestFirst

-----------------------------------------------------------------------------
(* Type correctness                                                        *)

USE DEF dbVars, runVars, txnVars, envVars, Goto

\* Every variable has its type, and a transaction that scans has a row to lock.
TypeInv == TypeOK /\ Scanning

LEMMA TypeInit == Init => TypeInv
BY QueueAssumption DEF Init, TypeInv, TypeOK, Scanning, Place, CState, Status

LEMMA WrittenType ==
    ASSUME TypeOK, NEW rows, Written(rows)
    PROVE  stale' \in [Workers -> SUBSET Rows]
<1>1. \A w \in Workers : stale'[w] \subseteq stale[w] \cup Rows
    BY QueueAssumption DEF TypeOK, Written, Rows
<1> QED
    BY <1>1 DEF TypeOK, Written

LEMMA TypeNext == TypeInv /\ [Next]_vars => TypeInv'
<1> SUFFICES ASSUME TypeInv, [Next]_vars PROVE TypeInv'
    OBVIOUS
<1> USE WrittenType DEF TypeInv, TypeOK, Scanning, Place, Holding, Checked, Status, CState, Active, Final
<1>1. ASSUME NEW w \in Workers, CleanupStep(w)
      PROVE  TypeInv'
    <2>1. CASE ListWorkers(w)
        BY <2>1 DEF ListWorkers
    <2>2. CASE QueryJobs(w)
        BY <2>2 DEF QueryJobs
    <2>3. CASE KillOrphan(w)
        BY <2>3 DEF KillOrphan
    <2>4. CASE OrphanNotFound(w)
        BY <2>4 DEF OrphanNotFound, Die
    <2>5. CASE CleanupDone(w)
        BY <2>5 DEF CleanupDone
    <2> QED BY <1>1, <2>1, <2>2, <2>3, <2>4, <2>5 DEF CleanupStep
<1>2. ASSUME NEW w \in Workers, DequeueStep(w)
      PROVE  TypeInv'
    <2>1. CASE BeginDequeue(w)
        BY <2>1 DEF BeginDequeue
    <2>2. CASE SkipLocked(w)
        <3>1. pc[w] = "scan" /\ Oldest(todo[w]) \in todo[w]
            BY <2>2, OldestIn DEF SkipLocked
        <3> DEFINE j == Oldest(todo[w])
        <3>2. j \in Rows
            BY <3>1 DEF Rows
        <3> HIDE DEF j
        <3>3. /\ todo' = [todo EXCEPT ![w] = @ \ {j}]
              /\ pc' = [pc EXCEPT ![w] = IF todo[w] = {j} THEN "list" ELSE "scan"]
              /\ UNCHANGED <<dbVars, runVars, envVars>>
            BY <2>2 DEF SkipLocked, j
        <3>4. \E rows \in {{}, stale[w]} : stale' = [stale EXCEPT ![w] = rows]
            BY <2>2 DEF SkipLocked
        <3>5. \E rows \in {{}, locks[w], locks[w] \cup {j}} : locks' = [locks EXCEPT ![w] = rows]
            BY <2>2 DEF SkipLocked, j
        <3>6. locks' \in [Workers -> SUBSET Rows] /\ stale' \in [Workers -> SUBSET Rows]
            BY <3>2, <3>4, <3>5
        <3>7. Scanning'
            BY <3>1, <3>3
        <3> QED BY <3>3, <3>6, <3>7
    <2>3. CASE SerializationFailure(w)
        BY <2>3 DEF SerializationFailure, Die
    <2>4. CASE LockRow(w)
        <3>1. pc[w] = "scan" /\ Oldest(todo[w]) \in Jobs
            BY <2>4, OldestIn DEF LockRow
        <3>2. {Oldest(todo[w]), ProjectOf[Oldest(todo[w])]} \subseteq Rows
            BY ZenonT(60), <3>1, QueueAssumption DEF Rows
        <3> QED BY <2>4, <3>1, <3>2 DEF LockRow
    <2>5. CASE CommitQueued(w)
        BY <2>5 DEF CommitQueued
    <2> QED BY <1>2, <2>1, <2>2, <2>3, <2>4, <2>5 DEF DequeueStep
<1>3. ASSUME NEW w \in Workers, RunStep(w)
      PROVE  TypeInv'
    <2>1. CASE StartJob(w)
        BY <2>1 DEF StartJob, SaveJob, Update
    <2>2. CASE CheckConcurrency(w)
        BY <2>2 DEF CheckConcurrency
    <2>3. CASE ResetJob(w)
        BY <2>3 DEF ResetJob, SaveJob, Update, Return
    <2>4. CASE PrepareRun(w)
        BY <2>4 DEF PrepareRun, Update
    <2>5. CASE LaunchContainer(w)
        BY <2>5 DEF LaunchContainer
    <2>6. CASE LaunchFails(w)
        BY <2>6 DEF LaunchFails
    <2>7. CASE RecordContainer(w)
        <3>1. PICK next \in {"wait", "fail"} : pc' = [pc EXCEPT ![w] = next]
            BY <2>7 DEF RecordContainer
        <3> QED BY <2>7, <3>1 DEF RecordContainer, Update
    <2>8. CASE SeeSigkill(w)
        BY <2>8 DEF SeeSigkill, Return
    <2>9. CASE SeeExit(w)
        BY <2>9 DEF SeeExit, Update
    <2>10. CASE FinishRun(w)
        BY <2>10 DEF FinishRun, Update, Return
    <2>11. CASE FinishFails(w)
        BY <2>11 DEF FinishFails
    <2>12. CASE FailRun(w)
        BY <2>12 DEF FailRun, Update, Return
    <2>13. CASE DieOnDeletedRow(w)
        BY <2>13 DEF DieOnDeletedRow, Die
    <2> QED BY <1>3, <2>1, <2>2, <2>3, <2>4, <2>5, <2>6, <2>7, <2>8, <2>9, <2>10, <2>11, <2>12, <2>13 DEF RunStep
<1>4. ASSUME NEW w \in Workers, Crash(w) PROVE TypeInv'
    BY <1>4 DEF Crash, Die
<1>5. ASSUME NEW c \in Containers, ContainerExits(c) PROVE TypeInv'
    BY <1>5 DEF ContainerExits
<1>6. ASSUME NEW j \in Jobs, JobStep(j)
      PROVE  TypeInv'
    <2>1. CASE CreateJob(j)
        BY <2>1 DEF CreateJob
    <2>2. CASE RerunJob(j)
        BY <2>2 DEF RerunJob, Update
    <2>3. CASE Elapse(j)
        BY <2>3 DEF Elapse
    <2> QED BY <1>6, <2>1, <2>2, <2>3 DEF JobStep
<1>7. ASSUME NEW p \in Projects, ProjectStep(p)
      PROVE  TypeInv'
    <2>1. CASE DeleteProject(p)
        BY <2>1 DEF DeleteProject, Update
    <2>2. CASE ToggleProjectLock(p)
        BY <2>2 DEF ToggleProjectLock, Update
    <2>3. CASE SaveProject(p)
        BY <2>3 DEF SaveProject, Update
    <2> QED BY <1>7, <2>1, <2>2, <2>3 DEF ProjectStep
<1>8. CASE FailOverdueJobs
    BY <1>8 DEF FailOverdueJobs, Update
<1>9. CASE UNCHANGED vars
    BY <1>9 DEF vars
<1> QED
    BY <1>1, <1>2, <1>3, <1>4, <1>5, <1>6, <1>7, <1>8, <1>9 DEF Next, WorkerStep

\* The tables and the processes only ever hold values of their types.
THEOREM TypeCorrect == Spec => []TypeOK
<1>1. Spec => []TypeInv
    BY TypeInit, TypeNext, PTL DEF Spec
<1>2. TypeInv => TypeOK
    BY DEF TypeInv
<1> QED
    BY <1>1, <1>2, PTL

-----------------------------------------------------------------------------
(* Mutual exclusion                                                        *)

\* What TypeOK says of the state that the invariant is about.
Inv == TypeOK /\ QueueInv

\* A step that the leases allow.
LeaseStep == [Leases!LeaseNext]_[j \in Jobs |-> LeaseOf(j)]

\* Not both of two jobs of a project hold its lease: ProjectExclusion once more.
LEMMA ExclusionOfLeases ==
    ProjectExclusion <=>
        \A j, k \in Jobs : j # k /\ ProjectOf[j] = ProjectOf[k]
            => LeaseOf(j) # "held" \/ LeaseOf(k) # "held"
BY DEF ProjectExclusion, LeaseOf

LEMMA ExclusionOfLeasesNext ==
    ProjectExclusion' <=>
        \A j, k \in Jobs : j # k /\ ProjectOf[j] = ProjectOf[k]
            => LeaseOf(j)' # "held" \/ LeaseOf(k)' # "held"
BY DEF ProjectExclusion, LeaseOf

\* In this step job j keeps what it has of the lease, or lets go of it.
Fades(j) == LeaseOf(j)' \in {LeaseOf(j), "none"}

LEMMA FadingKeeps ==
    ASSUME ProjectExclusion, \A j \in Jobs : Fades(j)
    PROVE  ProjectExclusion' /\ LeaseStep
<1>1. ProjectExclusion'
    BY ExclusionOfLeases, ExclusionOfLeasesNext DEF Fades
<1>2. Leases!Release({j \in Jobs : LeaseOf(j)' # LeaseOf(j)})
    BY DEF Leases!Release, Fades
<1> QED
    BY <1>1, <1>2 DEF LeaseStep, Leases!LeaseNext

LEMMA LapsingKeeps ==
    ASSUME ProjectExclusion, NEW j \in Jobs,
           LeaseOf(j)' \in {LeaseOf(j), "none", "lapsed"},
           LeaseOf(j) = "none" => LeaseOf(j)' = "none",
           \A i \in Jobs \ {j} : LeaseOf(i)' = LeaseOf(i)
    PROVE  ProjectExclusion' /\ LeaseStep
<1>1. LeaseOf(j) \in {"none", "held", "lapsed"}
    BY DEF LeaseOf
<1>2. CASE LeaseOf(j) = "held" /\ LeaseOf(j)' = "lapsed"
    <2>1. ProjectExclusion'
        BY <1>2, ExclusionOfLeases, ExclusionOfLeasesNext
    <2>2. Leases!Lapse(j)
        BY <1>2 DEF Leases!Lapse
    <2> QED
        BY <2>1, <2>2 DEF LeaseStep, Leases!LeaseNext
<1>3. CASE LeaseOf(j)' \in {LeaseOf(j), "none"}
    BY <1>3, FadingKeeps DEF Fades
<1> QED
    BY <1>1, <1>2, <1>3

LEMMA ListWorkersInv ==
    ASSUME Inv, TypeInv', NEW w \in Workers, ListWorkers(w)
    PROVE  QueueInv' /\ LeaseStep
<1> USE DEF Inv, QueueInv, TypeInv, TypeOK, Waiting, Running, Holding, Checked, Active, Final, Status, CState
<1>1. HoldsOneJob' /\ WaitingIsFree' /\ TransactionsAgree' /\ RunningIsStarted' /\ LaunchedOnce'
    BY QueueAssumption DEF ListWorkers, HoldsOneJob, WaitingIsFree, TransactionsAgree, RunningIsStarted, LaunchedOnce
<1>2. \A i \in Jobs : Fades(i)
    BY DEF ListWorkers, Fades, LeaseOf, WorksOn, InRun, GivenUp, Exists, HoldsOneJob, WaitingIsFree, LaunchedOnce, RunningIsStarted, TransactionsAgree
<1> QED
    BY <1>1, <1>2, FadingKeeps

LEMMA QueryJobsInv ==
    ASSUME Inv, TypeInv', NEW w \in Workers, QueryJobs(w)
    PROVE  QueueInv' /\ LeaseStep
<1> USE DEF Inv, QueueInv, TypeInv, TypeOK, Waiting, Running, Holding, Checked, Active, Final, Status, CState
<1>1. HoldsOneJob' /\ WaitingIsFree' /\ TransactionsAgree' /\ RunningIsStarted' /\ LaunchedOnce'
    BY QueueAssumption DEF QueryJobs, HoldsOneJob, WaitingIsFree, TransactionsAgree, RunningIsStarted, LaunchedOnce
<1>2. \A i \in Jobs : Fades(i)
    BY DEF QueryJobs, Fades, LeaseOf, WorksOn, InRun, GivenUp, Exists, HoldsOneJob, WaitingIsFree, LaunchedOnce, RunningIsStarted, TransactionsAgree
<1> QED
    BY <1>1, <1>2, FadingKeeps

LEMMA KillOrphanInv ==
    ASSUME Inv, TypeInv', NEW w \in Workers, KillOrphan(w)
    PROVE  QueueInv' /\ LeaseStep
<1> USE DEF Inv, QueueInv, TypeInv, TypeOK, Waiting, Running, Holding, Checked, Active, Final, Status, CState
<1>1. HoldsOneJob' /\ WaitingIsFree' /\ TransactionsAgree' /\ RunningIsStarted' /\ LaunchedOnce'
    BY QueueAssumption DEF KillOrphan, HoldsOneJob, WaitingIsFree, TransactionsAgree, RunningIsStarted, LaunchedOnce
<1>2. \A i \in Jobs : Fades(i)
    BY DEF KillOrphan, Fades, LeaseOf, WorksOn, InRun, GivenUp, Exists, HoldsOneJob, WaitingIsFree, LaunchedOnce, RunningIsStarted, TransactionsAgree
<1> QED
    BY <1>1, <1>2, FadingKeeps

LEMMA OrphanNotFoundInv ==
    ASSUME Inv, TypeInv', NEW w \in Workers, OrphanNotFound(w)
    PROVE  QueueInv' /\ LeaseStep
<1> USE DEF Inv, QueueInv, TypeInv, TypeOK, Waiting, Running, Holding, Checked, Active, Final, Status, CState
<1>1. HoldsOneJob' /\ WaitingIsFree' /\ TransactionsAgree' /\ RunningIsStarted' /\ LaunchedOnce'
    BY QueueAssumption DEF OrphanNotFound, Die, HoldsOneJob, WaitingIsFree, TransactionsAgree, RunningIsStarted, LaunchedOnce
<1>2. \A i \in Jobs : Fades(i)
    BY DEF OrphanNotFound, Die, Fades, LeaseOf, WorksOn, InRun, GivenUp, Exists, HoldsOneJob, WaitingIsFree, LaunchedOnce, RunningIsStarted, TransactionsAgree
<1> QED
    BY <1>1, <1>2, FadingKeeps

LEMMA CleanupDoneInv ==
    ASSUME Inv, TypeInv', NEW w \in Workers, CleanupDone(w)
    PROVE  QueueInv' /\ LeaseStep
<1> USE DEF Inv, QueueInv, TypeInv, TypeOK, Waiting, Running, Holding, Checked, Active, Final, Status, CState
<1>1. HoldsOneJob' /\ WaitingIsFree' /\ TransactionsAgree' /\ RunningIsStarted' /\ LaunchedOnce'
    BY QueueAssumption DEF CleanupDone, HoldsOneJob, WaitingIsFree, TransactionsAgree, RunningIsStarted, LaunchedOnce
<1>2. \A i \in Jobs : Fades(i)
    BY DEF CleanupDone, Fades, LeaseOf, WorksOn, InRun, GivenUp, Exists, HoldsOneJob, WaitingIsFree, LaunchedOnce, RunningIsStarted, TransactionsAgree
<1> QED
    BY <1>1, <1>2, FadingKeeps

LEMMA BeginDequeueInv ==
    ASSUME Inv, TypeInv', NEW w \in Workers, BeginDequeue(w)
    PROVE  QueueInv' /\ LeaseStep
<1> USE DEF Inv, QueueInv, TypeInv, TypeOK, Waiting, Running, Holding, Checked, Active, Final, Status, CState
<1>1. TransactionsAgree'
    BY QueueAssumption DEF BeginDequeue, TransactionsAgree, HoldsOneJob, WaitingIsFree
<1>2. HoldsOneJob' /\ WaitingIsFree' /\ RunningIsStarted' /\ LaunchedOnce'
    BY QueueAssumption DEF BeginDequeue, HoldsOneJob, WaitingIsFree, RunningIsStarted, LaunchedOnce, TransactionsAgree
<1>3. \A i \in Jobs : Fades(i)
    BY DEF BeginDequeue, Fades, LeaseOf, WorksOn, InRun, GivenUp, Exists, HoldsOneJob, WaitingIsFree, LaunchedOnce, RunningIsStarted, TransactionsAgree
<1> QED
    BY <1>1, <1>2, <1>3, FadingKeeps

LEMMA SkipLockedInv ==
    ASSUME Inv, TypeInv', NEW w \in Workers, SkipLocked(w)
    PROVE  QueueInv' /\ LeaseStep
<1> USE DEF Inv, QueueInv, TypeInv, TypeOK, Waiting, Running, Holding, Checked, Active, Final, Status, CState
<1>1. TransactionsAgree'
    BY QueueAssumption, OldestIn DEF SkipLocked, LockedByOther, TransactionsAgree, Scanning, HoldsOneJob, WaitingIsFree
<1>2. HoldsOneJob' /\ WaitingIsFree' /\ RunningIsStarted' /\ LaunchedOnce'
    BY QueueAssumption, OldestIn DEF SkipLocked, LockedByOther, HoldsOneJob, WaitingIsFree, RunningIsStarted, LaunchedOnce, Scanning, TransactionsAgree
<1>3. \A i \in Jobs : Fades(i)
    BY DEF SkipLocked, LockedByOther, Fades, LeaseOf, WorksOn, InRun, GivenUp, Exists, HoldsOneJob, WaitingIsFree, LaunchedOnce, RunningIsStarted, TransactionsAgree
<1> QED
    BY <1>1, <1>2, <1>3, FadingKeeps

LEMMA SerializationFailureInv ==
    ASSUME Inv, TypeInv', NEW w \in Workers, SerializationFailure(w)
    PROVE  QueueInv' /\ LeaseStep
<1> USE DEF Inv, QueueInv, TypeInv, TypeOK, Waiting, Running, Holding, Checked, Active, Final, Status, CState
<1>1. HoldsOneJob' /\ WaitingIsFree' /\ TransactionsAgree' /\ RunningIsStarted' /\ LaunchedOnce'
    BY QueueAssumption DEF SerializationFailure, Die, HoldsOneJob, WaitingIsFree, TransactionsAgree, RunningIsStarted, LaunchedOnce
<1>2. \A i \in Jobs : Fades(i)
    BY DEF SerializationFailure, Die, Fades, LeaseOf, WorksOn, InRun, GivenUp, Exists, HoldsOneJob, WaitingIsFree, LaunchedOnce, RunningIsStarted, TransactionsAgree
<1> QED
    BY <1>1, <1>2, FadingKeeps

LEMMA LockRowInv ==
    ASSUME Inv, TypeInv', NEW w \in Workers, LockRow(w)
    PROVE  QueueInv' /\ LeaseStep
<1> USE DEF Inv, QueueInv, TypeInv, TypeOK, Waiting, Running, Holding, Checked, Active, Final, Status, CState
<1>1. HoldsOneJob'
    BY QueueAssumption, OldestIn DEF LockRow, LockedByOther, HoldsOneJob, Scanning, WaitingIsFree, TransactionsAgree
<1>2. TransactionsAgree'
    <2> DEFINE i == Oldest(todo[w])
    <2>1. i \in todo[w]
        BY OldestIn DEF LockRow, Scanning
    <2> HIDE DEF i
    <2>2. /\ pc[w] = "scan" /\ pc' = [pc EXCEPT ![w] = "found"]
          /\ job' = [job EXCEPT ![w] = i]
          /\ locks' = [locks EXCEPT ![w] = @ \cup {i, ProjectOf[i]}]
          /\ todo' = [todo EXCEPT ![w] = {}] /\ stale' = [stale EXCEPT ![w] = {}]
          /\ UNCHANGED status
          /\ i \notin stale[w]
          /\ \A v \in Workers \ {w} : {i, ProjectOf[i]} \cap locks[v] = {}
        BY DEF LockRow, LockedByOther, i
    <2>3. status[i] = "pending"
        BY <2>1, <2>2 DEF TransactionsAgree
    <2>4. \A u, v \in Workers : u # v => locks'[u] \cap locks'[v] = {}
        BY <2>2 DEF TransactionsAgree
    <2>5. \A v \in Workers : \A k \in todo'[v] : k \in stale'[v] \/ status'[k] = "pending"
        BY <2>2 DEF TransactionsAgree
    <2>6. \A v \in Workers : pc'[v] = "found" => job'[v] \in locks'[v] /\ status'[job'[v]] = "pending"
        BY <2>2, <2>3 DEF TransactionsAgree
    <2> QED
        BY <2>4, <2>5, <2>6 DEF TransactionsAgree
<1>3. WaitingIsFree' /\ RunningIsStarted' /\ LaunchedOnce'
    BY QueueAssumption, OldestIn DEF LockRow, LockedByOther, WaitingIsFree, RunningIsStarted, LaunchedOnce, Scanning, HoldsOneJob, TransactionsAgree
<1>4. \A i \in Jobs : Fades(i)
    BY DEF LockRow, LockedByOther, Fades, LeaseOf, WorksOn, InRun, GivenUp, Exists, HoldsOneJob, WaitingIsFree, LaunchedOnce, RunningIsStarted, TransactionsAgree
<1> QED
    BY <1>1, <1>2, <1>3, <1>4, FadingKeeps

LEMMA CommitQueuedInv ==
    ASSUME Inv, TypeInv', NEW w \in Workers, CommitQueued(w)
    PROVE  QueueInv' /\ LeaseStep
<1> USE DEF Inv, QueueInv, TypeInv, TypeOK, Waiting, Running, Holding, Checked, Active, Final, Status, CState
<1>1. HoldsOneJob'
    BY QueueAssumption DEF CommitQueued, Written, HoldsOneJob, WaitingIsFree, TransactionsAgree
<1>2. WaitingIsFree'
    BY QueueAssumption DEF CommitQueued, Written, WaitingIsFree, HoldsOneJob, RunningIsStarted, LaunchedOnce, TransactionsAgree
<1>3. TransactionsAgree'
    BY QueueAssumption DEF CommitQueued, Written, TransactionsAgree, HoldsOneJob, WaitingIsFree
<1>4. RunningIsStarted'
    BY QueueAssumption DEF CommitQueued, Written, RunningIsStarted, HoldsOneJob, WaitingIsFree, LaunchedOnce, TransactionsAgree
<1>5. LaunchedOnce'
    <2>1. \A c \in Containers : cjob[c] # job[w]
        BY DEF CommitQueued, HoldsOneJob, WaitingIsFree, TransactionsAgree
    <2> QED
        BY <2>1 DEF CommitQueued, LaunchedOnce, HoldsOneJob
<1>6. \A i \in Jobs : Fades(i)
    BY DEF CommitQueued, Written, Fades, LeaseOf, WorksOn, InRun, GivenUp, Exists, HoldsOneJob, WaitingIsFree, LaunchedOnce, RunningIsStarted, TransactionsAgree
<1> QED
    BY <1>1, <1>2, <1>3, <1>4, <1>5, <1>6, FadingKeeps

LEMMA StartJobInv ==
    ASSUME Inv, TypeInv', NEW w \in Workers, StartJob(w)
    PROVE  QueueInv' /\ LeaseStep
<1> USE DEF Inv, QueueInv, TypeInv, TypeOK, Waiting, Running, Holding, Checked, Active, Final, Status, CState
<1>1. WaitingIsFree'
    BY QueueAssumption DEF StartJob, SaveJob, Update, Written, Exists, WaitingIsFree, HoldsOneJob, RunningIsStarted, LaunchedOnce, TransactionsAgree
<1>2. TransactionsAgree'
    BY QueueAssumption DEF StartJob, SaveJob, Update, Written, Exists, TransactionsAgree, HoldsOneJob, WaitingIsFree
<1>3. RunningIsStarted'
    BY QueueAssumption DEF StartJob, SaveJob, Update, Written, Exists, RunningIsStarted, HoldsOneJob, WaitingIsFree, LaunchedOnce, TransactionsAgree
<1>4. HoldsOneJob' /\ LaunchedOnce'
    BY QueueAssumption DEF StartJob, SaveJob, Update, Written, Exists, HoldsOneJob, LaunchedOnce, WaitingIsFree, TransactionsAgree, RunningIsStarted
<1>5. \A i \in Jobs : Fades(i)
    BY DEF StartJob, SaveJob, Update, Written, Exists, Fades, LeaseOf, WorksOn, InRun, GivenUp, HoldsOneJob, WaitingIsFree, LaunchedOnce, RunningIsStarted, TransactionsAgree
<1> QED
    BY <1>1, <1>2, <1>3, <1>4, <1>5, FadingKeeps

LEMMA CheckConcurrencyInv ==
    ASSUME Inv, TypeInv', NEW w \in Workers, CheckConcurrency(w)
    PROVE  QueueInv' /\ LeaseStep
<1> USE DEF Inv, QueueInv, TypeInv, TypeOK, Waiting, Running, Holding, Checked, Active, Final, Status, CState
<1>1. RunningIsStarted'
    BY QueueAssumption DEF CheckConcurrency, JobsOf, RunningIsStarted, HoldsOneJob, WaitingIsFree, LaunchedOnce, TransactionsAgree
<1>2. LaunchedOnce'
    BY QueueAssumption DEF CheckConcurrency, JobsOf, LaunchedOnce, HoldsOneJob, WaitingIsFree, TransactionsAgree, RunningIsStarted
<1>3. HoldsOneJob' /\ WaitingIsFree' /\ TransactionsAgree'
    BY QueueAssumption DEF CheckConcurrency, JobsOf, HoldsOneJob, WaitingIsFree, TransactionsAgree, RunningIsStarted, LaunchedOnce
<1>4. PICK j \in Jobs : j = job[w]
    BY DEF CheckConcurrency, HoldsOneJob
<1>5. \A i \in Jobs \ {j} : LeaseOf(i)' = LeaseOf(i)
    BY <1>4 DEF CheckConcurrency, LeaseOf, WorksOn, InRun, GivenUp, Exists, HoldsOneJob
<1>6. LeaseOf(j) = "none"
    BY <1>4 DEF CheckConcurrency, LeaseOf, WorksOn, InRun, HoldsOneJob, LaunchedOnce
<1>7. CASE LeaseOf(j)' = "none"
    <2>1. \A i \in Jobs : Fades(i)
        BY <1>5, <1>6, <1>7 DEF Fades
    <2> QED
        BY <1>1, <1>2, <1>3, <2>1, FadingKeeps
<1>8. CASE LeaseOf(j)' # "none"
    <2>1. pc'[w] = "prepare"
        BY <1>4, <1>8 DEF CheckConcurrency, LeaseOf, WorksOn, InRun, Exists, HoldsOneJob, LaunchedOnce
    <2>2. \A k \in Jobs \ {j} : ProjectOf[k] = ProjectOf[j] => status[k] \notin Active
        BY <1>4, <2>1 DEF CheckConcurrency, JobsOf
    <2>3. \A k \in Jobs : LeaseOf(k) = "held" => status[k] = "started"
        BY DEF LeaseOf, WorksOn, InRun, GivenUp, Exists, RunningIsStarted, LaunchedOnce
    <2>4. \A k \in Jobs \ {j} : ProjectOf[k] = ProjectOf[j] => LeaseOf(k) # "held"
        BY <2>2, <2>3
    <2>5. LeaseOf(j)' \in {"held", "lapsed"}
        BY <1>8 DEF LeaseOf
    <2>6. Leases!Acquire(j)
        <3>1. [i \in Jobs |-> LeaseOf(i)]' = [[i \in Jobs |-> LeaseOf(i)] EXCEPT ![j] = LeaseOf(j)']
            BY <1>5
        <3>2. \E granted \in {"held", "lapsed"} :
                 [i \in Jobs |-> LeaseOf(i)]' = [[i \in Jobs |-> LeaseOf(i)] EXCEPT ![j] = granted]
            BY <2>5, <3>1
        <3>3. \A k \in Leases!Rivals(j) : [i \in Jobs |-> LeaseOf(i)][k] # "held"
            BY <2>4 DEF Leases!Rivals
        <3> QED
            BY <1>6, <3>2, <3>3 DEF Leases!Acquire
    <2>7. ProjectExclusion'
        BY <1>5, <2>4, ExclusionOfLeases, ExclusionOfLeasesNext
    <2> QED
        BY <1>1, <1>2, <1>3, <2>6, <2>7 DEF LeaseStep, Leases!LeaseNext
<1> QED
    BY <1>7, <1>8

LEMMA ResetJobInv ==
    ASSUME Inv, TypeInv', NEW w \in Workers, ResetJob(w)
    PROVE  QueueInv' /\ LeaseStep
<1> USE DEF Inv, QueueInv, TypeInv, TypeOK, Waiting, Running, Holding, Checked, Active, Final, Status, CState
<1>1. WaitingIsFree'
    BY QueueAssumption DEF ResetJob, SaveJob, Update, Written, Exists, Return, WaitingIsFree, HoldsOneJob, RunningIsStarted, LaunchedOnce, TransactionsAgree
<1>2. TransactionsAgree'
    BY QueueAssumption DEF ResetJob, SaveJob, Update, Written, Exists, Return, TransactionsAgree, HoldsOneJob, WaitingIsFree
<1>3. RunningIsStarted'
    BY QueueAssumption DEF ResetJob, SaveJob, Update, Written, Exists, Return, RunningIsStarted, HoldsOneJob, WaitingIsFree, LaunchedOnce, TransactionsAgree
<1>4. HoldsOneJob' /\ LaunchedOnce'
    BY QueueAssumption DEF ResetJob, SaveJob, Update, Written, Exists, Return, HoldsOneJob, LaunchedOnce, WaitingIsFree, TransactionsAgree, RunningIsStarted
<1>5. \A i \in Jobs : Fades(i)
    BY DEF ResetJob, SaveJob, Update, Written, Exists, Return, Fades, LeaseOf, WorksOn, InRun, GivenUp, HoldsOneJob, WaitingIsFree, LaunchedOnce, RunningIsStarted, TransactionsAgree
<1> QED
    BY <1>1, <1>2, <1>3, <1>4, <1>5, FadingKeeps

LEMMA PrepareRunInv ==
    ASSUME Inv, TypeInv', NEW w \in Workers, PrepareRun(w)
    PROVE  QueueInv' /\ LeaseStep
<1> USE DEF Inv, QueueInv, TypeInv, TypeOK, Waiting, Running, Holding, Checked, Active, Final, Status, CState
<1>1. TransactionsAgree'
    BY QueueAssumption DEF PrepareRun, Update, Written, TransactionsAgree, HoldsOneJob, WaitingIsFree
<1>2. HoldsOneJob' /\ WaitingIsFree' /\ RunningIsStarted' /\ LaunchedOnce'
    BY QueueAssumption DEF PrepareRun, Update, Written, HoldsOneJob, WaitingIsFree, RunningIsStarted, LaunchedOnce, TransactionsAgree
<1>3. \A i \in Jobs : Fades(i)
    BY DEF PrepareRun, Update, Written, Fades, LeaseOf, WorksOn, InRun, GivenUp, Exists, HoldsOneJob, WaitingIsFree, LaunchedOnce, RunningIsStarted, TransactionsAgree
<1> QED
    BY <1>1, <1>2, <1>3, FadingKeeps

LEMMA LaunchContainerInv ==
    ASSUME Inv, TypeInv', NEW w \in Workers, LaunchContainer(w)
    PROVE  QueueInv' /\ LeaseStep
<1> USE DEF Inv, QueueInv, TypeInv, TypeOK, Waiting, Running, Holding, Checked, Active, Final, Status, CState
<1>1. WaitingIsFree'
    BY QueueAssumption DEF LaunchContainer, WaitingIsFree, HoldsOneJob, RunningIsStarted, LaunchedOnce, TransactionsAgree
<1>2. RunningIsStarted'
    BY QueueAssumption DEF LaunchContainer, RunningIsStarted, HoldsOneJob, WaitingIsFree, LaunchedOnce, TransactionsAgree
<1>3. LaunchedOnce'
    BY QueueAssumption DEF LaunchContainer, LaunchedOnce, HoldsOneJob, WaitingIsFree, TransactionsAgree, RunningIsStarted
<1>4. HoldsOneJob' /\ TransactionsAgree'
    BY QueueAssumption DEF LaunchContainer, HoldsOneJob, TransactionsAgree, WaitingIsFree
<1>5. \A i \in Jobs : Fades(i)
    BY DEF LaunchContainer, Fades, LeaseOf, WorksOn, InRun, GivenUp, Exists, HoldsOneJob, WaitingIsFree, LaunchedOnce, RunningIsStarted, TransactionsAgree
<1> QED
    BY <1>1, <1>2, <1>3, <1>4, <1>5, FadingKeeps

LEMMA LaunchFailsInv ==
    ASSUME Inv, TypeInv', NEW w \in Workers, LaunchFails(w)
    PROVE  QueueInv' /\ LeaseStep
<1> USE DEF Inv, QueueInv, TypeInv, TypeOK, Waiting, Running, Holding, Checked, Active, Final, Status, CState
<1>1. HoldsOneJob' /\ WaitingIsFree' /\ TransactionsAgree' /\ RunningIsStarted' /\ LaunchedOnce'
    BY QueueAssumption DEF LaunchFails, HoldsOneJob, WaitingIsFree, TransactionsAgree, RunningIsStarted, LaunchedOnce
<1>2. \A i \in Jobs : Fades(i)
    BY DEF LaunchFails, Fades, LeaseOf, WorksOn, InRun, GivenUp, Exists, HoldsOneJob, WaitingIsFree, LaunchedOnce, RunningIsStarted, TransactionsAgree
<1> QED
    BY <1>1, <1>2, FadingKeeps

LEMMA RecordContainerInv ==
    ASSUME Inv, TypeInv', NEW w \in Workers, RecordContainer(w)
    PROVE  QueueInv' /\ LeaseStep
<1> USE DEF Inv, QueueInv, TypeInv, TypeOK, Waiting, Running, Holding, Checked, Active, Final, Status, CState
<1>1. TransactionsAgree'
    BY QueueAssumption DEF RecordContainer, Update, Written, TransactionsAgree, HoldsOneJob, WaitingIsFree
<1>2. HoldsOneJob' /\ WaitingIsFree' /\ RunningIsStarted' /\ LaunchedOnce'
    BY QueueAssumption DEF RecordContainer, Update, Written, HoldsOneJob, WaitingIsFree, RunningIsStarted, LaunchedOnce, TransactionsAgree
<1>3. \A i \in Jobs : Fades(i)
    BY DEF RecordContainer, Update, Written, Fades, LeaseOf, WorksOn, InRun, GivenUp, Exists, HoldsOneJob, WaitingIsFree, LaunchedOnce, RunningIsStarted, TransactionsAgree
<1> QED
    BY <1>1, <1>2, <1>3, FadingKeeps

LEMMA SeeSigkillInv ==
    ASSUME Inv, TypeInv', NEW w \in Workers, SeeSigkill(w)
    PROVE  QueueInv' /\ LeaseStep
<1> USE DEF Inv, QueueInv, TypeInv, TypeOK, Waiting, Running, Holding, Checked, Active, Final, Status, CState
<1>1. RunningIsStarted'
    BY QueueAssumption DEF SeeSigkill, Return, Exists, RunningIsStarted, HoldsOneJob, WaitingIsFree, LaunchedOnce, TransactionsAgree
<1>2. LaunchedOnce'
    BY SMTT(30), QueueAssumption DEF SeeSigkill, Return, Exists, LaunchedOnce, HoldsOneJob, WaitingIsFree, TransactionsAgree, RunningIsStarted
<1>3. HoldsOneJob' /\ WaitingIsFree' /\ TransactionsAgree'
    BY SMTT(30), QueueAssumption DEF SeeSigkill, Return, Exists, HoldsOneJob, WaitingIsFree, TransactionsAgree, RunningIsStarted, LaunchedOnce
<1>4. \A i \in Jobs : Fades(i)
    BY DEF SeeSigkill, Return, Exists, Fades, LeaseOf, WorksOn, InRun, GivenUp, HoldsOneJob, WaitingIsFree, LaunchedOnce, RunningIsStarted, TransactionsAgree
<1> QED
    BY <1>1, <1>2, <1>3, <1>4, FadingKeeps

LEMMA SeeExitInv ==
    ASSUME Inv, TypeInv', NEW w \in Workers, SeeExit(w)
    PROVE  QueueInv' /\ LeaseStep
<1> USE DEF Inv, QueueInv, TypeInv, TypeOK, Waiting, Running, Holding, Checked, Active, Final, Status, CState
<1>1. LaunchedOnce'
    BY QueueAssumption DEF SeeExit, Update, Written, LaunchedOnce, HoldsOneJob, WaitingIsFree, TransactionsAgree, RunningIsStarted
<1>2. HoldsOneJob' /\ WaitingIsFree' /\ TransactionsAgree' /\ RunningIsStarted'
    BY QueueAssumption DEF SeeExit, Update, Written, HoldsOneJob, WaitingIsFree, TransactionsAgree, RunningIsStarted, LaunchedOnce
<1>3. \A i \in Jobs : Fades(i)
    BY DEF SeeExit, Update, Written, Fades, LeaseOf, WorksOn, InRun, GivenUp, Exists, HoldsOneJob, WaitingIsFree, LaunchedOnce, RunningIsStarted, TransactionsAgree
<1> QED
    BY <1>1, <1>2, <1>3, FadingKeeps

LEMMA FinishRunInv ==
    ASSUME Inv, TypeInv', NEW w \in Workers, FinishRun(w)
    PROVE  QueueInv' /\ LeaseStep
<1> USE DEF Inv, QueueInv, TypeInv, TypeOK, Waiting, Running, Holding, Checked, Active, Final, Status, CState
<1>1. WaitingIsFree'
    BY QueueAssumption DEF FinishRun, Update, Written, Exists, Return, WaitingIsFree, HoldsOneJob, RunningIsStarted, LaunchedOnce, TransactionsAgree
<1>2. TransactionsAgree'
    BY QueueAssumption DEF FinishRun, Update, Written, Exists, Return, TransactionsAgree, HoldsOneJob, WaitingIsFree
<1>3. RunningIsStarted'
    BY QueueAssumption DEF FinishRun, Update, Written, Exists, Return, RunningIsStarted, HoldsOneJob, WaitingIsFree, LaunchedOnce, TransactionsAgree
<1>4. HoldsOneJob' /\ LaunchedOnce'
    BY QueueAssumption DEF FinishRun, Update, Written, Exists, Return, HoldsOneJob, LaunchedOnce, WaitingIsFree, TransactionsAgree, RunningIsStarted
<1>5. \A i \in Jobs : Fades(i)
    BY DEF FinishRun, Update, Written, Exists, Return, Fades, LeaseOf, WorksOn, InRun, GivenUp, HoldsOneJob, WaitingIsFree, LaunchedOnce, RunningIsStarted, TransactionsAgree
<1> QED
    BY <1>1, <1>2, <1>3, <1>4, <1>5, FadingKeeps

LEMMA FinishFailsInv ==
    ASSUME Inv, TypeInv', NEW w \in Workers, FinishFails(w)
    PROVE  QueueInv' /\ LeaseStep
<1> USE DEF Inv, QueueInv, TypeInv, TypeOK, Waiting, Running, Holding, Checked, Active, Final, Status, CState
<1>1. HoldsOneJob' /\ WaitingIsFree' /\ TransactionsAgree' /\ RunningIsStarted' /\ LaunchedOnce'
    BY QueueAssumption DEF FinishFails, HoldsOneJob, WaitingIsFree, TransactionsAgree, RunningIsStarted, LaunchedOnce
<1>2. \A i \in Jobs : Fades(i)
    BY DEF FinishFails, Fades, LeaseOf, WorksOn, InRun, GivenUp, Exists, HoldsOneJob, WaitingIsFree, LaunchedOnce, RunningIsStarted, TransactionsAgree
<1> QED
    BY <1>1, <1>2, FadingKeeps

LEMMA FailRunInv ==
    ASSUME Inv, TypeInv', NEW w \in Workers, FailRun(w)
    PROVE  QueueInv' /\ LeaseStep
<1> USE DEF Inv, QueueInv, TypeInv, TypeOK, Waiting, Running, Holding, Checked, Active, Final, Status, CState
<1>1. WaitingIsFree'
    BY QueueAssumption DEF FailRun, Update, Written, Exists, Return, WaitingIsFree, HoldsOneJob, RunningIsStarted, LaunchedOnce, TransactionsAgree
<1>2. TransactionsAgree'
    BY QueueAssumption DEF FailRun, Update, Written, Exists, Return, TransactionsAgree, HoldsOneJob, WaitingIsFree
<1>3. RunningIsStarted'
    BY QueueAssumption DEF FailRun, Update, Written, Exists, Return, RunningIsStarted, HoldsOneJob, WaitingIsFree, LaunchedOnce, TransactionsAgree
<1>4. HoldsOneJob' /\ LaunchedOnce'
    BY QueueAssumption DEF FailRun, Update, Written, Exists, Return, HoldsOneJob, LaunchedOnce, WaitingIsFree, TransactionsAgree, RunningIsStarted
<1>5. PICK j \in Jobs : j = job[w]
    BY DEF FailRun, HoldsOneJob
<1>6. \A i \in Jobs \ {j} : LeaseOf(i)' = LeaseOf(i)
    BY <1>5 DEF FailRun, Update, Written, Exists, Return, LeaseOf, WorksOn, InRun, GivenUp, HoldsOneJob
<1>7. /\ LeaseOf(j)' \in {LeaseOf(j), "none", "lapsed"}
      /\ LeaseOf(j) = "none" => LeaseOf(j)' = "none"
    BY <1>5 DEF FailRun, Update, Written, Exists, Return, LeaseOf, WorksOn, InRun, GivenUp, HoldsOneJob
<1> QED
    BY <1>1, <1>2, <1>3, <1>4, <1>6, <1>7, LapsingKeeps

LEMMA DieOnDeletedRowInv ==
    ASSUME Inv, TypeInv', NEW w \in Workers, DieOnDeletedRow(w)
    PROVE  QueueInv' /\ LeaseStep
<1> USE DEF Inv, QueueInv, TypeInv, TypeOK, Waiting, Running, Holding, Checked, Active, Final, Status, CState
<1>1. HoldsOneJob' /\ WaitingIsFree' /\ TransactionsAgree' /\ RunningIsStarted' /\ LaunchedOnce'
    BY QueueAssumption DEF DieOnDeletedRow, Die, Exists, HoldsOneJob, WaitingIsFree, TransactionsAgree, RunningIsStarted, LaunchedOnce
<1>2. \A i \in Jobs : Fades(i)
    BY DEF DieOnDeletedRow, Die, Exists, Fades, LeaseOf, WorksOn, InRun, GivenUp, HoldsOneJob, WaitingIsFree, LaunchedOnce, RunningIsStarted, TransactionsAgree
<1> QED
    BY <1>1, <1>2, FadingKeeps

LEMMA CrashInv ==
    ASSUME Inv, TypeInv', NEW w \in Workers, Crash(w)
    PROVE  QueueInv' /\ LeaseStep
<1> USE DEF Inv, QueueInv, TypeInv, TypeOK, Waiting, Running, Holding, Checked, Active, Final, Status, CState
<1>1. HoldsOneJob' /\ WaitingIsFree' /\ TransactionsAgree' /\ RunningIsStarted' /\ LaunchedOnce'
    BY QueueAssumption DEF Crash, Die, HoldsOneJob, WaitingIsFree, TransactionsAgree, RunningIsStarted, LaunchedOnce
<1>2. \A i \in Jobs : Fades(i)
    BY DEF Crash, Die, Fades, LeaseOf, WorksOn, InRun, GivenUp, Exists, HoldsOneJob, WaitingIsFree, LaunchedOnce, RunningIsStarted, TransactionsAgree
<1> QED
    BY <1>1, <1>2, FadingKeeps

LEMMA ContainerExitsInv ==
    ASSUME Inv, TypeInv', NEW c \in Containers, ContainerExits(c)
    PROVE  QueueInv' /\ LeaseStep
<1> USE DEF Inv, QueueInv, TypeInv, TypeOK, Waiting, Running, Holding, Checked, Active, Final, Status, CState
<1>1. HoldsOneJob' /\ WaitingIsFree' /\ TransactionsAgree' /\ RunningIsStarted' /\ LaunchedOnce'
    BY QueueAssumption DEF ContainerExits, HoldsOneJob, WaitingIsFree, TransactionsAgree, RunningIsStarted, LaunchedOnce
<1>2. \A i \in Jobs : Fades(i)
    BY DEF ContainerExits, Fades, LeaseOf, WorksOn, InRun, GivenUp, Exists, HoldsOneJob, WaitingIsFree, LaunchedOnce, RunningIsStarted, TransactionsAgree
<1> QED
    BY <1>1, <1>2, FadingKeeps

LEMMA CreateJobInv ==
    ASSUME Inv, TypeInv', NEW j \in Jobs, CreateJob(j)
    PROVE  QueueInv' /\ LeaseStep
<1> USE DEF Inv, QueueInv, TypeInv, TypeOK, Waiting, Running, Holding, Checked, Active, Final, Status, CState
<1>1. WaitingIsFree'
    BY QueueAssumption DEF CreateJob, WaitingIsFree, HoldsOneJob, RunningIsStarted, LaunchedOnce, TransactionsAgree
<1>2. TransactionsAgree'
    BY QueueAssumption DEF CreateJob, TransactionsAgree, HoldsOneJob, WaitingIsFree
<1>3. RunningIsStarted'
    BY QueueAssumption DEF CreateJob, RunningIsStarted, HoldsOneJob, WaitingIsFree, LaunchedOnce, TransactionsAgree
<1>4. HoldsOneJob' /\ LaunchedOnce'
    BY QueueAssumption DEF CreateJob, HoldsOneJob, LaunchedOnce, WaitingIsFree, TransactionsAgree, RunningIsStarted
<1>5. \A i \in Jobs : Fades(i)
    BY DEF CreateJob, Fades, LeaseOf, WorksOn, InRun, GivenUp, Exists, HoldsOneJob, WaitingIsFree, LaunchedOnce, RunningIsStarted, TransactionsAgree
<1> QED
    BY <1>1, <1>2, <1>3, <1>4, <1>5, FadingKeeps

LEMMA ElapseInv ==
    ASSUME Inv, TypeInv', NEW j \in Jobs, Elapse(j)
    PROVE  QueueInv' /\ LeaseStep
<1> USE DEF Inv, QueueInv, TypeInv, TypeOK, Waiting, Running, Holding, Checked, Active, Final, Status, CState
<1>1. WaitingIsFree'
    BY QueueAssumption DEF Elapse, WaitingIsFree, HoldsOneJob, RunningIsStarted, LaunchedOnce, TransactionsAgree
<1>2. RunningIsStarted'
    BY QueueAssumption DEF Elapse, RunningIsStarted, HoldsOneJob, WaitingIsFree, LaunchedOnce, TransactionsAgree
<1>3. HoldsOneJob' /\ TransactionsAgree' /\ LaunchedOnce'
    BY QueueAssumption DEF Elapse, HoldsOneJob, TransactionsAgree, LaunchedOnce, WaitingIsFree, RunningIsStarted
<1>4. \A i \in Jobs \ {j} : LeaseOf(i)' = LeaseOf(i)
    BY DEF Elapse, LeaseOf, WorksOn, InRun, GivenUp, Exists, HoldsOneJob
<1>5. /\ LeaseOf(j)' \in {LeaseOf(j), "none", "lapsed"}
      /\ LeaseOf(j) = "none" => LeaseOf(j)' = "none"
    BY DEF Elapse, LeaseOf, WorksOn, InRun, GivenUp, Exists, HoldsOneJob
<1> QED
    BY <1>1, <1>2, <1>3, <1>4, <1>5, LapsingKeeps

LEMMA DeleteProjectInv ==
    ASSUME Inv, TypeInv', NEW p \in Projects, DeleteProject(p)
    PROVE  QueueInv' /\ LeaseStep
<1> USE DEF Inv, QueueInv, TypeInv, TypeOK, Waiting, Running, Holding, Checked, Active, Final, Status, CState
<1>1. WaitingIsFree'
    BY QueueAssumption DEF DeleteProject, Update, Written, Locked, Exists, JobsOf, WaitingIsFree, HoldsOneJob, RunningIsStarted, LaunchedOnce, TransactionsAgree
<1>2. TransactionsAgree'
    BY QueueAssumption DEF DeleteProject, Update, Written, Locked, Exists, JobsOf, TransactionsAgree, HoldsOneJob, WaitingIsFree
<1>3. RunningIsStarted'
    BY QueueAssumption DEF DeleteProject, Update, Written, Locked, Exists, JobsOf, RunningIsStarted, HoldsOneJob, WaitingIsFree, LaunchedOnce, TransactionsAgree
<1>4. HoldsOneJob' /\ LaunchedOnce'
    BY QueueAssumption DEF DeleteProject, Update, Written, Locked, Exists, JobsOf, HoldsOneJob, LaunchedOnce, WaitingIsFree, TransactionsAgree, RunningIsStarted
<1>5. \A i \in Jobs : Fades(i)
    BY DEF DeleteProject, Update, Written, Locked, Exists, JobsOf, Fades, LeaseOf, WorksOn, InRun, GivenUp, HoldsOneJob, WaitingIsFree, LaunchedOnce, RunningIsStarted, TransactionsAgree
<1> QED
    BY <1>1, <1>2, <1>3, <1>4, <1>5, FadingKeeps

LEMMA ToggleProjectLockInv ==
    ASSUME Inv, TypeInv', NEW p \in Projects, ToggleProjectLock(p)
    PROVE  QueueInv' /\ LeaseStep
<1> USE DEF Inv, QueueInv, TypeInv, TypeOK, Waiting, Running, Holding, Checked, Active, Final, Status, CState
<1>1. TransactionsAgree'
    BY QueueAssumption DEF ToggleProjectLock, Update, Written, TransactionsAgree, HoldsOneJob, WaitingIsFree
<1>2. HoldsOneJob' /\ WaitingIsFree' /\ RunningIsStarted' /\ LaunchedOnce'
    BY QueueAssumption DEF ToggleProjectLock, Update, Written, HoldsOneJob, WaitingIsFree, RunningIsStarted, LaunchedOnce, TransactionsAgree
<1>3. \A i \in Jobs : Fades(i)
    BY DEF ToggleProjectLock, Update, Written, Fades, LeaseOf, WorksOn, InRun, GivenUp, Exists, HoldsOneJob, WaitingIsFree, LaunchedOnce, RunningIsStarted, TransactionsAgree
<1> QED
    BY <1>1, <1>2, <1>3, FadingKeeps

LEMMA SaveProjectInv ==
    ASSUME Inv, TypeInv', NEW p \in Projects, SaveProject(p)
    PROVE  QueueInv' /\ LeaseStep
<1> USE DEF Inv, QueueInv, TypeInv, TypeOK, Waiting, Running, Holding, Checked, Active, Final, Status, CState
<1>1. TransactionsAgree'
    BY QueueAssumption DEF SaveProject, Update, Written, TransactionsAgree, HoldsOneJob, WaitingIsFree
<1>2. HoldsOneJob' /\ WaitingIsFree' /\ RunningIsStarted' /\ LaunchedOnce'
    BY QueueAssumption DEF SaveProject, Update, Written, HoldsOneJob, WaitingIsFree, RunningIsStarted, LaunchedOnce, TransactionsAgree
<1>3. \A i \in Jobs : Fades(i)
    BY DEF SaveProject, Update, Written, Fades, LeaseOf, WorksOn, InRun, GivenUp, Exists, HoldsOneJob, WaitingIsFree, LaunchedOnce, RunningIsStarted, TransactionsAgree
<1> QED
    BY <1>1, <1>2, <1>3, FadingKeeps

LEMMA FailOverdueJobsInv ==
    ASSUME Inv, TypeInv', FailOverdueJobs
    PROVE  QueueInv' /\ LeaseStep
<1> USE DEF Inv, QueueInv, TypeInv, TypeOK, Waiting, Running, Holding, Checked, Active, Final, Status, CState
<1>1. WaitingIsFree'
    BY QueueAssumption DEF FailOverdueJobs, Update, Written, Overdue, WaitingIsFree, HoldsOneJob, RunningIsStarted, LaunchedOnce, TransactionsAgree
<1>2. TransactionsAgree'
    BY QueueAssumption DEF FailOverdueJobs, Update, Written, Overdue, TransactionsAgree, HoldsOneJob, WaitingIsFree
<1>3. RunningIsStarted'
    BY QueueAssumption DEF FailOverdueJobs, Update, Written, Overdue, RunningIsStarted, HoldsOneJob, WaitingIsFree, LaunchedOnce, TransactionsAgree
<1>4. HoldsOneJob' /\ LaunchedOnce'
    BY QueueAssumption DEF FailOverdueJobs, Update, Written, Overdue, HoldsOneJob, LaunchedOnce, WaitingIsFree, TransactionsAgree, RunningIsStarted
<1>5. \A i \in Jobs : Fades(i)
    BY DEF FailOverdueJobs, Update, Written, Overdue, Fades, LeaseOf, WorksOn, InRun, GivenUp, Exists, HoldsOneJob, WaitingIsFree, LaunchedOnce, RunningIsStarted, TransactionsAgree
<1> QED
    BY <1>1, <1>2, <1>3, <1>4, <1>5, FadingKeeps

-----------------------------------------------------------------------------
LEMMA InvInit == Init => Inv
<1> SUFFICES ASSUME Init PROVE Inv
    OBVIOUS
<1>1. TypeInv
    BY TypeInit
<1>2. HoldsOneJob /\ WaitingIsFree /\ TransactionsAgree /\ RunningIsStarted /\ LaunchedOnce
    BY <1>1, QueueAssumption DEF Init, HoldsOneJob, WaitingIsFree, Waiting, TransactionsAgree,
       RunningIsStarted, LaunchedOnce, Holding, Running, Checked
<1>3. ProjectExclusion
    BY DEF Init, ProjectExclusion, Exists
<1> QED
    BY <1>1, <1>2, <1>3 DEF Inv, QueueInv, TypeInv

\* As long as staff runs no job again, every step keeps the invariant and is one
\* that the leases allow.
LEMMA InvNext ==
    ASSUME MaxReruns = 0, Inv, [Next]_vars
    PROVE  Inv' /\ LeaseStep
<1>1. TypeInv /\ TypeInv'
    BY TypeNext DEF Inv, QueueInv, TypeInv
<1> SUFFICES QueueInv' /\ LeaseStep
    BY <1>1 DEF Inv, TypeInv
<1>2. ASSUME NEW w \in Workers, CleanupStep(w)
      PROVE  QueueInv' /\ LeaseStep
    BY <1>1, <1>2, ListWorkersInv, QueryJobsInv, KillOrphanInv, OrphanNotFoundInv,
       CleanupDoneInv
    DEF CleanupStep
<1>3. ASSUME NEW w \in Workers, DequeueStep(w)
      PROVE  QueueInv' /\ LeaseStep
    BY <1>1, <1>3, BeginDequeueInv, SkipLockedInv, SerializationFailureInv, LockRowInv,
       CommitQueuedInv
    DEF DequeueStep
<1>4. ASSUME NEW w \in Workers, RunStep(w)
      PROVE  QueueInv' /\ LeaseStep
    BY <1>1, <1>4, StartJobInv, CheckConcurrencyInv, ResetJobInv, PrepareRunInv,
       LaunchContainerInv, LaunchFailsInv, RecordContainerInv, SeeSigkillInv,
       SeeExitInv, FinishRunInv, FinishFailsInv, FailRunInv,
       DieOnDeletedRowInv
    DEF RunStep
<1>5. ASSUME NEW w \in Workers, Crash(w)
      PROVE  QueueInv' /\ LeaseStep
    BY <1>1, <1>5, CrashInv
<1>6. ASSUME NEW c \in Containers, ContainerExits(c)
      PROVE  QueueInv' /\ LeaseStep
    BY <1>1, <1>6, ContainerExitsInv
<1>7. ASSUME NEW j \in Jobs, JobStep(j)
      PROVE  QueueInv' /\ LeaseStep
    <2>1. ~RerunJob(j)
        BY <1>1 DEF RerunJob, TypeInv, TypeOK
    <2> QED
        BY <1>1, <1>7, <2>1, CreateJobInv, ElapseInv DEF JobStep
<1>8. ASSUME NEW p \in Projects, ProjectStep(p)
      PROVE  QueueInv' /\ LeaseStep
    BY <1>1, <1>8, DeleteProjectInv, ToggleProjectLockInv, SaveProjectInv DEF ProjectStep
<1>9. CASE FailOverdueJobs
    BY <1>1, <1>9, FailOverdueJobsInv
<1>10. CASE UNCHANGED vars
    <2>1. QueueInv'
        BY <1>10 DEF vars, Inv, QueueInv, HoldsOneJob, WaitingIsFree, Scanning, TransactionsAgree,
           RunningIsStarted, LaunchedOnce, ProjectExclusion, WorksOn, InRun, GivenUp, Exists
    <2>2. \A i \in Jobs : LeaseOf(i)' = LeaseOf(i)
        BY <1>10 DEF vars, LeaseOf, WorksOn, InRun, GivenUp, Exists
    <2> QED
        BY <2>1, <2>2 DEF LeaseStep
<1> QED
    BY <1>2, <1>3, <1>4, <1>5, <1>6, <1>7, <1>8, <1>9, <1>10 DEF Next, WorkerStep

\* The invariant of the queue holds: what a worker has in memory agrees with the
\* table, with the locks of the dequeue transactions and with the containers.
THEOREM QueueInvariant ==
    ASSUME MaxReruns = 0
    PROVE  Spec => []QueueInv
<1>1. Inv /\ [Next]_vars => Inv'
    BY InvNext
<1>2. Inv => QueueInv
    BY DEF Inv
<1> QED
    BY InvInit, <1>1, <1>2, PTL DEF Spec

\* No job is run by two workers, and two jobs of a project are worked on at a
\* time only when one of them was given up.  (The busy projects of dequeue.py
\* and the concurrency check of JobRun.run)
THEOREM MutualExclusionHolds ==
    ASSUME MaxReruns = 0
    PROVE  Spec => []MutualExclusion
<1>1. QueueInv => MutualExclusion
    BY DEF QueueInv, MutualExclusion, OneRunPerJob, HoldsOneJob, InRun, Holding
<1> QED
    BY QueueInvariant, <1>1, PTL

\* A final status is changed only for a job that the cron job failed while its
\* worker was still busy with it.  (The saves of JobRun.run and cron.py)
THEOREM FinalStatusSticksHolds ==
    ASSUME MaxReruns = 0
    PROVE  Spec => FinalStatusSticks
<1> DEFINE Sticks == \A j \in Jobs :
        status[j] \in Final /\ status'[j] \notin {status[j], "deleted"}
        => status[j] = "failed" /\ startedAt[j] = "old"
<1>1. ASSUME Inv, [Next]_vars PROVE Sticks
    <2> USE <1>1 DEF Inv, QueueInv, TypeOK, HoldsOneJob, RunningIsStarted, TransactionsAgree,
            Holding, Running, Checked, Final, Active, Exists
    <2>1. CASE UNCHANGED status
        BY <2>1
    <2>2. ASSUME NEW w \in Workers, CommitQueued(w) PROVE Sticks
        BY <2>2 DEF CommitQueued
    <2>3. ASSUME NEW w \in Workers, StartJob(w) \/ ResetJob(w) PROVE Sticks
        BY <2>3 DEF StartJob, ResetJob, SaveJob
    <2>4. ASSUME NEW w \in Workers, FinishRun(w) \/ FailRun(w) PROVE Sticks
        BY <2>4 DEF FinishRun, FailRun
    <2>5. ASSUME NEW j \in Jobs, CreateJob(j) PROVE Sticks
        BY <2>5 DEF CreateJob
    <2>6. ASSUME NEW p \in Projects, DeleteProject(p) PROVE Sticks
        BY <2>6 DEF DeleteProject
    <2>7. CASE FailOverdueJobs
        BY <2>7 DEF FailOverdueJobs, Overdue
    <2>8. ASSUME NEW w \in Workers, WorkerStep(w) PROVE Sticks
        <3>1. CASE CleanupStep(w)
            BY <3>1, <2>1 DEF CleanupStep, ListWorkers, QueryJobs, KillOrphan, OrphanNotFound,
               CleanupDone, Die
        <3>2. CASE DequeueStep(w)
            BY <3>2, <2>1, <2>2 DEF DequeueStep, BeginDequeue, SkipLocked, SerializationFailure,
               LockRow, Die
        <3>3. CASE RunStep(w)
            BY <3>3, <2>1, <2>3, <2>4 DEF RunStep, CheckConcurrency, PrepareRun, LaunchContainer,
               LaunchFails, RecordContainer, SeeSigkill, SeeExit, FinishFails, DieOnDeletedRow,
               Die
        <3> QED
            BY <2>8, <3>1, <3>2, <3>3 DEF WorkerStep
    <2>9. ASSUME NEW j \in Jobs, JobStep(j) PROVE Sticks
        BY <2>9, <2>1, <2>5 DEF JobStep, RerunJob, Elapse
    <2> QED
        BY <2>1, <2>6, <2>7, <2>8, <2>9 DEF Next, vars, Crash, Die, ContainerExits, ProjectStep,
           ToggleProjectLock, SaveProject
<1>2. Inv /\ [Next]_vars => Inv'
    BY InvNext
<1> QED
    BY InvInit, <1>1, <1>2, PTL DEF Spec, FinalStatusSticks

\* The queue implements the leases of ProjectLease: a job takes its project only
\* when no other job holds it, and a lease that lapsed is never renewed.
THEOREM LeasesImplemented ==
    ASSUME MaxReruns = 0
    PROVE  Spec => ImplementsLeases
<1>1. Init => Leases!LeaseInit
    BY DEF Init, Leases!LeaseInit, LeaseOf, Exists
<1>2. Inv /\ [Next]_vars => Inv' /\ LeaseStep
    BY InvNext
<1> QED
    BY InvInit, <1>1, <1>2, PTL DEF Spec, ImplementsLeases, Leases!LeaseSpec, LeaseStep

-----------------------------------------------------------------------------
(* The order of the runs, of one worker                                    *)

\* Job k is not waiting for its first run: its row or its project is gone, or it
\* was started.
Passed(k) ==
    \/ status[k] = "deleted"
    \/ status[k] = "unborn" /\ ProjectOf[k] \in deleted
    \/ startedAt[k] # "null"

\* The jobs of a project that were created before job j.
Earlier(j) == {k \in JobsOf(ProjectOf[j]) : k < j}

\* A job was started before its run ends, and `started_at` stays set.
StartedAtSet ==
    /\ \A j \in Jobs : status[j] \in Final => startedAt[j] # "null"
    /\ \A w \in Workers : pc[w] \in Running => startedAt[job[w]] # "null"

\* The jobs of a snapshot, and the one in memory, were created.
WorksOnRows ==
    /\ \A w \in Workers : \A j \in todo[w] : status[j] # "unborn"
    /\ \A w \in Workers : pc[w] \in Holding \cup {"found"} =>
          job[w] \in Jobs /\ status[job[w]] # "unborn"

\* Jobs get their numbers in the order of their creation.
CreatedInOrder ==
    \A j \in Jobs, k \in Jobs : k < j /\ status[j] # "unborn" =>
        status[k] # "unborn" \/ ProjectOf[k] \in deleted

\* What the worker has yet to try to lock lacks no earlier job, and what it took
\* has no earlier job before it.
TakesInOrder ==
    /\ \A w \in Workers : \A j \in todo[w] : \A k \in Earlier(j) : k \in todo[w] \/ Passed(k)
    /\ \A w \in Workers : pc[w] \in {"found", "start", "check"} =>
          \A k \in Earlier(job[w]) : Passed(k)

OrderInv == StartedAtSet /\ WorksOnRows /\ CreatedInOrder /\ TakesInOrder

LEMMA OrderInit == Init => OrderInv
BY QueueAssumption DEF Init, OrderInv, StartedAtSet, WorksOnRows, CreatedInOrder, TakesInOrder,
   Final, Running, Holding, Checked

\* A step that leaves the table alone, and by which the worker takes up no job and
\* gets no further with it.
LEMMA TableKept ==
    ASSUME TypeInv, TypeInv', OrderInv,
           UNCHANGED <<status, startedAt, deleted>>,
           \A w \in Workers : todo'[w] = {} \/ todo'[w] = todo[w],
           \A w \in Workers :
              \/ pc'[w] \notin Holding \cup {"found"}
              \/ job'[w] = job[w] /\ pc'[w] = pc[w]
              \/ job'[w] = job[w] /\ pc[w] \in Running /\ pc'[w] \in Running \ {"check"}
    PROVE  OrderInv'
<1> USE DEF TypeInv, TypeOK, OrderInv, Holding, Running, Checked
<1>1. StartedAtSet' /\ WorksOnRows' /\ CreatedInOrder'
    BY DEF StartedAtSet, WorksOnRows, CreatedInOrder
<1>2. \A k \in Jobs : Passed(k) => Passed(k)'
    BY DEF Passed
<1>3. TakesInOrder'
    BY <1>2 DEF TakesInOrder, Earlier, JobsOf
<1> QED
    BY <1>1, <1>3

\* A step of another process on the table: it creates no job out of order, it
\* brings no row back, and a job that passed stays so.
LEMMA TableWritten ==
    ASSUME TypeInv, TypeInv', OrderInv, CreatedInOrder',
           UNCHANGED <<pc, job, todo>>,
           \A j \in Jobs : status'[j] \in Final => status[j] \in Final \/ startedAt[j] # "null",
           \A j \in Jobs : status[j] # "unborn" => status'[j] # "unborn",
           \A j \in Jobs : startedAt[j] # "null" => startedAt'[j] # "null",
           \A j \in Jobs : Passed(j) => Passed(j)'
    PROVE  OrderInv'
<1> USE DEF TypeInv, TypeOK, OrderInv, Holding, Running, Checked
<1>1. StartedAtSet' /\ WorksOnRows'
    BY DEF StartedAtSet, WorksOnRows
<1>2. TakesInOrder'
    BY DEF TakesInOrder, Earlier, JobsOf
<1> QED
    BY <1>1, <1>2

\* The snapshot of the dequeue transaction: a job of a project that is not busy
\* is pending, and then it is in the snapshot, or it passed.
LEMMA BeginDequeueInOrder ==
    ASSUME TypeInv, OrderInv, NEW w \in Workers, BeginDequeue(w)
    PROVE  OrderInv'
<1> USE DEF TypeInv, TypeOK, OrderInv, Holding, Running, Checked
<1>1. StartedAtSet' /\ CreatedInOrder'
    BY DEF BeginDequeue, StartedAtSet, CreatedInOrder
<1>2. WorksOnRows'
    BY DEF BeginDequeue, WorksOnRows
<1>3. ASSUME NEW j \in todo'[w], NEW k \in Earlier(j), k \notin todo'[w]
      PROVE  Passed(k)
    <2>1. /\ j \in Jobs /\ status[j] = "pending"
          /\ ~Busy(ProjectOf[j]) /\ ProjectOf[j] \notin lockedAt
        BY <1>3 DEF BeginDequeue
    <2>2. k \in Jobs /\ ProjectOf[k] = ProjectOf[j] /\ k < j
        BY <1>3 DEF Earlier, JobsOf
    <2>3. status[k] # "pending"
        BY <1>3, <2>1, <2>2 DEF BeginDequeue
    <2>4. status[k] \notin Active
        BY <2>1, <2>2 DEF Busy, JobsOf
    <2>5. status[k] \in {"unborn", "deleted"} \cup Final
        BY <2>2, <2>3, <2>4 DEF Status
    <2>6. status[k] = "unborn" => ProjectOf[k] \in deleted
        BY <2>1, <2>2 DEF CreatedInOrder
    <2> QED
        BY <2>2, <2>5, <2>6 DEF Passed, StartedAtSet
<1>4. \A k \in Jobs : Passed(k)' <=> Passed(k)
    BY DEF BeginDequeue, Passed
<1>5. \A j : Earlier(j) \subseteq Jobs
    BY DEF Earlier, JobsOf
<1>6. \A v \in Workers : v # w => todo'[v] = todo[v] /\ pc'[v] = pc[v] /\ job'[v] = job[v]
    BY DEF BeginDequeue
<1>7. pc'[w] \notin {"found", "start", "check"}
    BY DEF BeginDequeue
<1>8. \A j : Earlier(j)' = Earlier(j)
    BY DEF Earlier, JobsOf
<1>9. TakesInOrder'
    BY <1>3, <1>4, <1>5, <1>6, <1>7, <1>8 DEF TakesInOrder
<1> QED
    BY <1>1, <1>2, <1>9

\* What the worker takes is the oldest row of those it has not tried.
LEMMA LockRowInOrder ==
    ASSUME TypeInv, OrderInv, NEW w \in Workers, LockRow(w)
    PROVE  OrderInv'
<1> USE DEF TypeInv, TypeOK, OrderInv, Holding, Running, Checked
<1> DEFINE i == Oldest(todo[w])
<1>1. i \in todo[w] /\ \A k \in todo[w] : i <= k
    BY OldestFirst DEF LockRow, Scanning
<1> HIDE DEF i
<1>2. /\ pc' = [pc EXCEPT ![w] = "found"]
      /\ job' = [job EXCEPT ![w] = i]
      /\ todo' = [todo EXCEPT ![w] = {}]
      /\ UNCHANGED <<status, startedAt, deleted>>
    BY DEF LockRow, i
<1>3. i \in Jobs
    BY <1>1
<1>4. StartedAtSet' /\ CreatedInOrder'
    BY <1>2 DEF StartedAtSet, CreatedInOrder
<1>5. WorksOnRows'
    BY <1>1, <1>2, <1>3 DEF WorksOnRows
<1>6. \A k \in Earlier(i) : k \notin todo[w]
    BY <1>1, <1>3, QueueAssumption DEF Earlier, JobsOf
<1>7. \A k \in Jobs : Passed(k)' <=> Passed(k)
    BY <1>2 DEF Passed
<1>8. \A j : Earlier(j)' = Earlier(j) /\ Earlier(j) \subseteq Jobs
    BY DEF Earlier, JobsOf
<1>9. TakesInOrder'
    BY <1>1, <1>2, <1>6, <1>7, <1>8 DEF TakesInOrder
<1> QED
    BY <1>4, <1>5, <1>9

\* One worker never meets a row that another one locked.
LEMMA OneWorkerSkipsNothing ==
    ASSUME NEW w, Workers = {w}, SkipLocked(w)
    PROVE  FALSE
BY DEF SkipLocked, LockedByOther

\* The saves of the worker on the row it has in memory.
LEMMA SavesInOrder ==
    ASSUME NEW w, Workers = {w}, TypeInv, TypeInv', OrderInv,
           CommitQueued(w) \/ StartJob(w) \/ ResetJob(w) \/ FinishRun(w) \/ FailRun(w)
    PROVE  OrderInv'
<1> USE DEF TypeInv, TypeOK, OrderInv, Holding, Running, Checked
<1>1. /\ pc[w] \in Holding \cup {"found"} /\ job[w] \in Jobs /\ status[job[w]] # "unborn"
      /\ todo[w] = {} /\ todo' = todo
      /\ UNCHANGED deleted
    BY DEF CommitQueued, StartJob, ResetJob, FinishRun, FailRun, SaveJob, WorksOnRows, Scanning
<1>2. PICK i \in Jobs : i = job[w]
    BY <1>1
<1>3. \A k \in Jobs : k # i => status'[k] = status[k] /\ startedAt'[k] = startedAt[k]
    BY <1>2 DEF CommitQueued, StartJob, ResetJob, FinishRun, FailRun, SaveJob
<1>4. status'[i] # "unborn"
    BY <1>2 DEF CommitQueued, StartJob, ResetJob, FinishRun, FailRun, SaveJob
<1>5. pc'[w] \in Holding \cup {"found"} => job'[w] = i
    BY <1>2 DEF CommitQueued, StartJob, ResetJob, FinishRun, FailRun, SaveJob, Return
<1>6. status'[i] \in Final => startedAt'[i] # "null"
    BY <1>2 DEF CommitQueued, StartJob, ResetJob, FinishRun, FailRun, SaveJob, StartedAtSet, Final
<1>7. pc'[w] \in Running => startedAt'[i] # "null"
    BY <1>2 DEF CommitQueued, StartJob, ResetJob, FinishRun, FailRun, SaveJob, Return
<1>8. StartedAtSet'
    BY <1>3, <1>5, <1>6, <1>7 DEF StartedAtSet
<1>9. WorksOnRows'
    BY <1>1, <1>4, <1>5 DEF WorksOnRows
<1>10. CreatedInOrder'
    BY <1>1, <1>2, <1>3, <1>4 DEF CreatedInOrder
<1>11. pc'[w] \in {"found", "start", "check"} => pc[w] \in {"found", "start", "check"}
    BY DEF CommitQueued, StartJob, ResetJob, FinishRun, FailRun, Return
<1>12. \A k \in Earlier(i) : k \in Jobs /\ k # i
    BY QueueAssumption DEF Earlier, JobsOf
<1>13. \A k \in Earlier(i) : Passed(k) => Passed(k)'
    BY <1>1, <1>3, <1>12 DEF Passed
<1>14. Earlier(i)' = Earlier(i)
    BY DEF Earlier, JobsOf
<1>15. TakesInOrder'
    BY <1>1, <1>2, <1>5, <1>11, <1>13, <1>14 DEF TakesInOrder
<1> QED
    BY <1>8, <1>9, <1>10, <1>15

LEMMA OrderNext ==
    ASSUME NEW u, Workers = {u}
    PROVE  TypeInv /\ OrderInv /\ [Next]_vars => OrderInv'
<1> SUFFICES ASSUME TypeInv, OrderInv, [Next]_vars PROVE OrderInv'
    OBVIOUS
<1>1. TypeInv'
    BY TypeNext
<1>2. TypeOK
    BY DEF TypeInv
<1>3. ASSUME NEW w \in Workers, CleanupStep(w)
      PROVE  OrderInv'
    BY <1>1, <1>2, <1>3, TableKept DEF TypeOK, CleanupStep, ListWorkers, QueryJobs, KillOrphan,
       OrphanNotFound, CleanupDone, Die, Holding, Checked
<1>4. ASSUME NEW w \in Workers, DequeueStep(w)
      PROVE  OrderInv'
    <2>1. CASE SerializationFailure(w)
        BY <1>1, <1>2, <2>1, TableKept DEF TypeOK, SerializationFailure, Die, Holding, Checked
    <2>2. ~SkipLocked(w)
        BY OneWorkerSkipsNothing
    <2> QED
        BY <1>1, <1>4, <2>1, <2>2, BeginDequeueInOrder, LockRowInOrder, SavesInOrder DEF DequeueStep
<1>5. ASSUME NEW w \in Workers, RunStep(w)
      PROVE  OrderInv'
    <2> USE <1>1, <1>2 DEF TypeOK, Holding, Running, Checked
    <2>1. CASE CheckConcurrency(w) \/ LaunchContainer(w) \/ LaunchFails(w) \/ FinishFails(w)
        BY <2>1, TableKept DEF CheckConcurrency, LaunchContainer, LaunchFails, FinishFails
    <2>2. CASE PrepareRun(w)
        BY <2>2, TableKept DEF PrepareRun
    <2>3. CASE RecordContainer(w)
        <3>1. PICK next \in {"wait", "fail"} : pc' = [pc EXCEPT ![w] = next]
            BY <2>3 DEF RecordContainer
        <3> QED BY <2>3, <3>1, TableKept DEF RecordContainer
    <2>4. CASE SeeSigkill(w)
        BY <2>4, TableKept DEF SeeSigkill, Return
    <2>5. CASE SeeExit(w)
        BY <2>5, TableKept DEF SeeExit
    <2>6. CASE DieOnDeletedRow(w)
        BY <2>6, TableKept DEF DieOnDeletedRow, Die
    <2> QED
        BY <1>5, <2>1, <2>2, <2>3, <2>4, <2>5, <2>6, SavesInOrder DEF RunStep
<1>6. ASSUME NEW w \in Workers, Crash(w) PROVE OrderInv'
    BY <1>1, <1>2, <1>6, TableKept DEF TypeOK, Crash, Die, Holding, Checked
<1>7. ASSUME NEW c \in Containers, ContainerExits(c) PROVE OrderInv'
    BY <1>1, <1>7, TableKept DEF ContainerExits
<1>8. ASSUME NEW j \in Jobs, JobStep(j)
      PROVE  OrderInv'
    <2> USE <1>1, <1>2 DEF TypeOK, OrderInv, CreatedInOrder, Passed, Final
    <2>1. CASE CreateJob(j)
        BY <2>1, TableWritten, QueueAssumption DEF CreateJob
    <2>2. CASE RerunJob(j)
        BY <2>2, TableWritten, QueueAssumption DEF RerunJob, Exists
    <2>3. CASE Elapse(j)
        BY <2>3, TableWritten, QueueAssumption DEF Elapse
    <2> QED BY <1>8, <2>1, <2>2, <2>3 DEF JobStep
<1>9. ASSUME NEW p \in Projects, ProjectStep(p)
      PROVE  OrderInv'
    <2> USE <1>1, <1>2 DEF TypeOK
    <2>1. CASE DeleteProject(p)
        BY <2>1, TableWritten, QueueAssumption DEF DeleteProject, Exists, JobsOf, OrderInv,
           CreatedInOrder, Passed, Final
    <2>2. CASE ToggleProjectLock(p) \/ SaveProject(p)
        BY <2>2, TableKept DEF ToggleProjectLock, SaveProject
    <2> QED BY <1>9, <2>1, <2>2 DEF ProjectStep
<1>10. CASE FailOverdueJobs
    BY <1>1, <1>2, <1>10, TableWritten, QueueAssumption DEF TypeOK, FailOverdueJobs, Overdue, Active,
       OrderInv, CreatedInOrder, Passed, Final
<1>11. CASE UNCHANGED vars
    BY <1>1, <1>11, TableKept DEF vars
<1> QED
    BY <1>3, <1>4, <1>5, <1>6, <1>7, <1>8, <1>9, <1>10, <1>11 DEF Next, WorkerStep

\* One worker runs the jobs of a project in the order of their creation: when it
\* passes the concurrency check, every job that still waits for its first run was
\* created later.  Staff may have run jobs again any number of times.
THEOREM RunsInOrderHolds ==
    ASSUME NEW u, Workers = {u}
    PROVE  Spec => RunsInOrder
<1> DEFINE InOrder == \A w \in Workers : Passes(w) =>
        \A k \in JobsOf(ProjectOf[job[w]]) :
            status[k] = "pending" /\ startedAt[k] = "null" => k > job[w]
<1>1. ASSUME TypeInv, OrderInv PROVE InOrder
    <2> SUFFICES ASSUME NEW w \in Workers, pc[w] = "check",
                        NEW k \in JobsOf(ProjectOf[job[w]]),
                        status[k] = "pending", startedAt[k] = "null"
                 PROVE  k > job[w]
        BY DEF Passes
    <2>1. job[w] \in Jobs /\ startedAt[job[w]] # "null"
        BY <1>1 DEF OrderInv, StartedAtSet, WorksOnRows, Running, Holding
    <2>2. k # job[w]
        BY <2>1
    <2>3. ~Passed(k)
        BY DEF Passed
    <2>4. k \notin Earlier(job[w])
        BY <1>1, <2>3 DEF OrderInv, TakesInOrder
    <2>5. ~ (k < job[w])
        BY <2>4 DEF Earlier
    <2>6. k \in Nat /\ job[w] \in Nat
        BY <2>1, QueueAssumption DEF JobsOf
    <2> QED
        BY <2>2, <2>5, <2>6
<1>2. Init => TypeInv /\ OrderInv
    BY TypeInit, OrderInit
<1>3. TypeInv /\ OrderInv /\ [Next]_vars => (TypeInv /\ OrderInv)'
    BY TypeNext, OrderNext
<1> QED
    BY <1>1, <1>2, <1>3, PTL DEF Spec, RunsInOrder
=============================================================================
