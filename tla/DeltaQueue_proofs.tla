--------------------------- MODULE DeltaQueue_proofs ---------------------------
(***************************************************************************)
(* Proofs about DeltaQueue, for any number of deltas, jobs and requests,   *)
(* any limit of a batch and any number of crashes.                         *)
(***************************************************************************)
EXTENDS DeltaQueue, FiniteSetTheorems, WellFoundedInduction, TLAPS

USE DEF rowVars, runVars, boxVars, txnVars, reqVars, cronVars, envVars

\* The id that the next job gets was not given before.
LEMMA NextJobUnborn ==
    ASSUME \E j \in Jobs : jobStatus[j] = "unborn"
    PROVE  NextJob \in Jobs /\ jobStatus[NextJob] = "unborn"
<1> DEFINE R == {z \in Nat \X Nat : z[1] < z[2]}
           S == {j \in Jobs : jobStatus[j] = "unborn"}
<1>1. IsWellFoundedOn(R, Nat)
    BY NatLessThanWellFounded DEF OpToRel
<1>2. S \subseteq Nat /\ S # {}
    BY DeltaAssumption
<1> HIDE DEF R
<1>3. PICK x \in S : \A y \in S : ~ (<<y, x>> \in R)
    BY <1>1, <1>2, WFMin
<1>4. ASSUME NEW y \in S PROVE x <= y
    <2>1. <<y, x>> \in Nat \X Nat /\ ~ (<<y, x>>[1] < <<y, x>>[2])
        BY <1>2, <1>3 DEF R
    <2> QED BY <1>2, <2>1
<1> QED BY <1>4 DEF NextJob

\* What r finds is finite, and counts no more than there are deltas.
LEMMA FoundCount ==
    ASSUME TypeOK, NEW r \in Requests
    PROVE  /\ Found(r) \subseteq Deltas
           /\ Cardinality(Found(r)) \in Nat
           /\ Cardinality(Found(r)) <= Cardinality(Deltas)
<1>1. Found(r) \subseteq Deltas
    BY DEF TypeOK, Found, Pending
<1> QED BY <1>1, DeltaAssumption, FS_Subset, FS_CardinalityType

-----------------------------------------------------------------------------
(* Type correctness                                                        *)

LEMMA TypeInit == Init => TypeOK
BY DeltaAssumption DEF Init, TypeOK

LEMMA EndTransactionTypes ==
    ASSUME TypeOK, NEW r \in Requests, EndTransaction(r)
    PROVE  /\ rpc' \in [Requests -> {"idle", "insert", "apply", "jobs", "count", "batch", "lock"}]
           /\ want' \in [Requests -> SUBSET Deltas]
           /\ excludes' \in [Requests -> BOOLEAN]
           /\ count' \in [Requests -> Nat]
           /\ batch' \in [Requests -> Nat]
           /\ selected' \in [Requests -> SUBSET Deltas]
           /\ opened' \in [Requests -> SUBSET Jobs]
           /\ locks' \in [Requests -> SUBSET Deltas]
BY DEF TypeOK, EndTransaction

LEMMA TypeRequest ==
    ASSUME TypeOK, NEW r \in Requests, Post(r) \/ RequestApply(r) \/ RequestStep(r)
    PROVE  TypeOK'
<1> USE DEF TypeOK, Active, Final, SaveJobs, Status, Outcome
<1>1. CASE Post(r)
    <2>1. PICK new \in SUBSET {d \in Deltas : lastStatus[d] = "none"} :
              want' = [want EXCEPT ![r] = new]
        BY <1>1 DEF Post
    <2> QED BY <1>1, <2>1 DEF Post
<1>2. CASE RequestApply(r)
    <2>1. PICK D \in {Deltas} \cup {{d} : d \in Touchable} : want' = [want EXCEPT ![r] = D]
        BY <1>2 DEF RequestApply
    <2>2. D \subseteq Deltas
        BY ZenonT(60), DeltaAssumption
    <2> QED BY <1>2, <2>1, <2>2 DEF RequestApply
<1>3. CASE LockFirst(r)
    <2>1. PICK d \in Deltas : locks' = [locks EXCEPT ![r] = {d}]
        BY <1>3 DEF LockFirst, Pending
    <2> QED BY <1>3, <2>1 DEF LockFirst
<1>4. CASE NothingToApply(r)
    BY <1>4, EndTransactionTypes DEF NothingToApply
<1>5. CASE SeeActiveJobs(r)
    BY <1>5 DEF SeeActiveJobs
<1>6. CASE CountDeltas(r)
    <2>1. CASE Found(r) = {}
        BY <1>6, <2>1, EndTransactionTypes DEF CountDeltas
    <2>2. CASE Found(r) # {}
        BY <1>6, <2>2, FoundCount DEF CountDeltas
    <2> QED BY <2>1, <2>2
<1>7. CASE OpenJob(r)
    <2>1. NextJob \in Jobs
        BY <1>7, NextJobUnborn DEF OpenJob
    <2> QED BY <1>7, <2>1, FoundCount DEF OpenJob
<1>8. CASE FillJob(r)
    <2> DEFINE still == selected[r] \cap Pending(r)
               slice == Slice(still, Offset(batch[r]), Bound(batch[r], count[r]))
               passed == Slice(still, 0, Bound(batch[r], count[r]))
               last == CHOOSE k \in opened[r] : \A l \in opened[r] : l <= k
    <2>1. slice \subseteq Deltas /\ passed \subseteq Deltas
        BY DEF Slice, Pending
    <2>2. /\ locks' = [locks EXCEPT ![r] = @ \cup passed]
          /\ deltasOf' = [deltasOf EXCEPT ![last] = slice]
          /\ batch' = [batch EXCEPT ![r] = @ + 1]
          /\ rpc' = [rpc EXCEPT ![r] = "batch"]
          /\ UNCHANGED <<lastStatus, jobStatus, runVars, boxVars, want, excludes, count, selected,
                         opened, cronVars, envVars>>
        BY <1>8 DEF FillJob
    <2> HIDE DEF slice, passed, last
    <2>3. locks' \in [Requests -> SUBSET Deltas]
        BY <2>1, <2>2
    <2>4. deltasOf' \in [Jobs -> SUBSET Deltas]
        BY <2>1, <2>2
    <2>5. batch' \in [Requests -> Nat]
        BY <2>2
    <2> QED BY <2>2, <2>3, <2>4, <2>5
<1>9. CASE CommitJobs(r)
    BY <1>9, EndTransactionTypes DEF CommitJobs
<1>10. CASE InsertDeltas(r)
    <2>1. CASE \A d \in want[r] : lastStatus[d] = "none"
        <3>1. PICK unpermitted \in SUBSET want[r] :
                  lastStatus' = [d \in Deltas |->
                     CASE d \in unpermitted -> "refused"
                       [] d \in want[r] \ unpermitted -> "pending"
                       [] OTHER -> lastStatus[d]]
            BY <1>10, <2>1 DEF InsertDeltas
        <3>2. \A d \in Deltas : lastStatus'[d] \in {"refused", "pending", lastStatus[d]}
            BY <3>1
        <3>3. lastStatus' \in [Deltas -> Status \cup {"none"}]
            BY <3>1, <3>2
        <3> QED BY SMTT(30), <1>10, <2>1, <3>3, DeltaAssumption DEF InsertDeltas
    <2>2. CASE ~ \A d \in want[r] : lastStatus[d] = "none"
        BY <1>10, <2>2 DEF InsertDeltas
    <2> QED BY <2>1, <2>2
<1>11. CASE Abort(r)
    BY <1>11, EndTransactionTypes DEF Abort
<1> QED
    BY <1>1, <1>2, <1>3, <1>4, <1>5, <1>6, <1>7, <1>8, <1>9, <1>10, <1>11 DEF RequestStep

LEMMA TypeJob ==
    ASSUME TypeOK, NEW j \in Jobs, StartJob(j) \/ WorkerStep(j) \/ Crash(j) \/ ContainerStep(j)
    PROVE  TypeOK'
<1> USE DEF TypeOK, Active, Final, Alive, Status, Outcome, SaveJobs, Goto, Leave, MarkDeltas, GiveUp
<1>1. CASE StartJob(j)
    BY <1>1 DEF StartJob
<1>2. CASE Prepare(j)
    BY <1>2 DEF Prepare
<1>3. CASE PrepareFails(j)
    BY <1>3 DEF PrepareFails
<1>4. CASE Launch(j)
    BY <1>4 DEF Launch
<1>5. CASE LaunchFails(j)
    BY <1>5 DEF LaunchFails
<1>6. CASE SeeSuccess(j)
    BY <1>6 DEF SeeSuccess
<1>7. CASE WriteFeedback(j)
    <2>1. PICK d \in Deltas, s \in {"applied", "rejected"} :
              /\ lastStatus' = [lastStatus EXCEPT ![d] = s]
              /\ feedback' = [feedback EXCEPT ![j] = @ \ {d}]
        BY <1>7 DEF WriteFeedback
    <2> QED BY <1>7, <2>1 DEF WriteFeedback
<1>8. CASE FeedbackFails(j)
    BY <1>8 DEF FeedbackFails
<1>9. CASE FinishJob(j)
    BY <1>9 DEF FinishJob
<1>10. CASE SeeFailure(j)
    BY <1>10 DEF SeeFailure
<1>11. CASE AfterException(j)
    BY <1>11 DEF AfterException
<1>12. CASE LoseContainer(j)
    BY <1>12 DEF LoseContainer
<1>13. CASE HandleException(j)
    BY <1>13 DEF HandleException
<1>14. CASE SaveFailed(j)
    BY <1>14 DEF SaveFailed
<1>15. CASE Crash(j)
    BY <1>15, DeltaAssumption DEF Crash
<1>16. CASE ApplyToCopy(j)
    BY <1>16 DEF ApplyToCopy
<1>17. CASE UploadAndExit(j)
    BY <1>17 DEF UploadAndExit
<1>18. CASE FailAndExit(j)
    BY <1>18 DEF FailAndExit
<1> QED
    BY <1>1, <1>2, <1>3, <1>4, <1>5, <1>6, <1>7, <1>8, <1>9, <1>10, <1>11, <1>12, <1>13, <1>14,
       <1>15, <1>16, <1>17, <1>18 DEF WorkerStep, ContainerStep

LEMMA TypeCron ==
    ASSUME TypeOK, CronStep \/ CronDies \/ (\E d \in Deltas : SetStatus(d))
    PROVE  TypeOK'
<1> USE DEF TypeOK, Active, Final, Alive, Status, Outcome, SaveJobs, MarkDeltas, GiveUp
<1>1. CASE CronBegin
    BY <1>1 DEF CronBegin
<1>2. ASSUME NEW j \in Jobs, CronMark(j) PROVE TypeOK'
    BY <1>2 DEF CronMark
<1>3. CASE CronFail
    BY <1>3 DEF CronFail
<1>4. CASE CronDies
    BY <1>4, DeltaAssumption DEF CronDies
<1>5. ASSUME NEW d \in Deltas, SetStatus(d) PROVE TypeOK'
    BY <1>5 DEF SetStatus
<1> QED
    BY <1>1, <1>2, <1>3, <1>4, <1>5 DEF CronStep

LEMMA TypeNext == TypeOK /\ [Next]_vars => TypeOK'
<1>1. ASSUME TypeOK, UNCHANGED vars PROVE TypeOK'
    BY <1>1 DEF vars, TypeOK
<1> QED
    BY <1>1, TypeRequest, TypeJob, TypeCron DEF Next

LEMMA TypeAlways == Spec => []TypeOK
BY TypeInit, TypeNext, PTL DEF Spec

-----------------------------------------------------------------------------
(* What is reported as applied was written                                 *)

\* The jobs that transactions have created belong to one of them, and are not
\* run; one job at a time is started.
Opening ==
    /\ \A r \in Requests : \A j \in opened[r] : jobStatus[j] = "open"
    /\ \A r, q \in Requests : r # q => opened[r] \cap opened[q] = {}
    /\ \A j \in Jobs : jobStatus[j] \in {"unborn", "open", "pending"} => pc[j] = "idle"
    /\ \A j, k \in Jobs : jobStatus[j] = "started" /\ jobStatus[k] = "started" => j = k

\* A job has a container from its launch on; the container lives while the job is
\* started, or was given up; the worker reads the feedback of one that succeeded,
\* and what that reports it has written.
Boxes ==
    /\ \A j \in Jobs : pc[j] \in {"idle", "prepare", "launch"} => box[j] = "none"
    /\ \A j \in Jobs : box[j] \in Alive => jobStatus[j] = "started" \/ j \in strays
    /\ \A j \in Jobs : box[j] \in {"none"} \cup Alive => wrote[j] = {}
    /\ \A j \in Jobs : box[j] = "ok" => result[j] \subseteq wrote[j]
    /\ \A j \in Jobs : pc[j] = "feedback" => box[j] = "ok"

\* As long as no container was given up, a copy is made of the data as it is, and
\* the data has all that was written.
Copies ==
    strays = {} => /\ \A j \in Jobs : box[j] = "applied" => copy[j] = data \cup result[j]
                   /\ \A j \in Jobs : wrote[j] \subseteq data

AppliedWritten == \A d \in Deltas : lastStatus[d] = "applied" => \E j \in Jobs : d \in wrote[j]

DataInv == TypeOK /\ Opening /\ Boxes /\ Copies /\ AppliedWritten

LEMMA DataInit == Init => DataInv
BY TypeInit DEF Init, DataInv, Opening, Boxes, Copies, AppliedWritten, Alive

\* A step that changes neither jobs nor containers, and reports nothing as applied.
LEMMA DataQuiet ==
    ASSUME DataInv, TypeOK', UNCHANGED <<jobStatus, pc, opened, boxVars, strays>>,
           \A d \in Deltas : lastStatus'[d] = "applied" => lastStatus[d] = "applied"
    PROVE  DataInv'
BY DEF DataInv, Opening, Boxes, Copies, AppliedWritten

\* A transaction creates jobs, commits them or gives them up.
LEMMA DataOpened ==
    ASSUME DataInv, TypeOK', NEW r \in Requests, NEW S, NEW status \in {"pending", "unborn"},
           UNCHANGED <<lastStatus, pc, boxVars, strays>>,
           \/ /\ \A j \in S : j \in Jobs /\ jobStatus[j] = "unborn"
              /\ SaveJobs(S, "open") /\ opened' = [opened EXCEPT ![r] = @ \cup S]
           \/ S = opened[r] /\ SaveJobs(S, status) /\ opened' = [opened EXCEPT ![r] = {}]
    PROVE  DataInv'
<1> USE DEF DataInv
<1>1. \A q \in Requests : opened[q] \subseteq Jobs
    BY DEF TypeOK
<1>2. \A j \in Jobs : jobStatus'[j] # jobStatus[j] =>
          jobStatus[j] \in {"unborn", "open"} /\ jobStatus'[j] \in {"unborn", "open", "pending"}
    BY <1>1 DEF SaveJobs, Opening
<1>3. Opening'
    <2>1. \A j \in Jobs : jobStatus'[j] \in {"unborn", "open", "pending"} => pc'[j] = "idle"
        BY <1>2 DEF Opening
    <2>2. \A j, k \in Jobs : jobStatus'[j] = "started" /\ jobStatus'[k] = "started" => j = k
        BY <1>2 DEF Opening
    <2>3. CASE SaveJobs(S, "open") /\ opened' = [opened EXCEPT ![r] = @ \cup S]
               /\ \A j \in S : j \in Jobs /\ jobStatus[j] = "unborn"
        <3>1. \A q \in Requests : opened'[q] = IF q = r THEN opened[r] \cup S ELSE opened[q]
            BY <2>3 DEF TypeOK
        <3>2. \A q \in Requests : \A j \in opened'[q] : jobStatus'[j] = "open"
            BY <1>1, <2>3, <3>1 DEF Opening, SaveJobs
        <3>3. \A q, p \in Requests : q # p => opened'[q] \cap opened'[p] = {}
            BY <2>3, <3>1 DEF Opening
        <3> QED BY <2>1, <2>2, <3>2, <3>3 DEF Opening
    <2>4. CASE S = opened[r] /\ SaveJobs(S, status) /\ opened' = [opened EXCEPT ![r] = {}]
        <3>1. \A q \in Requests : opened'[q] = IF q = r THEN {} ELSE opened[q]
            BY <2>4 DEF TypeOK
        <3>2. \A q \in Requests : \A j \in opened'[q] : jobStatus'[j] = "open"
            BY <1>1, <2>4, <3>1 DEF Opening, SaveJobs
        <3>3. \A q, p \in Requests : q # p => opened'[q] \cap opened'[p] = {}
            BY <3>1 DEF Opening
        <3> QED BY <2>1, <2>2, <3>2, <3>3 DEF Opening
    <2> QED BY <2>3, <2>4
<1>4. Boxes'
    BY <1>2 DEF Boxes
<1>5. Copies' /\ AppliedWritten'
    BY DEF Copies, AppliedWritten
<1> QED BY <1>3, <1>4, <1>5

LEMMA DataRequest ==
    ASSUME DataInv, TypeOK', NEW r \in Requests, Post(r) \/ RequestApply(r) \/ RequestStep(r)
    PROVE  DataInv'
<1>1. CASE Post(r)
    BY <1>1, DataQuiet DEF Post
<1>2. CASE RequestApply(r)
    BY <1>2, DataQuiet DEF RequestApply
<1>3. CASE LockFirst(r)
    BY <1>3, DataQuiet DEF LockFirst
<1>4. CASE SeeActiveJobs(r)
    BY <1>4, DataQuiet DEF SeeActiveJobs
<1>5. CASE FillJob(r)
    BY <1>5, DataQuiet DEF FillJob
<1>6. CASE InsertDeltas(r)
    <2>1. UNCHANGED <<jobStatus, pc, opened, boxVars, strays>>
        BY <1>6 DEF InsertDeltas
    <2>2. \A d \in Deltas : lastStatus'[d] = "applied" => lastStatus[d] = "applied"
        <3>1. CASE \A d \in want[r] : lastStatus[d] = "none"
            <4>1. PICK unpermitted \in SUBSET want[r] :
                      lastStatus' = [d \in Deltas |->
                         CASE d \in unpermitted -> "refused"
                           [] d \in want[r] \ unpermitted -> "pending"
                           [] OTHER -> lastStatus[d]]
                BY <1>6, <3>1 DEF InsertDeltas
            <4> QED BY <4>1
        <3>2. CASE ~ \A d \in want[r] : lastStatus[d] = "none"
            BY <1>6, <3>2 DEF InsertDeltas
        <3> QED BY <3>1, <3>2
    <2> QED BY <2>1, <2>2, DataQuiet
<1>7. CASE OpenJob(r)
    <2>1. SaveJobs({NextJob}, "open") /\ opened' = [opened EXCEPT ![r] = @ \cup {NextJob}]
          /\ UNCHANGED <<lastStatus, pc, boxVars, strays>>
        BY <1>7 DEF OpenJob
    <2>2. NextJob \in Jobs /\ jobStatus[NextJob] = "unborn"
        BY <1>7, NextJobUnborn DEF OpenJob
    <2> QED BY <2>1, <2>2, DataOpened
<1>8. CASE CommitJobs(r)
    BY <1>8, DataOpened DEF CommitJobs, EndTransaction
<1>9. CASE Abort(r)
    BY <1>9, DataOpened DEF Abort, EndTransaction
<1>10. CASE NothingToApply(r) \/ CountDeltas(r)
    <2>1. CASE UNCHANGED opened
        BY <1>10, <2>1, DataQuiet DEF NothingToApply, CountDeltas
    <2>2. CASE EndTransaction(r)
        <3>1. UNCHANGED <<lastStatus, jobStatus, pc, boxVars, strays>>
            BY <1>10 DEF NothingToApply, CountDeltas
        <3>2. \A q \in Requests : opened'[q] \subseteq opened[q]
            BY <2>2 DEF EndTransaction, DataInv, TypeOK
        <3>3. Opening'
            BY <3>1, <3>2 DEF DataInv, Opening
        <3> QED BY <3>1, <3>3 DEF DataInv, Boxes, Copies, AppliedWritten
    <2> QED BY <1>10, <2>1, <2>2 DEF NothingToApply, CountDeltas
<1> QED
    BY <1>1, <1>2, <1>3, <1>4, <1>5, <1>6, <1>7, <1>8, <1>9, <1>10 DEF RequestStep

\* A step of the worker of job j that leaves the containers alone.
LEMMA DataWorker ==
    ASSUME DataInv, TypeOK', NEW j \in Jobs, UNCHANGED <<jobStatus, strays, opened, boxVars>>,
           \A k \in Jobs : k # j => pc'[k] = pc[k],
           pc[j] # "idle" /\ pc'[j] \notin {"idle", "prepare"},
           pc'[j] = "launch" => pc[j] = "prepare",
           pc'[j] = "feedback" => box[j] = "ok",
           \A d \in Deltas : lastStatus'[d] = "applied" => lastStatus[d] = "applied"
    PROVE  DataInv'
<1> USE DEF DataInv
<1>1. Opening'
    BY DEF Opening
<1>2. Boxes'
    BY DEF Boxes
<1>3. Copies' /\ AppliedWritten'
    BY DEF Copies, AppliedWritten
<1> QED BY <1>1, <1>2, <1>3

LEMMA DataJob ==
    ASSUME DataInv, TypeOK', NEW j \in Jobs,
           StartJob(j) \/ WorkerStep(j) \/ Crash(j) \/ ContainerStep(j)
    PROVE  DataInv'
<1> USE DEF DataInv
<1>a. pc[j] # "idle" => jobStatus[j] \notin {"unborn", "open"}
    BY DEF Opening
<1>b. ASSUME NEW s, s # "applied", MarkDeltas(j, s)
      PROVE  \A d \in Deltas : lastStatus'[d] = "applied" => lastStatus[d] = "applied"
    BY <1>b DEF MarkDeltas
<1>1. CASE StartJob(j)
    <2> USE <1>1 DEF StartJob, SaveJobs, Goto
    <2>1. Opening'
        BY DEF Opening, TypeOK, Unrivalled
    <2>2. Boxes'
        BY DEF Boxes, Opening, TypeOK
    <2>3. Copies' /\ AppliedWritten'
        BY DEF Copies, AppliedWritten
    <2> QED BY <2>1, <2>2, <2>3
<1>2. CASE Prepare(j)
    <2>1. \A d \in Deltas : lastStatus'[d] = "applied" => lastStatus[d] = "applied"
        BY <1>b, <1>2 DEF Prepare
    <2> QED BY <1>2, <2>1, DataWorker DEF Prepare, Goto, TypeOK
<1>3. CASE PrepareFails(j)
    BY <1>3, DataWorker DEF PrepareFails, Goto, TypeOK
<1>4. CASE Launch(j)
    <2>1. Opening'
        BY <1>4 DEF Launch, Goto, Opening, TypeOK
    <2>2. Boxes'
        BY <1>4 DEF Launch, Goto, Boxes, Opening, TypeOK, Alive
    <2>3. Copies' /\ AppliedWritten'
        BY <1>4 DEF Launch, Copies, AppliedWritten, TypeOK
    <2> QED BY <2>1, <2>2, <2>3
<1>5. CASE LaunchFails(j)
    BY <1>5, DataWorker DEF LaunchFails, Goto, TypeOK
<1>6. CASE SeeSuccess(j)
    BY <1>6, DataWorker DEF SeeSuccess, Goto, TypeOK, Succeeded
<1>7. CASE WriteFeedback(j)
    <2>1. PICK d \in Deltas :
              lastStatus' = [lastStatus EXCEPT ![d] = IF d \in result[j] THEN "applied" ELSE "rejected"]
        BY <1>7 DEF WriteFeedback, TypeOK
    <2>2. result[j] \subseteq wrote[j]
        BY <1>7 DEF WriteFeedback, Boxes
    <2>3. \A e \in Deltas : lastStatus'[e] = "applied" =>
              lastStatus[e] = "applied" \/ \E k \in Jobs : e \in wrote[k]
        BY <2>1, <2>2 DEF TypeOK
    <2>4. UNCHANGED <<jobStatus, pc, opened, boxVars, strays>>
        BY <1>7 DEF WriteFeedback
    <2> QED BY <2>3, <2>4 DEF Opening, Boxes, Copies, AppliedWritten
<1>8. CASE FeedbackFails(j)
    BY <1>8, DataWorker DEF FeedbackFails, Goto, TypeOK
<1>9. CASE FinishJob(j)
    <2> USE <1>9 DEF FinishJob, Leave, Goto, SaveJobs
    <2>0. box[j] = "ok" /\ jobStatus[j] \notin {"unborn", "open"}
        BY <1>a DEF Boxes
    <2>1. Opening'
        <3>1. \A r \in Requests : j \notin opened[r] /\ opened[r] \subseteq Jobs
            BY <2>0 DEF Opening, TypeOK
        <3> QED BY <3>1 DEF Opening, TypeOK
    <2>2. Boxes'
        BY <2>0 DEF Boxes, TypeOK, Alive
    <2>3. Copies' /\ AppliedWritten'
        BY <2>0 DEF Copies, AppliedWritten, TypeOK
    <2> QED BY <2>1, <2>2, <2>3
<1>10. CASE SeeFailure(j)
    <2> USE <1>10 DEF SeeFailure, Goto, SaveJobs
    <2>1. Opening'
        <3>1. \A r \in Requests : j \notin opened[r] /\ opened[r] \subseteq Jobs
            BY <1>a DEF Opening, TypeOK
        <3> QED BY <3>1 DEF Opening, TypeOK
    <2>2. Boxes'
        BY DEF Boxes, TypeOK, Alive
    <2>3. Copies' /\ AppliedWritten'
        BY DEF Copies, AppliedWritten, TypeOK
    <2> QED BY <2>1, <2>2, <2>3
<1>11. CASE AfterException(j)
    <2>1. \A d \in Deltas : lastStatus'[d] = "applied" => lastStatus[d] = "applied"
        BY <1>b, <1>11 DEF AfterException
    <2> QED BY <1>11, <2>1, DataWorker DEF AfterException, Leave, Goto, TypeOK
<1>12. CASE LoseContainer(j)
    BY <1>12, DataWorker DEF LoseContainer, Goto, TypeOK
<1>13. CASE HandleException(j)
    <2>1. \A d \in Deltas : lastStatus'[d] = "applied" => lastStatus[d] = "applied"
        BY <1>b, <1>13 DEF HandleException
    <2> QED BY <1>13, <2>1, DataWorker DEF HandleException, Goto, TypeOK
<1>14. CASE SaveFailed(j)
    <2> USE <1>14 DEF SaveFailed, SaveJobs, Leave, Goto
    <2>0. strays \subseteq strays' /\ (box[j] \in Alive => j \in strays')
        BY DEF GiveUp
    <2>1. Opening'
        <3>1. \A r \in Requests : j \notin opened[r] /\ opened[r] \subseteq Jobs
            BY <1>a DEF Opening, TypeOK
        <3> QED BY <3>1 DEF Opening, TypeOK
    <2>2. Boxes'
        BY <2>0 DEF Boxes, TypeOK
    <2>3. Copies' /\ AppliedWritten'
        BY <2>0 DEF Copies, AppliedWritten
    <2> QED BY <2>1, <2>2, <2>3
<1>15. CASE Crash(j)
    BY <1>15, DataWorker DEF Crash, Leave, Goto, TypeOK
<1>16. CASE ApplyToCopy(j)
    <2> USE <1>16 DEF ApplyToCopy
    <2>1. Opening' /\ AppliedWritten'
        BY DEF Opening, AppliedWritten
    <2>2. Boxes'
        BY DEF Boxes, TypeOK, Alive
    <2>3. Copies'
        BY DEF Copies, TypeOK
    <2> QED BY <2>1, <2>2, <2>3
<1>17. CASE UploadAndExit(j)
    <2>1. Opening'
        BY <1>17 DEF UploadAndExit, Opening
    <2>2. /\ \A k \in Jobs : k # j => wrote'[k] = wrote[k] /\ copy'[k] = copy[k] /\ box'[k] = box[k]
          /\ UNCHANGED <<lastStatus, jobStatus, pc, strays, result>>
        BY <1>17 DEF UploadAndExit, TypeOK
    <2>3. box[j] = "applied" /\ wrote[j] = {}
        BY <1>17 DEF UploadAndExit, Boxes, Alive
    <2>4. \/ box'[j] \in {"ok", "err"} /\ wrote'[j] = result[j] /\ data' = copy[j]
          \/ box'[j] = "err" /\ UNCHANGED <<wrote, data>>
        BY <1>17 DEF UploadAndExit, TypeOK
    <2>6. Boxes'
        BY <2>2, <2>3, <2>4 DEF Boxes, Alive
    <2>7. AppliedWritten'
        BY <2>2, <2>3, <2>4 DEF AppliedWritten
    <2>8. strays = {} => \A k \in Jobs : k # j => box[k] # "applied"
        BY <2>3 DEF Boxes, Opening, Alive
    <2>9. Copies'
        BY <2>2, <2>3, <2>4, <2>8 DEF Copies
    <2> QED BY <2>1, <2>6, <2>7, <2>9
<1>18. CASE FailAndExit(j)
    <2> USE <1>18 DEF FailAndExit
    <2>1. Opening' /\ AppliedWritten'
        BY DEF Opening, AppliedWritten
    <2>2. Boxes'
        BY DEF Boxes, TypeOK, Alive
    <2>3. Copies'
        BY DEF Copies, TypeOK
    <2> QED BY <2>1, <2>2, <2>3
<1> QED
    BY <1>1, <1>2, <1>3, <1>4, <1>5, <1>6, <1>7, <1>8, <1>9, <1>10, <1>11, <1>12, <1>13, <1>14,
       <1>15, <1>16, <1>17, <1>18 DEF WorkerStep, ContainerStep

LEMMA DataCron ==
    ASSUME DataInv, TypeOK', CronStep \/ CronDies \/ (\E d \in Deltas : SetStatus(d))
    PROVE  DataInv'
<1> USE DEF DataInv
<1>1. CASE CronBegin
    BY <1>1, DataQuiet DEF CronBegin
<1>2. ASSUME NEW j \in Jobs, CronMark(j) PROVE DataInv'
    <2>1. \A d \in Deltas : lastStatus'[d] = "applied" => lastStatus[d] = "applied"
        BY <1>2 DEF CronMark, MarkDeltas
    <2> QED BY <1>2, <2>1, DataQuiet DEF CronMark
<1>3. CASE CronFail
    <2> DEFINE overdue == {j \in cronJobs : jobStatus[j] = "started"}
    <2>0. /\ jobStatus' = [j \in Jobs |-> IF j \in overdue THEN "failed" ELSE jobStatus[j]]
          /\ strays' = strays \cup {j \in overdue : box[j] \in Alive}
        BY <1>3 DEF CronFail, SaveJobs, GiveUp
    <2>1. \A j \in Jobs : \/ jobStatus'[j] = jobStatus[j]
                          \/ /\ jobStatus[j] = "started" /\ jobStatus'[j] = "failed"
                             /\ box[j] \in Alive => j \in strays'
        BY <2>0
    <2>2. strays \subseteq strays' /\ UNCHANGED <<lastStatus, pc, opened, boxVars>>
        BY <1>3 DEF CronFail, GiveUp
    <2>3. Opening'
        BY <2>1, <2>2 DEF Opening, TypeOK
    <2>4. Boxes'
        BY <2>1, <2>2 DEF Boxes
    <2>5. Copies' /\ AppliedWritten'
        BY <2>2 DEF Copies, AppliedWritten
    <2> QED BY <2>3, <2>4, <2>5
<1>4. CASE CronDies
    BY <1>4, DataQuiet DEF CronDies
<1>5. ASSUME NEW d \in Deltas, SetStatus(d) PROVE DataInv'
    <2>1. \A e \in Deltas : lastStatus'[e] = "applied" => lastStatus[e] = "applied"
        BY <1>5 DEF SetStatus, TypeOK
    <2> QED BY <1>5, <2>1, DataQuiet DEF SetStatus
<1> QED
    BY <1>1, <1>2, <1>3, <1>4, <1>5 DEF CronStep

LEMMA DataNext == DataInv /\ [Next]_vars => DataInv'
<1>1. ASSUME DataInv, UNCHANGED vars PROVE DataInv'
    BY <1>1, TypeNext, DataQuiet DEF vars, DataInv
<1>2. ASSUME DataInv, Next PROVE DataInv'
    <2>1. TypeOK'
        BY <1>2, TypeNext DEF DataInv
    <2> QED BY <1>2, <2>1, DataRequest, DataJob, DataCron DEF Next
<1> QED
    BY <1>1, <1>2

\* A delta that after_docker_run has reported as applied was written to the data
\* by the container of some job, and is there still unless a container that was
\* given up has replaced the data; all tables keep their types.
THEOREM AppliedIsThereAlways == Spec => []AppliedIsThere
<1>1. DataInv => AppliedIsThere
    BY DEF DataInv, AppliedIsThere, AppliedWritten, Copies, TypeOK
<1> QED
    BY <1>1, DataInit, DataNext, PTL DEF Spec

-----------------------------------------------------------------------------
(* One job for a delta                                                     *)

\* What apply_deltas relies on, and the code does not see to: requests do not
\* overlap, and what is pending fits into one batch.
OneAtATime == \A r, q \in Requests : r = q
OneBatch == Cardinality(Deltas) < Limit

\* A job that was created and is not finished.
Taken(j) == jobStatus[j] \in {"open"} \cup Active

\* A job whose container has been, or may still be, launched.
MayRun(j) == Taken(j) \/ pc[j] \in {"prepare", "launch", "run"} \/ box[j] # "none"

\* A job whose deltas were marked by its worker or by cron.
Marked(j) ==
    \/ pc[j] \in {"launch", "run"} \/ box[j] # "none"
    \/ jobStatus[j] \in Final /\ pc[j] = "prepare"
    \/ j \in cronJobs \ cronTodo

\* A transaction fills one job at most, with deltas that no active job has.
Batching ==
    \A r \in Requests :
        /\ rpc[r] \in {"idle", "insert", "apply", "jobs", "count"} => opened[r] = {} /\ batch[r] = 0
        /\ rpc[r] \in {"count", "batch", "lock"} /\ ~excludes[r] => \A j \in Jobs : jobStatus[j] \notin Active
        /\ rpc[r] \in {"batch", "lock"} => count[r] < Limit /\ batch[r] \in {0, 1}
        /\ rpc[r] = "batch" /\ batch[r] = 0 => opened[r] = {}
        /\ rpc[r] = "lock" =>
              /\ batch[r] = 0
              /\ \E j \in Jobs : opened[r] = {j} /\ deltasOf[j] = {}
              /\ \A j \in Jobs : jobStatus[j] \in Active => selected[r] \cap deltasOf[j] = {}

Rows ==
    /\ \A j \in Jobs : jobStatus[j] = "open" => \E r \in Requests : j \in opened[r]
    /\ \A j \in Jobs : jobStatus[j] = "unborn" => deltasOf[j] = {}
    /\ \A j \in Jobs : \A d \in deltasOf[j] : lastStatus[d] # "none"
    /\ \A j \in Jobs : wrote[j] \subseteq deltasOf[j]
    /\ \A j \in Jobs : box[j] = "applied" => result[j] \subseteq deltasOf[j]
    /\ \A j \in cronJobs : jobStatus[j] \notin {"unborn", "open", "pending"}

\* No delta of a marked job is pending, unless staff has set it so.
MarkedSettled == \A j \in Jobs : Marked(j) => \A d \in deltasOf[j] : lastStatus[d] = "pending" => d \in Touchable

OneTaken == \A j, k \in Jobs : j # k /\ Taken(j) /\ Taken(k) => deltasOf[j] \cap deltasOf[k] = {}

OneMayRun == \A j, k \in Jobs : j # k /\ MayRun(j) /\ MayRun(k) => deltasOf[j] \cap deltasOf[k] \subseteq Touchable

OnceInv == Batching /\ Rows /\ MarkedSettled /\ OneTaken /\ OneMayRun

LEMMA OnceInit == Init => OnceInv
BY DEF Init, OnceInv, Batching, Rows, MarkedSettled, OneTaken, OneMayRun, Taken, MayRun, Marked, Active, Final

\* A step of a worker, a container, cron or staff.
LEMMA OnceWorker ==
    ASSUME DataInv, OnceInv, UNCHANGED <<deltasOf, reqVars>>,
           \A d \in Deltas : /\ lastStatus'[d] = "none" => lastStatus[d] = "none"
                             /\ lastStatus'[d] = "pending" => lastStatus[d] = "pending" \/ d \in Touchable,
           \A k \in Jobs : /\ jobStatus'[k] = jobStatus[k] \/ jobStatus'[k] \in Final
                              \/ (jobStatus[k] = "pending" /\ jobStatus'[k] = "started")
                           /\ MayRun(k)' => MayRun(k)
                           /\ Marked(k)' => Marked(k) \/ \A d \in deltasOf[k] : lastStatus'[d] # "pending"
                           /\ wrote'[k] \subseteq deltasOf[k]
                           /\ box'[k] = "applied" => result'[k] \subseteq deltasOf[k],
           \A k \in cronJobs' : k \in cronJobs \/ jobStatus'[k] = "started"
    PROVE  OnceInv'
<1> USE DEF OnceInv
<1>1. deltasOf \in [Jobs -> SUBSET Deltas] /\ cronJobs \subseteq Jobs
    BY DEF DataInv, TypeOK
<1>2. \A k \in Jobs : /\ Taken(k)' => Taken(k)
                      /\ jobStatus'[k] \in Active => jobStatus[k] \in Active
                      /\ jobStatus'[k] = "open" => jobStatus[k] = "open"
                      /\ jobStatus'[k] = "unborn" => jobStatus[k] = "unborn"
                      /\ jobStatus[k] \notin {"unborn", "open", "pending"}
                            => jobStatus'[k] \notin {"unborn", "open", "pending"}
    BY DEF Taken, Active, Final
<1>3. Batching'
    BY <1>2 DEF Batching
<1>4. Rows'
    BY <1>1, <1>2 DEF Rows
<1>5. MarkedSettled'
    BY <1>1 DEF MarkedSettled
<1>6. OneTaken' /\ OneMayRun'
    BY <1>2 DEF OneTaken, OneMayRun
<1> QED BY <1>3, <1>4, <1>5, <1>6

\* The same, for the worker of job j: no other job changes, and no file.
LEMMA OnceOwn ==
    ASSUME DataInv, OnceInv, NEW j \in Jobs, UNCHANGED <<deltasOf, reqVars, cronVars, wrote>>,
           \A d \in Deltas : /\ lastStatus'[d] = "none" => lastStatus[d] = "none"
                             /\ lastStatus'[d] = "pending" => lastStatus[d] = "pending",
           \A k \in Jobs : k # j => /\ jobStatus'[k] = jobStatus[k] /\ pc'[k] = pc[k]
                                    /\ box'[k] = box[k] /\ result'[k] = result[k],
           \/ jobStatus'[j] = jobStatus[j] \/ jobStatus'[j] \in Final
           \/ jobStatus[j] = "pending" /\ jobStatus'[j] = "started",
           box'[j] # "applied" \/ (box[j] = "applied" /\ result'[j] = result[j]),
           MayRun(j)' => MayRun(j),
           Marked(j)' => Marked(j) \/ \A d \in deltasOf[j] : lastStatus'[d] # "pending"
    PROVE  OnceInv'
<1>1. \A k \in Jobs : k # j => /\ MayRun(k)' => MayRun(k)
                               /\ Marked(k)' => Marked(k)
    BY DEF MayRun, Marked, Taken
<1>2. \A k \in Jobs : /\ wrote'[k] \subseteq deltasOf[k]
                      /\ box'[k] = "applied" => result'[k] \subseteq deltasOf[k]
    BY DEF OnceInv, Rows
<1> QED BY <1>1, <1>2, OnceWorker

LEMMA OnceJob ==
    ASSUME DataInv, OnceInv, NEW j \in Jobs,
           StartJob(j) \/ WorkerStep(j) \/ Crash(j) \/ ContainerStep(j)
    PROVE  OnceInv'
<1> USE DEF MayRun, Marked, Taken, Active, Final, Goto, SaveJobs, Leave
<1>a. TypeOK
    BY DEF DataInv
<1>b. ASSUME NEW s, s \notin {"none", "pending"}, MarkDeltas(j, s)
      PROVE  /\ \A d \in Deltas : /\ lastStatus'[d] = "none" => lastStatus[d] = "none"
                                  /\ lastStatus'[d] = "pending" => lastStatus[d] = "pending"
             /\ \A d \in deltasOf[j] : lastStatus'[d] # "pending"
    BY <1>a, <1>b DEF MarkDeltas, TypeOK
<1>c. pc[j] \in {"idle", "prepare", "launch"} => box[j] = "none"
    BY DEF DataInv, Boxes
<1>d. jobStatus[j] \in {"unborn", "open", "pending"} => pc[j] = "idle"
    BY DEF DataInv, Opening
<1>e. pc[j] = "feedback" => box[j] = "ok"
    BY DEF DataInv, Boxes
<1>1. CASE StartJob(j)
    BY <1>1, <1>a, <1>c, <1>d, OnceOwn DEF StartJob, TypeOK
<1>2. CASE Prepare(j)
    <2>1. /\ \A d \in Deltas : /\ lastStatus'[d] = "none" => lastStatus[d] = "none"
                               /\ lastStatus'[d] = "pending" => lastStatus[d] = "pending"
          /\ \A d \in deltasOf[j] : lastStatus'[d] # "pending"
        BY <1>2, <1>b DEF Prepare
    <2>2. UNCHANGED <<deltasOf, jobStatus, boxVars, reqVars, cronVars>>
        BY <1>2 DEF Prepare, MarkDeltas
    <2> QED BY <1>2, <2>1, <2>2, <1>a, <1>c, <1>d, OnceOwn DEF Prepare, TypeOK
<1>3. CASE PrepareFails(j)
    BY <1>3, <1>a, OnceOwn DEF PrepareFails, TypeOK
<1>4. CASE Launch(j)
    BY <1>4, <1>a, OnceOwn DEF Launch, TypeOK
<1>5. CASE LaunchFails(j)
    BY <1>5, <1>a, OnceOwn DEF LaunchFails, TypeOK
<1>6. CASE SeeSuccess(j)
    BY <1>6, <1>a, OnceOwn DEF SeeSuccess, TypeOK
<1>7. CASE WriteFeedback(j)
    <2>1. PICK d \in Deltas, s \in {"applied", "rejected"} : lastStatus' = [lastStatus EXCEPT ![d] = s]
        BY <1>7, <1>a DEF WriteFeedback, TypeOK
    <2>2. \A e \in Deltas : /\ lastStatus'[e] = "none" => lastStatus[e] = "none"
                            /\ lastStatus'[e] = "pending" => lastStatus[e] = "pending"
        BY <2>1, <1>a DEF TypeOK
    <2> QED BY <1>7, <2>2, OnceOwn DEF WriteFeedback
<1>8. CASE FeedbackFails(j)
    BY <1>8, <1>a, OnceOwn DEF FeedbackFails, TypeOK
<1>9. CASE FinishJob(j)
    BY <1>9, <1>a, <1>e, OnceOwn DEF FinishJob, TypeOK
<1>10. CASE SeeFailure(j)
    BY <1>10, <1>a, OnceOwn DEF SeeFailure, TypeOK, Alive
<1>11. CASE AfterException(j)
    <2>1. \A d \in Deltas : /\ lastStatus'[d] = "none" => lastStatus[d] = "none"
                            /\ lastStatus'[d] = "pending" => lastStatus[d] = "pending"
        BY <1>11, <1>b DEF AfterException
    <2>2. UNCHANGED <<deltasOf, jobStatus, boxVars, reqVars, cronVars>>
        BY <1>11 DEF AfterException, MarkDeltas
    <2> QED BY <1>11, <2>1, <2>2, <1>a, OnceOwn DEF AfterException, TypeOK
<1>12. CASE LoseContainer(j)
    BY <1>12, <1>a, OnceOwn DEF LoseContainer, TypeOK
<1>13. CASE HandleException(j)
    <2>1. \A d \in Deltas : /\ lastStatus'[d] = "none" => lastStatus[d] = "none"
                            /\ lastStatus'[d] = "pending" => lastStatus[d] = "pending"
        BY <1>13, <1>b DEF HandleException
    <2>2. UNCHANGED <<deltasOf, jobStatus, boxVars, reqVars, cronVars>>
        BY <1>13 DEF HandleException, MarkDeltas
    <2> QED BY <1>13, <2>1, <2>2, <1>a, OnceOwn DEF HandleException, TypeOK
<1>14. CASE SaveFailed(j)
    BY <1>14, <1>a, OnceOwn DEF SaveFailed, TypeOK
<1>15. CASE Crash(j)
    BY <1>15, <1>a, OnceOwn DEF Crash, TypeOK
<1>16. CASE ApplyToCopy(j)
    <2>1. \A k \in Jobs : /\ wrote'[k] \subseteq deltasOf[k]
                          /\ box'[k] = "applied" => result'[k] \subseteq deltasOf[k]
        BY <1>16, <1>a DEF ApplyToCopy, TypeOK, OnceInv, Rows
    <2>2. \A k \in Jobs : (MayRun(k)' => MayRun(k)) /\ (Marked(k)' => Marked(k))
        BY <1>16, <1>a DEF ApplyToCopy, TypeOK
    <2>3. UNCHANGED <<rowVars, jobStatus, reqVars, cronVars>>
        BY <1>16 DEF ApplyToCopy
    <2> QED BY <2>1, <2>2, <2>3, OnceWorker
<1>17. CASE UploadAndExit(j)
    <2>1. \A k \in Jobs : /\ wrote'[k] \subseteq deltasOf[k]
                          /\ box'[k] = "applied" => result'[k] \subseteq deltasOf[k]
        BY <1>17, <1>a DEF UploadAndExit, TypeOK, OnceInv, Rows
    <2>2. \A k \in Jobs : (MayRun(k)' => MayRun(k)) /\ (Marked(k)' => Marked(k))
        BY <1>17, <1>a DEF UploadAndExit, TypeOK
    <2>3. UNCHANGED <<rowVars, jobStatus, reqVars, cronVars>>
        BY <1>17 DEF UploadAndExit
    <2> QED BY <2>1, <2>2, <2>3, OnceWorker
<1>18. CASE FailAndExit(j)
    BY <1>18, <1>a, OnceOwn DEF FailAndExit, TypeOK
<1> QED
    BY <1>1, <1>2, <1>3, <1>4, <1>5, <1>6, <1>7, <1>8, <1>9, <1>10, <1>11, <1>12, <1>13, <1>14,
       <1>15, <1>16, <1>17, <1>18 DEF WorkerStep, ContainerStep

LEMMA OnceCron ==
    ASSUME DataInv, OnceInv, CronStep \/ CronDies \/ (\E d \in Deltas : SetStatus(d))
    PROVE  OnceInv'
<1> USE DEF MayRun, Marked, Taken, Active, Final
<1>a. TypeOK
    BY DEF DataInv
<1>b. \A k \in Jobs : /\ wrote[k] \subseteq deltasOf[k]
                      /\ box[k] = "applied" => result[k] \subseteq deltasOf[k]
    BY DEF OnceInv, Rows
<1>1. CASE CronBegin
    BY <1>1, <1>a, <1>b, OnceWorker DEF CronBegin
<1>2. ASSUME NEW j \in Jobs, CronMark(j) PROVE OnceInv'
    <2>1. \A d \in Deltas : lastStatus'[d] = lastStatus[d] \/ lastStatus'[d] = "error"
        BY <1>2 DEF CronMark, MarkDeltas
    <2>2. \A d \in deltasOf[j] : lastStatus'[d] # "pending"
        BY <1>2, <1>a DEF CronMark, MarkDeltas, TypeOK
    <2>3. \A k \in Jobs : Marked(k)' => Marked(k) \/ \A d \in deltasOf[k] : lastStatus'[d] # "pending"
        BY <1>2, <2>2 DEF CronMark
    <2>4. UNCHANGED <<deltasOf, jobStatus, runVars, boxVars, reqVars, cronJobs>>
        BY <1>2 DEF CronMark, MarkDeltas
    <2> QED BY <2>1, <2>3, <2>4, <1>b, OnceWorker
<1>3. CASE CronFail
    <2>1. \A k \in Jobs : \/ jobStatus'[k] = jobStatus[k]
                          \/ jobStatus[k] = "started" /\ k \in cronJobs /\ jobStatus'[k] = "failed"
        BY <1>3 DEF CronFail, SaveJobs
    <2> QED BY <1>3, <2>1, <1>b, OnceWorker DEF CronFail
<1>4. CASE CronDies
    BY <1>4, <1>b, OnceWorker DEF CronDies
<1>5. ASSUME NEW d \in Deltas, SetStatus(d) PROVE OnceInv'
    <2>1. \A e \in Deltas : /\ lastStatus'[e] = "none" => lastStatus[e] = "none"
                            /\ lastStatus'[e] = "pending" => lastStatus[e] = "pending" \/ e \in Touchable
        BY <1>5, <1>a DEF SetStatus, TypeOK
    <2> QED BY <1>5, <2>1, <1>b, OnceWorker DEF SetStatus
<1> QED
    BY <1>1, <1>2, <1>3, <1>4, <1>5 DEF CronStep

\* A step of a request that has created no job, and changes no row.
LEMMA OnceReads ==
    ASSUME DataInv, OnceInv, OneAtATime, NEW r \in Requests,
           UNCHANGED <<rowVars, jobStatus, runVars, boxVars, cronVars>>,
           opened[r] = {}, opened' = opened \/ EndTransaction(r), Batching'
    PROVE  OnceInv'
<1>1. \A q \in Requests : opened'[q] = opened[q]
    BY DEF EndTransaction, OneAtATime, DataInv, TypeOK
<1>2. Rows' /\ MarkedSettled' /\ OneTaken' /\ OneMayRun'
    BY <1>1 DEF OnceInv, Rows, MarkedSettled, OneTaken, OneMayRun, Taken, MayRun, Marked
<1> QED BY <1>2 DEF OnceInv

\* There is one batch.
LEMMA OnlyBatch ==
    ASSUME NEW n \in Nat, n < Limit
    PROVE  More(0, n) /\ ~More(1, n)
<1>1. Limit \in Nat \ {0}
    BY DeltaAssumption
<1>2. n \div Limit = 0
    BY <1>1
<1> QED BY <1>1, <1>2 DEF More, Offset, Bound

LEMMA OnceRequest ==
    ASSUME DataInv, OnceInv, OneAtATime, OneBatch,
           NEW r \in Requests, Post(r) \/ RequestApply(r) \/ RequestStep(r)
    PROVE  OnceInv'
<1>a. TypeOK /\ \A q \in Requests : q = r
    BY DEF DataInv, OneAtATime
<1>b. /\ rpc[r] \in {"idle", "insert", "apply", "jobs", "count"} => opened[r] = {} /\ batch[r] = 0
      /\ rpc[r] \in {"count", "batch", "lock"} /\ ~excludes[r] => \A j \in Jobs : jobStatus[j] \notin Active
      /\ rpc[r] \in {"batch", "lock"} => count[r] < Limit /\ batch[r] \in {0, 1}
      /\ rpc[r] = "batch" /\ batch[r] = 0 => opened[r] = {}
      /\ rpc[r] = "lock" =>
            /\ batch[r] = 0
            /\ \E j \in Jobs : opened[r] = {j} /\ deltasOf[j] = {}
            /\ \A j \in Jobs : jobStatus[j] \in Active => selected[r] \cap deltasOf[j] = {}
    BY DEF OnceInv, Batching
<1>1. CASE Post(r)
    <2>1. rpc[r] = "idle" /\ rpc'[r] = "insert" /\ UNCHANGED <<opened, batch>>
        BY <1>1, <1>a DEF Post, TypeOK
    <2>2. Batching'
        BY <1>a, <1>b, <2>1 DEF Batching
    <2> QED BY <1>1, <1>b, <2>1, <2>2, OnceReads DEF Post
<1>2. CASE RequestApply(r)
    <2>1. rpc[r] = "idle" /\ rpc'[r] = "apply" /\ UNCHANGED <<opened, batch>>
        BY <1>2, <1>a DEF RequestApply, TypeOK
    <2>2. Batching'
        BY <1>a, <1>b, <2>1 DEF Batching
    <2> QED BY <1>2, <1>b, <2>1, <2>2, OnceReads DEF RequestApply
<1>3. CASE LockFirst(r)
    <2>1. rpc[r] = "apply" /\ rpc'[r] = "jobs" /\ UNCHANGED <<opened, batch>>
        BY <1>3, <1>a DEF LockFirst, TypeOK
    <2>2. Batching'
        BY <1>a, <1>b, <2>1 DEF Batching
    <2> QED BY <1>3, <1>b, <2>1, <2>2, OnceReads DEF LockFirst
<1>4. CASE NothingToApply(r)
    <2>1. rpc[r] = "apply" /\ rpc'[r] = "idle" /\ opened'[r] = {} /\ batch'[r] = 0
        BY <1>4, <1>a DEF NothingToApply, EndTransaction, TypeOK
    <2>2. Batching'
        BY <1>a, <2>1 DEF Batching
    <2> QED BY <1>4, <1>b, <2>1, <2>2, OnceReads DEF NothingToApply
<1>5. CASE SeeActiveJobs(r)
    <2>1. rpc[r] = "jobs" /\ rpc'[r] = "count" /\ UNCHANGED <<opened, batch, jobStatus>>
        BY <1>5, <1>a DEF SeeActiveJobs, TypeOK
    <2>2. ~excludes'[r] => \A j \in Jobs : jobStatus[j] \notin Active
        BY <1>5, <1>a DEF SeeActiveJobs, TypeOK, ActiveJobs
    <2>3. Batching'
        BY <1>a, <1>b, <2>1, <2>2 DEF Batching
    <2> QED BY <1>5, <1>b, <2>1, <2>3, OnceReads DEF SeeActiveJobs
<1>6. CASE CountDeltas(r)
    <2>1. CASE EndTransaction(r)
        <3>1. rpc[r] = "count" /\ rpc'[r] = "idle" /\ opened'[r] = {} /\ batch'[r] = 0
            BY <1>6, <2>1, <1>a DEF CountDeltas, EndTransaction, TypeOK
        <3>2. Batching'
            BY <1>a, <3>1 DEF Batching
        <3> QED BY <1>6, <1>b, <2>1, <3>1, <3>2, OnceReads DEF CountDeltas
    <2>2. CASE Found(r) # {}
        <3>1. /\ rpc[r] = "count" /\ rpc'[r] = "batch" /\ UNCHANGED <<opened, batch, excludes, jobStatus>>
              /\ count'[r] = Cardinality(Found(r))
            BY <1>6, <2>2, <1>a DEF CountDeltas, TypeOK
        <3>2. count'[r] < Limit
            BY <1>a, <3>1, FoundCount, DeltaAssumption, FS_CardinalityType DEF OneBatch
        <3>3. Batching'
            BY <1>a, <1>b, <3>1, <3>2 DEF Batching
        <3> QED BY <1>6, <1>b, <3>1, <3>3, OnceReads DEF CountDeltas
    <2> QED BY <1>6, <2>1, <2>2 DEF CountDeltas
<1>7. CASE OpenJob(r)
    <2>0. PICK new \in Jobs : new = NextJob /\ jobStatus[new] = "unborn"
        BY <1>7, NextJobUnborn DEF OpenJob
    <2>1. batch[r] = 0 /\ opened[r] = {}
        <3>1. count[r] \in Nat /\ count[r] < Limit
            BY <1>7, <1>a, <1>b DEF OpenJob, TypeOK
        <3>2. batch[r] # 1
            BY <1>7, <3>1, OnlyBatch DEF OpenJob
        <3> QED BY <1>7, <1>b, <3>2 DEF OpenJob
    <2>2. /\ opened'[r] = {new} /\ selected'[r] = Found(r) /\ rpc'[r] = "lock"
          /\ UNCHANGED <<rowVars, runVars, boxVars, excludes, count, batch, cronVars>>
          /\ jobStatus' = [j \in Jobs |-> IF j = new THEN "open" ELSE jobStatus[j]]
        BY <1>7, <1>a, <2>0, <2>1 DEF OpenJob, SaveJobs, TypeOK
    <2>3. deltasOf[new] = {} /\ \A j \in Jobs : jobStatus'[j] \in Active => jobStatus[j] \in Active
        BY <2>0, <2>2 DEF OnceInv, Rows, Active
    <2>4. \A j \in Jobs : jobStatus[j] \in Active => Found(r) \cap deltasOf[j] = {}
        BY <1>7, <1>b DEF OpenJob, Found, Booked, ActiveJobs
    <2>5. Batching'
        BY <1>a, <1>7, <1>b, <2>1, <2>2, <2>3, <2>4 DEF Batching, OpenJob
    <2>6. Rows'
        <3>1. \A j \in Jobs : jobStatus'[j] = "open" => j = new
            BY <1>a, <2>1, <2>2 DEF OnceInv, Rows
        <3>2. new \notin cronJobs /\ cronJobs \subseteq Jobs
            BY <1>a, <2>0 DEF OnceInv, Rows, TypeOK
        <3> QED BY <2>0, <2>2, <3>1, <3>2 DEF OnceInv, Rows
    <2>7. MarkedSettled' /\ OneTaken' /\ OneMayRun'
        BY <2>0, <2>2, <2>3 DEF OnceInv, MarkedSettled, OneTaken, OneMayRun, Taken, MayRun, Marked, Final
    <2> QED BY <2>5, <2>6, <2>7 DEF OnceInv
<1>8. CASE FillJob(r)
    <2> DEFINE still == selected[r] \cap Pending(r)
               slice == Slice(still, Offset(batch[r]), Bound(batch[r], count[r]))
    <2>0. PICK j \in Jobs : opened[r] = {j} /\ deltasOf[j] = {} /\ jobStatus[j] = "open"
        BY <1>8, <1>a, <1>b DEF FillJob, DataInv, Opening
    <2>1. (CHOOSE k \in opened[r] : \A l \in opened[r] : l <= k) = j
        BY <2>0, DeltaAssumption
    <2>2. /\ deltasOf' = [deltasOf EXCEPT ![j] = slice]
          /\ batch'[r] = batch[r] + 1 /\ rpc'[r] = "batch"
          /\ UNCHANGED <<lastStatus, jobStatus, runVars, boxVars, excludes, count, opened, cronVars>>
        BY <1>8, <1>a, <2>1 DEF FillJob, TypeOK
    <2>3. slice \subseteq selected[r] /\ \A d \in slice : lastStatus[d] = "pending"
        BY DEF Slice, Pending
    <2> HIDE DEF slice
    <2>4. \A k \in Jobs : deltasOf'[k] = IF k = j THEN slice ELSE deltasOf[k]
        BY <1>a, <2>2 DEF TypeOK
    <2>5. pc[j] = "idle" /\ box[j] = "none" /\ wrote[j] = {}
        BY <2>0 DEF DataInv, Opening, Boxes
    <2>6. \A k \in Jobs : k # j /\ Taken(k) => slice \cap deltasOf[k] = {}
        BY <1>8, <1>a, <1>b, <2>0, <2>3 DEF Taken, FillJob, OnceInv, Rows
    <2>7. \A k \in Jobs : k # j /\ MayRun(k) => slice \cap deltasOf[k] \subseteq Touchable
        <3> SUFFICES ASSUME NEW k \in Jobs, k # j, MayRun(k), ~Taken(k)
                     PROVE  slice \cap deltasOf[k] \subseteq Touchable
            BY <2>6
        <3>1. CASE jobStatus[k] = "unborn"
            BY <3>1 DEF OnceInv, Rows
        <3>2. CASE jobStatus[k] \in Final
            BY <2>3, <3>2 DEF MayRun, Marked, OnceInv, MarkedSettled
        <3> QED BY <1>a, <3>1, <3>2 DEF Taken, TypeOK
    <2>8. Batching'
        BY <1>8, <1>a, <1>b, <2>2 DEF Batching, FillJob
    <2>9. Rows'
        BY <2>2, <2>3, <2>4, <2>5, <2>0 DEF OnceInv, Rows
    <2>10. MarkedSettled'
        <3>1. ~Marked(j)
            BY <2>0, <2>5 DEF Marked, OnceInv, Rows, Final
        <3> QED BY <2>2, <2>4, <3>1 DEF OnceInv, MarkedSettled, Marked
    <2>11. OneTaken' /\ OneMayRun'
        BY <2>2, <2>4, <2>6, <2>7 DEF OnceInv, OneTaken, OneMayRun, Taken, MayRun
    <2> QED BY <2>8, <2>9, <2>10, <2>11 DEF OnceInv
<1>9. CASE CommitJobs(r)
    <2>1. /\ rpc'[r] = "idle" /\ opened'[r] = {} /\ batch'[r] = 0
          /\ jobStatus' = [j \in Jobs |-> IF j \in opened[r] THEN "pending" ELSE jobStatus[j]]
          /\ UNCHANGED <<rowVars, runVars, boxVars, cronVars>>
        BY <1>9, <1>a DEF CommitJobs, EndTransaction, SaveJobs, TypeOK
    <2>2. \A j \in Jobs : j \in opened[r] <=> jobStatus[j] = "open"
        BY <1>a DEF DataInv, Opening, OnceInv, Rows
    <2>3. \A j \in Jobs : j \in cronJobs => jobStatus'[j] = jobStatus[j]
        BY <2>1, <2>2 DEF OnceInv, Rows
    <2>4. Batching'
        BY <1>a, <2>1 DEF Batching
    <2>5. Rows'
        BY <1>a, <2>1, <2>2, <2>3 DEF OnceInv, Rows, DataInv, TypeOK
    <2>6. MarkedSettled' /\ OneTaken' /\ OneMayRun'
        BY <2>1, <2>2 DEF OnceInv, MarkedSettled, OneTaken, OneMayRun, Taken, MayRun, Marked, Active, Final
    <2> QED BY <2>4, <2>5, <2>6 DEF OnceInv
<1>10. CASE InsertDeltas(r)
    <2>1. rpc[r] = "insert" /\ rpc'[r] \in {"apply", "idle"} /\ UNCHANGED <<opened, batch>>
        BY <1>10, <1>a DEF InsertDeltas, TypeOK
    <2>2. Batching'
        BY <1>a, <1>b, <2>1 DEF Batching
    <2>3. \A d \in Deltas : lastStatus[d] # "none" => lastStatus'[d] = lastStatus[d]
        <3>1. CASE \A d \in want[r] : lastStatus[d] = "none"
            <4>1. PICK unpermitted \in SUBSET want[r] :
                      lastStatus' = [d \in Deltas |->
                         CASE d \in unpermitted -> "refused"
                           [] d \in want[r] \ unpermitted -> "pending"
                           [] OTHER -> lastStatus[d]]
                BY <1>10, <3>1 DEF InsertDeltas
            <4> QED BY <3>1, <4>1
        <3>2. CASE ~ \A d \in want[r] : lastStatus[d] = "none"
            BY <1>10, <3>2 DEF InsertDeltas
        <3> QED BY <3>1, <3>2
    <2>4. \A j \in Jobs : \A d \in deltasOf[j] : lastStatus[d] # "none" /\ lastStatus'[d] = lastStatus[d]
        BY <1>a, <2>3 DEF OnceInv, Rows, TypeOK
    <2>5. UNCHANGED <<deltasOf, jobStatus, runVars, boxVars, cronVars>>
        BY <1>10 DEF InsertDeltas
    <2>6. Rows'
        BY <2>1, <2>4, <2>5 DEF OnceInv, Rows
    <2>7. MarkedSettled' /\ OneTaken' /\ OneMayRun'
        BY <2>4, <2>5 DEF OnceInv, MarkedSettled, OneTaken, OneMayRun, Taken, MayRun, Marked
    <2> QED BY <2>2, <2>6, <2>7 DEF OnceInv
<1>11. CASE Abort(r)
    <2>1. /\ rpc'[r] = "idle" /\ opened'[r] = {} /\ batch'[r] = 0
          /\ jobStatus' = [j \in Jobs |-> IF j \in opened[r] THEN "unborn" ELSE jobStatus[j]]
          /\ deltasOf' = [j \in Jobs |-> IF j \in opened[r] THEN {} ELSE deltasOf[j]]
          /\ UNCHANGED <<lastStatus, runVars, boxVars, cronVars>>
        BY <1>11, <1>a DEF Abort, EndTransaction, SaveJobs, TypeOK
    <2>2. \A j \in Jobs : j \in opened[r] <=> jobStatus[j] = "open"
        BY <1>a DEF DataInv, Opening, OnceInv, Rows
    <2>3. \A j \in Jobs : j \in opened[r] => wrote[j] = {} /\ box[j] = "none"
        BY <2>2 DEF DataInv, Opening, Boxes
    <2>4. \A j \in Jobs : j \in cronJobs => jobStatus'[j] = jobStatus[j]
        BY <2>1, <2>2 DEF OnceInv, Rows
    <2>5. Batching'
        BY <1>a, <2>1 DEF Batching
    <2>6. Rows'
        BY <1>a, <2>1, <2>2, <2>3, <2>4 DEF OnceInv, Rows, DataInv, TypeOK
    <2>7. MarkedSettled' /\ OneTaken' /\ OneMayRun'
        BY <2>1, <2>2, <2>3 DEF OnceInv, MarkedSettled, OneTaken, OneMayRun, Taken, MayRun, Marked, Active, Final
    <2> QED BY <2>5, <2>6, <2>7 DEF OnceInv
<1> QED
    BY <1>1, <1>2, <1>3, <1>4, <1>5, <1>6, <1>7, <1>8, <1>9, <1>10, <1>11 DEF RequestStep

LEMMA OnceNext == OneAtATime /\ OneBatch /\ DataInv /\ OnceInv /\ [Next]_vars => OnceInv'
<1>1. ASSUME DataInv, OnceInv, UNCHANGED vars PROVE OnceInv'
    BY <1>1 DEF vars, OnceInv, Batching, Rows, MarkedSettled, OneTaken, OneMayRun, Taken, MayRun, Marked
<1> QED
    BY <1>1, OnceRequest, OnceJob, OnceCron DEF Next

LEMMA OnceAlways ==
    ASSUME OneAtATime, OneBatch
    PROVE  Spec => [](DataInv /\ OnceInv)
BY DataInit, DataNext, OnceInit, OnceNext, OneAtATime, OneBatch, PTL DEF Spec

\* A delta waits in, or is worked on by, one job at a time, whatever dies or is
\* given up, when requests do not overlap and one batch holds all that is pending
\* (steps 2 to 7 of apply_deltas).
THEOREM OneActiveJobAlways ==
    ASSUME OneAtATime, OneBatch
    PROVE  Spec => []OneActiveJob
<1>1. OnceInv => OneActiveJob
    BY DEF OnceInv, OneTaken, Taken, OneActiveJob
<1> QED
    BY <1>1, OnceAlways, PTL

\* Under the same conditions no delta is written to the data by two jobs, unless
\* staff has set it back to pending.
THEOREM WrittenOnceAlways ==
    ASSUME OneAtATime, OneBatch
    PROVE  Spec => []WrittenOnce
<1>1. ASSUME DataInv, OnceInv PROVE WrittenOnce
    <2>1. \A j \in Jobs : wrote[j] # {} => MayRun(j)
        BY <1>1 DEF DataInv, Boxes, MayRun
    <2>2. \A j \in Jobs : wrote[j] \subseteq deltasOf[j]
        BY <1>1 DEF OnceInv, Rows
    <2> QED BY <1>1, <2>1, <2>2 DEF OnceInv, OneMayRun, WrittenOnce
<1> QED
    BY <1>1, OnceAlways, PTL
=============================================================================
