---------------------------- MODULE ProjectLease ----------------------------
(***************************************************************************)
(* What the job queue of QFieldCloud promises about a project, without its *)
(* table, its transactions and its containers: a project is worked on      *)
(* under a lease.  A job is granted the lease of its project only when no  *)
(* other job holds it.  A lease lapses when its time is over, or when its  *)
(* job is given up; a lapsed lease no longer keeps other jobs away, and it *)
(* is never renewed: its job can only let go of it.                        *)
(***************************************************************************)
CONSTANTS Jobs, ProjectOf

VARIABLE lease   \* lease[j]: what job j has of the lease of its project

Rivals(j) == {k \in Jobs \ {j} : ProjectOf[k] = ProjectOf[j]}

LeaseTypeOK == lease \in [Jobs -> {"none", "held", "lapsed"}]

LeaseInit == lease = [j \in Jobs |-> "none"]

\* Job j is granted the lease of its project: no other job holds it.  The lease
\* of a job that comes late may have lapsed already.
Acquire(j) ==
    /\ lease[j] = "none"
    /\ \A k \in Rivals(j) : lease[k] # "held"
    /\ \E granted \in {"held", "lapsed"} : lease' = [lease EXCEPT ![j] = granted]

\* The time of the lease is over, or its job is declared failed.
Lapse(j) ==
    /\ lease[j] = "held"
    /\ lease' = [lease EXCEPT ![j] = "lapsed"]

\* The jobs in S stop working on their project; deleting a project stops
\* all of its jobs at once.
Release(S) ==
    lease' = [j \in Jobs |-> IF j \in S THEN "none" ELSE lease[j]]

LeaseNext ==
    \/ \E j \in Jobs : Acquire(j) \/ Lapse(j)
    \/ \E S \in SUBSET Jobs : Release(S)

LeaseSpec == LeaseInit /\ [][LeaseNext]_lease

\* The lease of a project has at most one holder.
OneHolder ==
    \A j \in Jobs : lease[j] = "held" => \A k \in Rivals(j) : lease[k] # "held"
=============================================================================
