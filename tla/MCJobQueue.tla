---------------------------- MODULE MCJobQueue ----------------------------
(***************************************************************************)
(* Instances of JobQueue for TLC.                                          *)
(***************************************************************************)
EXTENDS JobQueue, TLC

CONSTANT p1

\* All jobs compete for one project; those of different projects share nothing
\* but the workers.
OneProject == [j \in Jobs |-> p1]

\* Safety only: the order of jobs matters, workers and containers are alike.
Symmetry == Permutations(Workers) \cup Permutations(Containers)
=============================================================================
