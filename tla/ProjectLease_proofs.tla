------------------------ MODULE ProjectLease_proofs ------------------------
(***************************************************************************)
(* The leases of ProjectLease, which the job queue implements, exclude one *)
(* another.                                                                *)
(***************************************************************************)
EXTENDS ProjectLease, TLAPS

LeaseInv == LeaseTypeOK /\ OneHolder

LEMMA LeaseInvInit == LeaseInit => LeaseInv
BY DEF LeaseInit, LeaseInv, LeaseTypeOK, OneHolder

LEMMA LeaseInvNext == LeaseInv /\ [LeaseNext]_lease => LeaseInv'
<1> SUFFICES ASSUME LeaseInv, [LeaseNext]_lease PROVE LeaseInv'
    OBVIOUS
<1> USE DEF LeaseInv, LeaseTypeOK, OneHolder, Rivals
<1>1. ASSUME NEW j \in Jobs, Acquire(j) PROVE LeaseInv'
    BY <1>1 DEF Acquire
<1>2. ASSUME NEW j \in Jobs, Lapse(j) PROVE LeaseInv'
    BY <1>2 DEF Lapse
<1>3. ASSUME NEW S \in SUBSET Jobs, Release(S) PROVE LeaseInv'
    BY <1>3 DEF Release
<1>4. CASE UNCHANGED lease
    BY <1>4
<1> QED
    BY <1>1, <1>2, <1>3, <1>4 DEF LeaseNext

\* The lease of a project has at most one holder.  (With LeasesImplemented: the
\* queue never lets two jobs work on a project that it has given up neither of.)
THEOREM LeaseHasOneHolder == LeaseSpec => []OneHolder
<1>1. LeaseInv => OneHolder
    BY DEF LeaseInv
<1> QED
    BY LeaseInvInit, LeaseInvNext, <1>1, PTL DEF LeaseSpec
=============================================================================
