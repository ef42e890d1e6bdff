---------------------------- MODULE MCDeltaApply ----------------------------
EXTENDS DeltaApply, TLC

\* Nothing tells two clients apart, nor two values but that one was there first.
Symmetric == Permutations(Clients)
=============================================================================
