---------------------------- MODULE MCPackaging ----------------------------
EXTENDS Packaging
=============================================================================
