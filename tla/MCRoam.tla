------------------------------- MODULE MCRoam -------------------------------
EXTENDS Roam
=============================================================================
