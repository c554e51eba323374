-------------------------- MODULE MCRxBlockAckLink --------------------------
EXTENDS RxBlockAckLink
CONSTANT MaxMpdu
MCMpdu == 0 .. MaxMpdu
=============================================================================
