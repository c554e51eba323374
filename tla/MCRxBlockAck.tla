---------------------------- MODULE MCRxBlockAck ----------------------------
EXTENDS RxBlockAck
MCMpdu == SeqNo
=============================================================================
