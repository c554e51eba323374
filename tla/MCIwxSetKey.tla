---------------------------- MODULE MCIwxSetKey ----------------------------
EXTENDS IwxSetKey
=============================================================================
