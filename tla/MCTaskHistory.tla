---------------------------- MODULE MCTaskHistory --------------------------
EXTENDS TaskHistory, MCTaskLifecycle
=============================================================================
