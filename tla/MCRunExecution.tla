--------------------------- MODULE MCRunExecution ---------------------------
EXTENDS RunExecution
=============================================================================
