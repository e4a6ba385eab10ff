---------------------------- MODULE MCThreadRuns ----------------------------
EXTENDS ThreadRuns
=============================================================================
