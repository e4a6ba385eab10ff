---------------------------- MODULE MCSuspension ----------------------------
EXTENDS Suspension
=============================================================================
