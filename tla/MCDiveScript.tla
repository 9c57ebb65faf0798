---------------------------- MODULE MCDiveScript ----------------------------
EXTENDS DiveScript
=============================================================================
