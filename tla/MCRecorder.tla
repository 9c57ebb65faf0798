------------------------------ MODULE MCRecorder ------------------------------
EXTENDS Recorder
MCJob == [c \in Callers |-> c]
=============================================================================
