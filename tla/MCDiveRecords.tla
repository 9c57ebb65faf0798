----------------------------- MODULE MCDiveRecords -----------------------------
(***************************************************************************)
(* DiveRecords with one task for each kind of request.                     *)
(***************************************************************************)
EXTENDS DiveRecords

MCJob == [t \in Tasks |-> t]

=============================================================================
