----------------------------- MODULE MCSalesSync -----------------------------
(* Model values for the runs of SalesSync. *)
EXTENDS SalesSync

CONSTANTS p1, p2, q1

=============================================================================
