------------------------- MODULE MCSessionCreation -------------------------
(* Model values for the runs of SessionCreation. *)
EXTENDS SessionCreation

CONSTANTS p1, p2

=============================================================================
