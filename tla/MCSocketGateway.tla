--------------------------- MODULE MCSocketGateway ---------------------------
(* Model values for the runs of SocketGateway: where their sockets are and what they present. *)
EXTENDS SocketGateway

CONSTANTS p1, p2, c1, c2, u1

MCHomes      == {[c \in Sockets |-> p1], [c \in Sockets |-> IF c = c1 THEN p1 ELSE p2]}
MCHandshakes == {<<NoToken, u1>>, <<BadToken, u1>>, <<>>}

=============================================================================
