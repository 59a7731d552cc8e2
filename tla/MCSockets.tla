------------------------------- MODULE MCSockets -------------------------------
(* Sockets with commands shorter than, as long as, and longer than the buffer. *)
EXTENDS Sockets

MCLengths == {1, 2, 3}
=============================================================================
