------------------------------- MODULE MCRooms -------------------------------
(* Small instances of Rooms for TLC. *)
EXTENDS Rooms, TLC

\* Connections without a login are interchangeable.
Symmetry == Permutations(Clients \ Authenticated)
=============================================================================
