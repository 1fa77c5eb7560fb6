-------------------------- MODULE MCRoomLifecycle --------------------------
(* The instance of RoomLifecycle for TLC.                                  *)
EXTENDS RoomLifecycle, TLC

CONSTANTS u1, u2, k1, k2, k3, k4, k5

TheRooms == {"room"}
TheUsers == {u1, u2}
TheCalls == {k1, k2, k3, k4, k5}

\* The calls are interchangeable, and so are the users.
Symmetry == Permutations(TheCalls) \cup Permutations(TheUsers)

=============================================================================
