--------------------------- MODULE MCSynchRelease ---------------------------
(* Instances of SynchRelease for TLC. *)
EXTENDS SynchRelease

CONSTANTS b1, b2, b3
Three == {b1, b2, b3}
Two == {b1, b2}
=============================================================================
