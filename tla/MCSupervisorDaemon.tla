------------------------- MODULE MCSupervisorDaemon -------------------------
(* Small instance of the host supervisor for TLC. *)
EXTENDS SupervisorDaemon

CONSTANTS g1, g2

MCGens == {g1, g2}
=============================================================================
