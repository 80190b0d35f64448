-------------------------- MODULE MCObservationLog --------------------------
(* Small instance of the observation log for TLC. *)
EXTENDS ObservationLog

CONSTANTS i1, i2, b1, b2

MCIds == {i1, i2}
MCStatuses == {"success", "failure"}
MCBindings == {b1, b2}
=============================================================================
