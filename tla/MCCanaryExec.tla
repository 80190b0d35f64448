---------------------------- MODULE MCCanaryExec ----------------------------
(* Small instance of the canary executor for TLC. *)
EXTENDS CanaryExec

CONSTANT b1

MCStatuses == {"success", "wrong_result", "timeout", "invalid_response", "connection_closed"}
=============================================================================
