------------------------- MODULE MCMaintenanceLock -------------------------
(* Three processes: one that dies and two that wait. *)
EXTENDS MaintenanceLock

CONSTANTS a, b, c

Three == {a, b, c}
=============================================================================
