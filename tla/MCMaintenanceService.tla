------------------------- MODULE MCMaintenanceService -------------------------
(* MaintenanceService for TLC: values for the constants of its configurations. *)
EXTENDS MaintenanceService

CONSTANTS c1, c2

OneId == {1}
TwoIds == {1, 2}
ThreeIds == {1, 2, 3}
OneClient == {c1}
TwoClients == {c1, c2}
NoClients == {}
OneReader == {c1}

NoFaults == {}
AllFaults == {"lost", "unacked"}
================================================================================
