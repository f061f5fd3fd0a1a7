----------------------------- MODULE MCServiceRows -----------------------------
(* ServiceRows for TLC: values for the constants of its configuration. *)
EXTENDS ServiceRows, MCMaintenanceService

OneVehicle == {"ABC-123"}

\* Two rows of the same vehicle and type, so that there can be two copies.
SameVehicle == [id \in Ids |-> <<"ABC-123", "preventive">>]
================================================================================
