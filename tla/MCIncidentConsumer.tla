-------------------------- MODULE MCIncidentConsumer --------------------------
(* IncidentConsumer for TLC: values for the constants of its configuration. *)
EXTENDS IncidentConsumer

CONSTANTS m1, m2, i1, i2

TwoMessages == {m1, m2}
TwoIncidents == {i1, i2}
AllFaults == {"lost", "unacked"}
================================================================================
