------------------------- MODULE MCPreventiveScheduler -------------------------
(* PreventiveScheduler for TLC: values for the constants of its configurations. *)
EXTENDS PreventiveScheduler

OneVehicle == {"ABC-123"}
Cron == {"cron"}
CronAndSimulation == {"cron", "simulation"}

DefaultThresholds ==
    [Automovil |-> 10000, Camioneta |-> 12000, Vehiculo_especializado |-> 15000]

\* Serviced today, with no kilometres to speak of.
Fresh ==
    [idVehiculo |-> "id", numeroPlaca |-> "plate", tipoVehiculo |-> "Automovil",
     kilometraje |-> 0, fechaUltimoMant |-> HoursAgo(0), creadoEn |-> HoursAgo(9000),
     estadoVehiculo |-> "DISPONIBLE", activo |-> TRUE]

OverdueByDays == [Fresh EXCEPT !.fechaUltimoMant = HoursAgo(24 * 90)]

TwoStates == {Fresh, OverdueByDays}

\* One vehicle on either side of every boundary of the translation.
Boundaries ==
    TwoStates \cup
    {[OverdueByDays EXCEPT !.estadoVehiculo = "EN_MANTENIMIENTO"],
     [OverdueByDays EXCEPT !.activo = FALSE],
     [OverdueByDays EXCEPT !.idVehiculo = ""],
     [OverdueByDays EXCEPT !.numeroPlaca = ""],
     [Fresh EXCEPT !.fechaUltimoMant = HoursAgo(24 * 90 - 1)],
     [Fresh EXCEPT !.fechaUltimoMant = HoursAgo(-30)],
     [Fresh EXCEPT !.fechaUltimoMant = Invalid],
     [Fresh EXCEPT !.fechaUltimoMant = Absent],
     [Fresh EXCEPT !.fechaUltimoMant = Absent, !.creadoEn = Invalid],
     [Fresh EXCEPT !.kilometraje = 9999],
     [Fresh EXCEPT !.kilometraje = 10000],
     [Fresh EXCEPT !.tipoVehiculo = "Camioneta", !.kilometraje = 11999],
     [Fresh EXCEPT !.tipoVehiculo = "Camioneta", !.kilometraje = 12000],
     [Fresh EXCEPT !.tipoVehiculo = "", !.kilometraje = 10000],
     [Fresh EXCEPT !.tipoVehiculo = "Moto", !.kilometraje = 9999]}

NoFaults == {}
AllFaults == {"lost", "unacked"}
================================================================================
