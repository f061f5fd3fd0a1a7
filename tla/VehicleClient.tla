----------------------------- MODULE VehicleClient -----------------------------
(* What the service makes of a vehicle: the anti-corruption layer of
   internal/adapter/client/vehicle_client.go and NeedsPreventiveMaintenance of
   internal/domain/vehicle.go, as pure operators.

   A text of the external model is kept as far as the code looks into it: whether
   an identifier is there, and whether a date is absent, does not parse, or parses
   to a moment so many hours ago (negative: in the future). *)
EXTENDS Integers

CONSTANTS
    KmThresholds,      \* kilometres that make a vehicle due, by its type
    DaysThreshold      \* PREVENTIVE_DAYS_THRESHOLD

ASSUME DaysThresholdIsInt == DaysThreshold \in Int

Absent == [form |-> "absent", hours |-> 0]
Invalid == [form |-> "invalid", hours |-> 0]
HoursAgo(h) == [form |-> "valid", hours |-> h]

\* The dates a vehicle may carry.
Date == {Absent, Invalid} \cup [form : {"valid"}, hours : Int]

\* int(float64) drops the fraction: it rounds towards zero on both sides.
WholeDays(h) == IF h >= 0 THEN h \div 24 ELSE -((-h) \div 24)

\* A date that was sent but does not parse counts as today; only an absent one is
\* replaced by the date of creation.
DaysSinceLastMaintenance(ev) ==
    LET Days(date) == IF date.form = "valid" THEN WholeDays(date.hours) ELSE 0
    IN  IF ev.fechaUltimoMant = Absent THEN Days(ev.creadoEn)
        ELSE Days(ev.fechaUltimoMant)

\* The vehicle is known by its plate; idVehiculo only decides whether it is listed.
MapVehicle(ev) ==
    [ID                       |-> ev.numeroPlaca,
     VehicleType              |-> ev.tipoVehiculo,
     KilometersRecorded       |-> ev.kilometraje,
     DaysSinceLastMaintenance |-> DaysSinceLastMaintenance(ev),
     Available                |-> ev.estadoVehiculo = "DISPONIBLE" /\ ev.activo]

KmThreshold(type) ==
    IF type \in DOMAIN KmThresholds /\ type # "" THEN KmThresholds[type] ELSE 10000

\* Mutant: a vehicle that has just reached its threshold is not due yet.
NeedsPreventiveMaintenanceLater(v) ==
    /\ v.Available
    /\ \/ v.KilometersRecorded >= KmThreshold(v.VehicleType)
       \/ v.DaysSinceLastMaintenance > DaysThreshold

NeedsPreventiveMaintenance(v) ==
    /\ v.Available
    /\ \/ v.KilometersRecorded >= KmThreshold(v.VehicleType)
       \/ v.DaysSinceLastMaintenance >= DaysThreshold

--------------------------------------------------------------------------------
\* The meaning of "due", without the translation: an available vehicle that can be
\* told apart, at its kilometres or last serviced (else: created) at least
\* DaysThreshold full days ago.  Without a date that can be read the service counts as
\* done now, and a day that is not full yet counts in favour of a threshold of zero or
\* less, which the configuration accepts.
LastService(ev) == IF ev.fechaUltimoMant = Absent THEN ev.creadoEn ELSE ev.fechaUltimoMant

LongAgo(h) ==
    IF DaysThreshold > 0 THEN h >= 24 * DaysThreshold ELSE h > 24 * (DaysThreshold - 1)

Due(ev) ==
    /\ ev.idVehiculo # "" /\ ev.numeroPlaca # ""
    /\ ev.activo /\ ev.estadoVehiculo = "DISPONIBLE"
    /\ \/ ev.kilometraje >= KmThreshold(ev.tipoVehiculo)
       \/ LongAgo(LastService(ev).hours)
================================================================================
