------------------------------ MODULE Schedule ------------------------------
(***************************************************************************)
(* The random-default-schedule function (schedule.go): it fills in the     *)
(* backup and the maintenance schedule that the user left empty.           *)
(* Times are seconds since 1970-01-01T00:00:00Z, as in the code.           *)
(***************************************************************************)
EXTENDS Integers, FunctionIO

Minute == 60
Hour   == 60 * Minute
Day    == 24 * Hour

MaintenanceWindowStart == 21 * Hour
MaintenanceWindowEnd   == Day + 5 * Hour
MaintenanceWindowRange == MaintenanceWindowEnd - MaintenanceWindowStart

CONSTANT Offsets  \* what rng.Int63n(maitenanceWindowRange) may return

ASSUME OffsetsAssumption == Offsets \subseteq 0 .. MaintenanceWindowRange - 1

HourOf(t)   == (t % Day) \div Hour
MinuteOf(t) == (t % Hour) \div Minute
SecondOf(t) == t % Minute

MaintenanceTime(offset) == MaintenanceWindowStart + offset
BackupTime(offset)      == MaintenanceTime(offset) - Hour

(* The cron expression "m h * * *", the clock time "h:m:s" and the day.    *)
DefaultBackup(offset)    == <<MinuteOf(BackupTime(offset)), HourOf(BackupTime(offset))>>
DefaultTimeOfDay(offset) ==
  LET t == MaintenanceTime(offset) IN <<HourOf(t), MinuteOf(t), SecondOf(t)>>
(* Faulty day: midnight still counts as Tuesday. *)
DayFromMidnight(offset) ==
  IF MaintenanceTime(offset) > Day THEN "wednesday" ELSE "tuesday"
DefaultDayOfWeek(offset) ==
  IF MaintenanceTime(offset) >= Day THEN "wednesday" ELSE "tuesday"

(* Faulty default: the day always comes with the random time. *)
ScheduledWithDay(comp, offset) ==
  [comp EXCEPT !.backup    = IF @ = Nil THEN DefaultBackup(offset) ELSE @,
               !.timeOfDay = IF @ = Nil THEN DefaultTimeOfDay(offset) ELSE @,
               !.dayOfWeek = DefaultDayOfWeek(offset),
               !.rest      = Nil]

(* What SetComposite writes after the empty fields have been filled in. *)
Scheduled(comp, offset) ==
  [comp EXCEPT !.backup    = IF @ = Nil THEN DefaultBackup(offset) ELSE @,
               !.timeOfDay = IF @ = Nil THEN DefaultTimeOfDay(offset) ELSE @,
               !.dayOfWeek = IF @ = Nil THEN DefaultDayOfWeek(offset) ELSE @,
               !.rest      = Nil]

TransformSchedule ==
  /\ Running("random-default-schedule")
  /\ UNCHANGED <<resources, conn, scheme>>
  /\ \/ /\ composite = Bad
        /\ UNCHANGED composite /\ Return("Fatal")
     \/ /\ composite # Bad
        /\ \E offset \in Offsets : composite' = Scheduled(composite, offset)
        /\ Return("Normal")
=============================================================================
