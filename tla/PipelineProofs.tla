--------------------------- MODULE PipelineProofs ---------------------------
EXTENDS Pipeline, RuntimeProofs

(* Clock times come back as the seconds of the day they stand for. *)
LEMMA ClockOfTime ==
  ASSUME NEW t \in Nat
  PROVE  /\ HourOf(t) * Hour + MinuteOf(t) * Minute = (t % Day) - ((t % Day) % Minute)
         /\ HourOf(t) * Hour + MinuteOf(t) * Minute + SecondOf(t) = t % Day
  BY DEF HourOf, MinuteOf, SecondOf, Hour, Minute, Day

LEMMA ModDay ==
  ASSUME NEW x \in Nat, x < 172800
  PROVE  x % 86400 = IF x < 86400 THEN x ELSE x - 86400
  OBVIOUS

LEMMA ModMinute ==
  ASSUME NEW x \in Nat
  PROVE  /\ x % 60 \in 0 .. 59 /\ x - (x % 60) \in Nat
         /\ (x + 3600) % 60 = x % 60
         /\ x >= 86400 => (x - 86400) % 60 = x % 60 /\ x - (x % 60) >= 86400
  OBVIOUS

LEMMA WindowRange == MaintenanceWindowRange \in Int
  BY DEF MaintenanceWindowRange, MaintenanceWindowStart, MaintenanceWindowEnd, Day, Hour, Minute

LEMMA BelowRange ==
  ASSUME NEW n \in Int, NEW x \in 0 .. n - 1
  PROVE  x \in Nat /\ x < n
  OBVIOUS

LEMMA DefaultsOf ==
  ASSUME NEW offset \in Nat, offset < MaintenanceWindowRange
  PROVE  LET maint  == SecondsOfDay(DefaultTimeOfDay(offset))
             backup == DefaultBackup(offset)[2] * Hour + DefaultBackup(offset)[1] * Minute
         IN /\ maint \in Nat
            /\ maint >= 21 * Hour \/ maint < 5 * Hour
            /\ backup >= 20 * Hour \/ backup < 4 * Hour
            /\ DefaultDayOfWeek(offset) = "tuesday" <=> maint >= 21 * Hour
            /\ (backup + Hour) % Day = maint - (maint % Minute)
<1> DEFINE t      == MaintenanceTime(offset)
           b      == BackupTime(offset)
           maint  == SecondsOfDay(DefaultTimeOfDay(offset))
           backup == DefaultBackup(offset)[2] * Hour + DefaultBackup(offset)[1] * Minute
<1>1. Hour = 3600 /\ Minute = 60 /\ Day = 86400 /\ 21 * Hour = 75600 /\ 20 * Hour = 72000
      /\ 5 * Hour = 18000 /\ 4 * Hour = 14400
  BY DEF Hour, Minute, Day
<1>2. MaintenanceWindowStart = 75600 /\ MaintenanceWindowRange = 28800
  <2>1. MaintenanceWindowStart = 75600
    BY <1>1 DEF MaintenanceWindowStart
  <2>2. MaintenanceWindowEnd = 104400
    BY <1>1 DEF MaintenanceWindowEnd
  <2>. QED
    BY <2>1, <2>2 DEF MaintenanceWindowRange
<1>3. t = 75600 + offset /\ b = t - 3600
  <2>1. t = 75600 + offset
    BY <1>2 DEF MaintenanceTime
  <2>2. b = t - 3600
    BY <1>1 DEF BackupTime
  <2>. QED
    BY <2>1, <2>2
<1>. HIDE DEF t, b
<1>4. t \in Nat /\ b \in Nat /\ 75600 <= t /\ t < 104400 /\ b + 3600 = t
  BY <1>2, <1>3
<1>. USE DEF t, b
<1>5. maint = t % Day
  <2>1. maint = HourOf(t) * Hour + MinuteOf(t) * Minute + SecondOf(t)
    BY DEF SecondsOfDay, DefaultTimeOfDay
  <2>. QED
    BY <1>4, <2>1, ClockOfTime
<1>6. backup = (b % Day) - ((b % Day) % Minute)
  <2>1. backup = HourOf(b) * Hour + MinuteOf(b) * Minute
    BY DEF DefaultBackup
  <2>. QED
    BY <1>4, <2>1, ClockOfTime
<1>7. DefaultDayOfWeek(offset) = "tuesday" <=> ~(t >= 86400)
  BY <1>1 DEF DefaultDayOfWeek
<1>. HIDE DEF t, b, maint, backup
<1>8. /\ maint \in Nat /\ (maint >= 75600 \/ maint < 18000)
      /\ backup >= 72000 \/ backup < 14400
      /\ ~(t >= 86400) <=> maint >= 75600
      /\ (backup + 3600) % 86400 = maint - (maint % 60)
  <2>0. maint = t % 86400 /\ backup = (b % 86400) - ((b % 86400) % 60) /\ t < 172800 /\ b < 172800
    BY <1>1, <1>4, <1>5, <1>6
  <2>1. maint = IF t < 86400 THEN t ELSE t - 86400
    BY <1>4, <2>0, ModDay
  <2>2. b % 86400 = IF b < 86400 THEN b ELSE b - 86400
    BY <1>4, <2>0, ModDay
  <2>3. PICK r \in 0 .. 59 : r = b % 60 /\ b - r \in Nat
    BY <1>4, ModMinute
  <2>4. t % 60 = r /\ (t >= 86400 => t - r >= 86400)
    BY <1>4, <2>3, ModMinute
  <2>5. maint % 60 = r
    BY <1>4, <2>1, <2>4, ModMinute
  <2>6. backup = IF b < 86400 THEN b - r ELSE b - 86400 - r
    BY <1>4, <2>0, <2>2, <2>3, ModMinute
  <2>7. maint \in Nat /\ (maint >= 75600 \/ maint < 18000) /\ (~(t >= 86400) <=> maint >= 75600)
    BY <1>4, <2>1
  <2>8. backup >= 72000 \/ backup < 14400
    <3>1. b >= 72000 /\ b < 100800 /\ (b % 60 = r /\ b < 86400 => b - r >= 72000)
      BY <1>4, <2>3
    <3>. QED
      BY <1>4, <2>3, <2>6, <3>1
  <2>9. (backup + 3600) % 86400 = maint - r
    <3>1. backup + 3600 = IF b < 86400 THEN t - r ELSE t - 86400 - r
      BY <1>4, <2>3, <2>6
    <3>2. backup + 3600 \in Nat /\ backup + 3600 < 172800
      BY <1>4, <2>3, <2>4, <3>1
    <3>. DEFINE x == backup + 3600
    <3>3. x \in Nat /\ x < 172800 /\ x = IF b < 86400 THEN t - r ELSE t - 86400 - r
      BY <3>1, <3>2
    <3>. HIDE DEF x
    <3>4. x % 86400 = IF x < 86400 THEN x ELSE x - 86400
      BY <3>3, ModDay
    <3>5. x % 86400 = maint - r
      BY <1>4, <2>1, <2>3, <2>4, <3>3, <3>4
    <3>. QED
      BY <3>5 DEF x
  <2>. QED
    BY <1>4, <2>5, <2>7, <2>8, <2>9
<1>. QED
  BY <1>1, <1>7, <1>8 DEF maint, backup

LEMMA DefaultsFit ==
  ASSUME NEW offset \in 0 .. MaintenanceWindowRange - 1
  PROVE  LET maint  == SecondsOfDay(DefaultTimeOfDay(offset))
             backup == DefaultBackup(offset)[2] * Hour + DefaultBackup(offset)[1] * Minute
         IN /\ maint \in Nat
            /\ maint >= 21 * Hour \/ maint < 5 * Hour
            /\ backup >= 20 * Hour \/ backup < 4 * Hour
            /\ DefaultDayOfWeek(offset) = "tuesday" <=> maint >= 21 * Hour
            /\ (backup + Hour) % Day = maint - (maint % Minute)
  BY WindowRange, BelowRange, DefaultsOf
------------------------------------------------------------------------------
(* Which function is running, how many results there are, and where the    *)
(* desired composite is on its way.                                        *)
ScheduleOf(comp) ==
  \/ comp = Bad /\ composite = Bad
  \/ comp # Bad /\ \E offset \in Offsets : composite = Scheduled(comp, offset)

Inv ==
  /\ Admissible(request)
  /\ fn \in 0 .. 6
  /\ results \in Seq({"Normal", "Warning", "Fatal"})
  /\ Len(results) = IF fn = 0 THEN 0 ELSE fn - 1
  /\ fn \in 1 .. 4 => composite = request.composite
  /\ fn \in 5 .. 6 => ScheduleOf(request.composite)

LEMMA InitInv == Init => Inv
  BY RequestsAssumption DEF Init, Inv

LEMMA RunningPosition ==
  ASSUME fn \in 0 .. 6
  PROVE  /\ Running("url-connection-detail") => fn = 1
         /\ Running("user-alerting") => fn = 2
         /\ Running("restart") => fn = 3
         /\ Running("random-default-schedule") => fn = 4
         /\ Running("encrypted-pvc-secret") => fn = 5
  BY DEF Running, postgresFunctions

LEMMA StepOfFunction ==
  ASSUME Step, fn \in 0 .. 6
  PROVE  \/ fn = 0 /\ NewRuntime
         \/ fn = 1 /\ AddUrlToConnectionDetails
         \/ fn = 2 /\ AddUserAlerting
         \/ fn = 3 /\ TransformRestart
         \/ fn = 4 /\ TransformSchedule
         \/ fn = 5 /\ AddPvcSecret
<1>1. CASE NewRuntime
  BY <1>1 DEF NewRuntime
<1>2. CASE AddUrlToConnectionDetails
  <2>1. Running("url-connection-detail")
    BY <1>2 DEF AddUrlToConnectionDetails
  <2>. QED
    BY <1>2, <2>1, RunningPosition
<1>3. CASE AddUserAlerting
  <2>1. Running("user-alerting")
    BY <1>3 DEF AddUserAlerting
  <2>. QED
    BY <1>3, <2>1, RunningPosition
<1>4. CASE TransformRestart
  <2>1. Running("restart")
    BY <1>4 DEF TransformRestart, StartRestart, KeepRecentRestartOp, ScheduleRestart
  <2>. QED
    BY <1>4, <2>1, RunningPosition
<1>5. CASE TransformSchedule
  <2>1. Running("random-default-schedule")
    BY <1>5 DEF TransformSchedule
  <2>. QED
    BY <1>5, <2>1, RunningPosition
<1>6. CASE AddPvcSecret
  <2>1. Running("encrypted-pvc-secret")
    BY <1>6 DEF AddPvcSecret, StartPvcSecret, WriteLuksSecret, EndPvcSecret
  <2>. QED
    BY <1>6, <2>1, RunningPosition
<1>. QED
  BY <1>1, <1>2, <1>3, <1>4, <1>5, <1>6 DEF Step

(* A step either stays in its function or appends the result of it; only   *)
(* NewRuntime and the schedule function write the desired composite.       *)
Stays    == fn' = fn /\ results' = results
Advances == fn' = fn + 1 /\ \E s \in {"Normal", "Warning", "Fatal"} : results' = Append(results, s)

LEMMA StepEffect ==
  ASSUME Inv, Step
  PROVE  /\ request' = request
         /\ \/ fn = 0 /\ fn' = 1 /\ results' = results /\ composite' = request.composite
            \/ fn \in 1 .. 5 /\ fn # 4 /\ composite' = composite /\ (Stays \/ Advances)
            \/ fn = 4 /\ Advances /\ composite = Bad /\ composite' = Bad
            \/ /\ fn = 4 /\ Advances /\ composite # Bad
               /\ \E offset \in Offsets : composite' = Scheduled(composite, offset)
<1>. USE DEF Return, Continue, Stays, Advances
<1>1. CASE fn = 0 /\ NewRuntime
  BY <1>1 DEF NewRuntime
<1>2. CASE fn = 1 /\ AddUrlToConnectionDetails
  BY <1>2 DEF AddUrlToConnectionDetails
<1>3. CASE fn = 2 /\ AddUserAlerting
  BY <1>3 DEF AddUserAlerting
<1>4. CASE fn = 3 /\ TransformRestart
  <2>1. CASE StartRestart
    BY <1>4, <2>1 DEF StartRestart, desired
  <2>2. CASE KeepRecentRestartOp
    BY <1>4, <2>2 DEF KeepRecentRestartOp, desired
  <2>3. CASE ScheduleRestart
    BY <1>4, <2>3 DEF ScheduleRestart, desired
  <2>. QED
    BY <1>4, <2>1, <2>2, <2>3 DEF TransformRestart
<1>5. CASE fn = 4 /\ TransformSchedule
  BY <1>5 DEF TransformSchedule
<1>6. CASE fn = 5 /\ AddPvcSecret
  <2>1. CASE StartPvcSecret
    BY <1>6, <2>1 DEF StartPvcSecret, desired
  <2>2. CASE WriteLuksSecret
    BY <1>6, <2>2 DEF WriteLuksSecret, desired
  <2>3. CASE EndPvcSecret
    BY <1>6, <2>3 DEF EndPvcSecret, desired
  <2>. QED
    BY <1>6, <2>1, <2>2, <2>3 DEF AddPvcSecret
<1>. QED
  BY <1>1, <1>2, <1>3, <1>4, <1>5, <1>6, StepOfFunction DEF Inv

LEMMA NextInv == Inv /\ [Next]_vars => Inv'
<1>. SUFFICES ASSUME Inv, [Next]_vars PROVE Inv'
  OBVIOUS
<1>1. CASE Step
  <2>0. /\ request' = request /\ Admissible(request) /\ fn \in 0 .. 6
        /\ results \in Seq({"Normal", "Warning", "Fatal"})
        /\ Len(results) = IF fn = 0 THEN 0 ELSE fn - 1
    BY <1>1, StepEffect DEF Inv
  <2>1. /\ fn' \in 0 .. 6 /\ results' \in Seq({"Normal", "Warning", "Fatal"})
        /\ Len(results') = IF fn' = 0 THEN 0 ELSE fn' - 1
    <3>1. \/ fn = 0 /\ fn' = 1 /\ results' = results
          \/ fn \in 1 .. 5 /\ (Stays \/ Advances)
      BY <1>1, StepEffect
    <3>2. CASE Advances /\ fn \in 1 .. 5
      <4>1. PICK s \in {"Normal", "Warning", "Fatal"} : fn' = fn + 1 /\ results' = Append(results, s)
        BY <3>2 DEF Advances
      <4>. QED
        BY <2>0, <3>2, <4>1
    <3>. QED
      BY <2>0, <3>1, <3>2 DEF Stays
  <2>2. /\ fn' \in 1 .. 4 => composite' = request.composite
        /\ fn' \in 5 .. 6 => ScheduleOf(request.composite)'
    <3>1. CASE fn = 0 /\ fn' = 1 /\ composite' = request.composite
      BY <3>1
    <3>2. CASE fn \in 1 .. 5 /\ fn # 4 /\ composite' = composite /\ fn' \in {fn, fn + 1}
      BY <2>0, <3>2 DEF Inv, ScheduleOf
    <3>3. CASE fn = 4 /\ fn' = 5 /\ composite = Bad /\ composite' = Bad
      BY <2>0, <3>3 DEF Inv, ScheduleOf
    <3>4. CASE fn = 4 /\ fn' = 5 /\ composite # Bad /\ \E offset \in Offsets : composite' = Scheduled(composite, offset)
      BY <2>0, <3>4 DEF Inv, ScheduleOf
    <3>. QED
      BY <1>1, StepEffect, <3>1, <3>2, <3>3, <3>4 DEF Stays, Advances
  <2>. QED
    BY <2>0, <2>1, <2>2 DEF Inv
<1>2. CASE UNCHANGED vars
  BY <1>2 DEF Inv, ScheduleOf, vars, desired, exec
<1>. QED
  BY <1>1, <1>2 DEF Next

LEMMA InvFits == Inv => SchedulesFit
<1>. SUFFICES ASSUME Inv, Ran(4), composite # Bad PROVE SchedulesFit
  BY DEF SchedulesFit
<1>1. fn \in 5 .. 6
  BY DEF Inv, Ran
<1>2. PICK offset \in Offsets : composite = Scheduled(request.composite, offset)
  BY <1>1 DEF Inv, ScheduleOf
<1>3. request.composite # Bad /\ IsComposite(request.composite)
  BY <1>1 DEF Inv, ScheduleOf, Admissible
<1>4. LET was == request.composite IN
      /\ was.backup = Nil => composite.backup = DefaultBackup(offset)
      /\ was.timeOfDay = Nil => composite.timeOfDay = DefaultTimeOfDay(offset)
      /\ was.dayOfWeek = Nil => composite.dayOfWeek = DefaultDayOfWeek(offset)
  BY <1>2, <1>3 DEF Scheduled, IsComposite
<1>5. offset \in 0 .. MaintenanceWindowRange - 1
  BY OffsetsAssumption
<1>. QED
  BY <1>4, <1>5, DefaultsFit DEF SchedulesFit

(* Whatever time is drawn and whatever the user chose, the defaults are in *)
(* their windows, on the right day, and one hour apart.                    *)
THEOREM SchedulesAlwaysFit == Spec => []SchedulesFit
  BY InvFits, InitInv, NextInv, PTL DEF Spec

LEMMA StepKeepsChoice ==
  ASSUME Inv, Step
  PROVE  KeepsUserChoice
<1>. SUFFICES ASSUME fn > 0, composite # Bad PROVE KeepsUserChoice
  BY DEF KeepsUserChoice
<1>1. CASE composite' = composite
  BY <1>1 DEF KeepsUserChoice
<1>2. CASE composite' # composite
  <2>1. fn = 4 /\ \E offset \in Offsets : composite' = Scheduled(composite, offset)
    BY <1>2, StepEffect
  <2>2. IsComposite(composite)
    BY <2>1 DEF Inv, Admissible
  <2>. QED
    BY <2>1, <2>2 DEF KeepsUserChoice, Scheduled, IsComposite
<1>. QED
  BY <1>1, <1>2

(* A function never takes back what the user or an earlier function chose. *)
THEOREM UserChoiceIsKept == Spec => UserChoiceKept
<1>1. Inv /\ [Next]_vars => [KeepsUserChoice]_vars
  BY StepKeepsChoice DEF Next
<1>. QED
  BY <1>1, InitInv, NextInv, PTL DEF Spec, UserChoiceKept
==============================================================================
