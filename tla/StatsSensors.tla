---------------------------- MODULE StatsSensors ----------------------------
(***************************************************************************)
(* How g15stats looks for a temperature or fan sensor: get_sensors tries   *)
(* the current one under both of its paths, gives it RETRY_COUNT chances   *)
(* and goes on to the next; when none has a chance left the screen is      *)
(* disabled.  The L4 key moves the current sensor from another thread.     *)
(***************************************************************************)
EXTENDS Integers

CONSTANTS MAX_SENSOR, RETRY_COUNT

Sensor == 0 .. MAX_SENSOR - 1
SENSOR_ERROR == -100

VARIABLES
  path,          \* under which path a sensor answers: "hwmon", "device" or "none"
  sensor_id,     \* the current one
  sensor_type,   \* those that are tried under "device"
  sensor_lost,   \* the chances each has left
  have_sensor,   \* the screen is there
  gpc, trying,   \* get_sensors: "idle" or "read"; its argument
  failed,        \* history: sensors that did not answer once although they are there
  moved          \* history: L4 came while get_sensors ran

probevars == <<sensor_id, sensor_type, sensor_lost, have_sensor>>
gvars == <<path, probevars, gpc, trying, failed, moved>>

Init ==
  /\ path \in [Sensor -> {"hwmon", "device", "none"}]
  /\ sensor_id \in Sensor
  /\ sensor_type = [s \in Sensor |-> FALSE] /\ sensor_lost = [s \in Sensor |-> 1]
  /\ have_sensor = TRUE
  /\ gpc = "idle" /\ trying = 0
  /\ failed = {} /\ moved = FALSE

(* The next sensor round that has a chance, the same one after all others. *)
get_next(id, lost) ==
  LET round == [i \in 1 .. MAX_SENSOR |-> (id + i) % MAX_SENSOR]
      some  == {i \in 1 .. MAX_SENSOR : lost[round[i]] > 0}
  IN IF some = {} THEN SENSOR_ERROR ELSE round[CHOOSE i \in some : \A j \in some : i <= j]

(* A screen with readings is drawn. *)
GetSensors ==
  /\ gpc = "idle" /\ have_sensor
  /\ gpc' = "read" /\ trying' = sensor_id
  /\ UNCHANGED <<path, probevars, failed, moved>>

Reading == gpc = "read"
Answers == path[sensor_id] = IF sensor_type[sensor_id] THEN "device" ELSE "hwmon"

(* It answers; its own screen, not the summary, renews its chances. *)
Answered ==
  /\ Reading /\ Answers
  /\ gpc' = "idle"
  /\ \E lost \in {sensor_lost, [sensor_lost EXCEPT ![sensor_id] = RETRY_COUNT]} :
       sensor_lost' = lost
  /\ UNCHANGED <<path, sensor_id, sensor_type, have_sensor, trying, failed, moved>>

(* It does not: it is tried under its other path, from then on, ... *)
OtherPath ==
  /\ sensor_type' = [sensor_type EXCEPT ![trying] = TRUE]
  /\ UNCHANGED <<sensor_id, sensor_lost, have_sensor, gpc, trying>>

(* ... has one chance less, and the next one is tried.                     *)
NextSensor ==
  LET lost == [sensor_lost EXCEPT ![trying] = IF @ > 0 THEN @ - 1 ELSE 0]
      next == get_next(trying, lost)
  IN /\ sensor_lost' = lost
     /\ sensor_id' = next
     /\ IF next = SENSOR_ERROR
        THEN have_sensor' = FALSE /\ gpc' = "idle" /\ UNCHANGED trying
        ELSE trying' = next /\ UNCHANGED <<have_sensor, gpc>>
     /\ UNCHANGED sensor_type

(* With a bug: the other path is not tried. *)
MissedOnce ==
  /\ Reading
  /\ NextSensor
  /\ failed' = IF Answers THEN failed \cup {sensor_id} ELSE failed
  /\ UNCHANGED <<path, moved>>

(* A sensor may fail to answer once though it is there. *)
Missed ==
  /\ Reading
  /\ IF sensor_type[trying] THEN NextSensor ELSE OtherPath
  /\ failed' = IF Answers THEN failed \cup {sensor_id} ELSE failed
  /\ UNCHANGED <<path, moved>>

(* L4 on the screen of the sensor *)
NextSensorKey ==
  /\ have_sensor
  /\ sensor_id' = LET next == get_next(sensor_id, sensor_lost)
                  IN IF next = SENSOR_ERROR THEN 0 ELSE next
  /\ moved' = (moved \/ Reading)
  /\ UNCHANGED <<path, sensor_type, sensor_lost, have_sensor, gpc, trying, failed>>

Next == GetSensors \/ Answered \/ Missed \/ NextSensorKey

Spec == Init /\ [][Next]_gvars /\ WF_gvars(Answered \/ Missed)

-----------------------------------------------------------------------------
(* A screen is only disabled when no sensor is there, under either path,   *)
(* that has never failed to answer: retries, paths and the round add up to *)
(* trying them all, unless L4 moves the sensor in the middle of it.        *)
DisabledIfNoneIsThere ==
  ~have_sensor /\ ~moved => \A s \in Sensor \ failed : path[s] = "none"
=============================================================================
