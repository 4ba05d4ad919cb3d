----------------------------- MODULE StatsProofs ------------------------------
(***************************************************************************)
(* Proofs about g15stats, whichever sensors are there and however many.    *)
(* ScreenInv says what a pass of the main loop owes to cycle as long as no *)
(* key has come; SensorInv says what is known of a sensor that was tried,  *)
(* so that a round without an answer has tried them all.  The last part    *)
(* computes the rows of the bars for any number of cores.                  *)
(***************************************************************************)
EXTENDS MCPrograms, FiniteSetTheorems, TLAPS

-----------------------------------------------------------------------------
(* Smallest and largest elements *)

LEMMA LeastIs ==
  ASSUME NEW S \in SUBSET Int, NEW m \in S, \A y \in S : m <= y
  PROVE  Screens!Min(S) = m
<1> DEFINE Is(x) == \A y \in S : x <= y
           x == CHOOSE z \in S : Is(z)
<1>1. x \in S /\ Is(x)
  <2>1. \E z \in S : Is(z)
    OBVIOUS
  <2> HIDE DEF Is
  <2> QED
    BY <2>1
<1>2. x = m
  <2> HIDE DEF x
  <2> QED
    BY <1>1
<1> QED
  BY <1>2 DEF Screens!Min

LEMMA GreatestIs ==
  ASSUME NEW S \in SUBSET Int, NEW m \in S, \A y \in S : m >= y
  PROVE  Screens!Max(S) = m
<1> DEFINE Is(x) == \A y \in S : x >= y
           x == CHOOSE z \in S : Is(z)
<1>1. x \in S /\ Is(x)
  <2>1. \E z \in S : Is(z)
    OBVIOUS
  <2> HIDE DEF Is
  <2> QED
    BY <2>1
<1>2. x = m
  <2> HIDE DEF x
  <2> QED
    BY <1>1
<1> QED
  BY <1>2 DEF Screens!Max

(* A set of numbers up to n has a least one: what lies above its elements  *)
(* would otherwise be mapped onto itself by taking one off, and nothing    *)
(* goes to n.                                                              *)
LEMMA LeastExists ==
  ASSUME NEW n \in Nat, NEW S \in SUBSET (1 .. n), S # {}
  PROVE  \E i \in S : \A j \in S : i <= j
<1> SUFFICES ASSUME \A i \in S : \E j \in S : j < i PROVE FALSE
  OBVIOUS
<1> DEFINE T == {i \in 1 .. n : \E j \in S : j <= i}
           down == [i \in T |-> i - 1]
<1>1. IsFiniteSet(T) /\ n \in T
  <2>1. IsFiniteSet(1 .. n)
    BY FS_Interval
  <2>2. T \in SUBSET (1 .. n)
    OBVIOUS
  <2>3. n \in T
    <3>1. PICK j \in S : TRUE
      OBVIOUS
    <3>2. j \in 1 .. n /\ j <= n /\ n \in 1 .. n
      OBVIOUS
    <3> QED
      BY <3>2
  <2> QED
    BY <2>1, <2>2, <2>3, FS_Subset
<1>2. \A i \in T : i - 1 \in T
  OBVIOUS
<1>3. down \in Injection(T, T)
  BY <1>2 DEF Injection, IsInjective
<1>4. down \in Surjection(T, T)
  BY <1>1, <1>3, FS_Injection
<1>5. \E i \in T : down[i] = n
  BY <1>1, <1>4 DEF Surjection
<1> QED
  BY <1>5

-----------------------------------------------------------------------------
(* The screens *)

HaveTypes == have \in [Screens!Optional -> BOOLEAN]

ScreenInv ==
  /\ cycle \in Int /\ candidate \in Int
  /\ ~pressed =>
       /\ mpc = "try" => candidate = cycle
       /\ mpc \in {"send", "wait"} =>
            shown = cycle \/ (shown = Screens!Stale /\ cycle = Screens!SCREEN_SUMMARY)

(* Where the key goes from an optional screen: to the first one that is    *)
(* there, upwards or downwards.                                            *)
LEMMA UpGoes ==
  ASSUME NEW c \in Int
  PROVE  /\ c > 8 => Screens!Up(c) = 0
         /\ c < 5 => Screens!Up(c) = c
         /\ \A m \in 5 .. 8 : /\ c \in 5 .. m /\ have[m]
                              /\ \A k \in c .. m - 1 : ~have[k]
                              => Screens!Up(c) = m
         /\ c \in 5 .. 8 /\ (\A k \in c .. 8 : ~have[k]) => Screens!Up(c) = 0
<1> USE DEF Screens!MAX_SCREENS, Screens!Optional, Screens!SCREEN_NET, Screens!SCREEN_FAN
<1> DEFINE next == {s \in c .. 8 : Screens!Available(s)}
<1>1. next \in SUBSET Int
  OBVIOUS
<1>2. /\ c > 8 \/ c < 5 => Screens!Up(c) = IF c > 8 THEN 0 ELSE c
      /\ c \in 5 .. 8 => Screens!Up(c) = IF next = {} THEN 0 ELSE Screens!Min(next)
  BY DEF Screens!Up
<1>3. ASSUME NEW m \in 5 .. 8, c \in 5 .. m, have[m], \A k \in c .. m - 1 : ~have[k]
      PROVE  Screens!Up(c) = m
  <2>1. m \in next /\ \A y \in next : m <= y
    BY <1>3 DEF Screens!Available
  <2> HIDE DEF next
  <2>2. Screens!Min(next) = m
    BY <1>1, <2>1, LeastIs
  <2> QED
    BY <1>2, <1>3, <2>1, <2>2
<1>4. c \in 5 .. 8 /\ (\A k \in c .. 8 : ~have[k]) => next = {}
  BY DEF Screens!Available
<1> HIDE DEF next
<1> QED
  BY <1>2, <1>3, <1>4

LEMMA DownGoes ==
  ASSUME NEW c \in Int
  PROVE  /\ c > 8 \/ c \in 0 .. 4 => Screens!Down(c) = c
         /\ \A m \in 4 .. 8, from \in 5 .. 8 :
              /\ from = IF c < 0 THEN 8 ELSE c
              /\ m <= from /\ (m = 4 \/ have[m])
              /\ \A k \in m + 1 .. from : ~have[k]
              => Screens!Down(c) = m
<1> USE DEF Screens!MAX_SCREENS, Screens!Optional, Screens!SCREEN_NET, Screens!SCREEN_FAN,
            Screens!SCREEN_SWAP
<1>1. c > 8 \/ c \in 0 .. 4 => Screens!Down(c) = c
  BY DEF Screens!Down
<1>2. ASSUME NEW m \in 4 .. 8, NEW from \in 5 .. 8, from = IF c < 0 THEN 8 ELSE c,
             m <= from, m = 4 \/ have[m], \A k \in m + 1 .. from : ~have[k]
      PROVE  Screens!Down(c) = m
  <2> DEFINE next == {s \in 4 .. from : Screens!Available(s)}
  <2>1. Screens!Down(c) = Screens!Max(next)
    BY <1>2 DEF Screens!Down
  <2>2. next \in SUBSET Int /\ m \in next /\ \A y \in next : m >= y
    BY <1>2 DEF Screens!Available
  <2> HIDE DEF next
  <2> QED
    BY <2>1, <2>2, GreatestIs
<1> QED
  BY <1>1, <1>2

(* A key leads to a screen in any case.                                    *)
LEMMA KeyLeadsTo ==
  ASSUME NEW c \in Int
  PROVE  Screens!Up(c) \in Int /\ Screens!Down(c) \in Int
<1>1. Screens!Up(c) \in Int
  <2>1. CASE c \in 5 .. 8 /\ \E m \in c .. 8 : have[m]
    <3>1. \E m \in c .. 8 : have[m] /\ \A k \in c .. m - 1 : ~have[k]
      BY <2>1, c = 5 \/ c = 6 \/ c = 7 \/ c = 8
    <3> QED
      BY <2>1, <3>1, UpGoes
  <2> QED
    BY <2>1, UpGoes
<1>2. ASSUME NEW from \in 5 .. 8, from = IF c < 0 THEN 8 ELSE c
      PROVE  Screens!Down(c) \in Int
  <2>1. \E m \in 4 .. from : (m = 4 \/ have[m]) /\ \A k \in m + 1 .. from : ~have[k]
    <3>1. from = 5 \/ from = 6 \/ from = 7 \/ from = 8
      OBVIOUS
    <3> QED
      BY <3>1
  <2> QED
    BY <1>2, <2>1, DownGoes
<1> QED
  BY <1>1, <1>2, DownGoes

LEMMA ScreenInit == Screens!Init => HaveTypes /\ ScreenInv
BY DEF Screens!Init, HaveTypes, ScreenInv

LEMMA HaveStays == HaveTypes /\ [Screens!Next]_Screens!svars => HaveTypes'
<1> SUFFICES ASSUME HaveTypes, [Screens!Next]_Screens!svars PROVE HaveTypes'
  OBVIOUS
<1> USE DEF HaveTypes
<1>1. CASE Screens!PassOver
  BY <1>1 DEF Screens!PassOver
<1>2. CASE Screens!Send
  BY <1>2, Zenon DEF Screens!Send
<1>3. CASE Screens!NoInterface
  BY <1>3 DEF Screens!NoInterface
<1>4. CASE UNCHANGED have
  BY <1>4
<1> HIDE DEF HaveTypes
<1> QED
  BY <1>1, <1>2, <1>3, <1>4
     DEF Screens!Next, Screens!MainLoop, Screens!Key, Screens!Correct, Screens!BeginPass,
         Screens!DrawScreen, Screens!StartOver, Screens!Wake, Screens!svars

LEMMA ScreenStep == HaveTypes /\ ScreenInv /\ [Screens!Next]_Screens!svars => ScreenInv'
<1> SUFFICES ASSUME HaveTypes, ScreenInv, [Screens!Next]_Screens!svars PROVE ScreenInv'
  OBVIOUS
<1> USE DEF ScreenInv, Screens!keyvars, Screens!mainvars
<1>1. ASSUME NEW step \in {-1, 1}, Screens!Key(step) PROVE ScreenInv'
  BY <1>1 DEF Screens!Key
<1>2. CASE Screens!Correct
  <2>1. Screens!Up(cycle) \in Int /\ Screens!Down(cycle) \in Int
    BY KeyLeadsTo
  <2> QED
    BY <1>2, <2>1 DEF Screens!Correct
<1>3. CASE Screens!BeginPass
  BY <1>3 DEF Screens!BeginPass
<1>4. CASE Screens!DrawScreen
  BY <1>4 DEF Screens!DrawScreen
<1>5. CASE Screens!PassOver
  BY <1>5 DEF Screens!PassOver
<1>6. CASE Screens!StartOver
  BY <1>6 DEF Screens!StartOver, Screens!MAX_SCREENS, Screens!SCREEN_SUMMARY
<1>7. CASE Screens!Send \/ Screens!Wake \/ Screens!NoInterface
  BY <1>7 DEF Screens!Send, Screens!Wake, Screens!NoInterface
<1>8. CASE UNCHANGED Screens!svars
  BY <1>8 DEF Screens!svars
<1> HIDE DEF ScreenInv
<1>9. CASE Screens!Next
  BY <1>1, <1>2, <1>3, <1>4, <1>5, <1>6, <1>7, <1>9 DEF Screens!Next, Screens!MainLoop
<1> QED
  BY <1>8, <1>9

(* Whichever sensors turn out to be missing: the screen on the LCD is the  *)
(* one cycle stands for, unless a key came during the pass.                *)
THEOREM SelectedIsShown == Screens!Spec => []ShowsSelected
<1>1. ScreenInv => ShowsSelected
  BY DEF ScreenInv, ShowsSelected, Screens!ShowsSelected
<1> QED
  BY ScreenInit, HaveStays, ScreenStep, <1>1, PTL DEF Screens!Spec

(* The first screen that is there from one on, and the last one up to one  *)
LEMMA FirstFrom ==
  ASSUME NEW c \in 5 .. 8, \E m \in c .. 8 : have[m]
  PROVE  \E m \in c .. 8 : have[m] /\ \A k \in c .. m - 1 : ~have[k]
<1>1. c = 5 \/ c = 6 \/ c = 7 \/ c = 8
  OBVIOUS
<1> QED
  BY <1>1

LEMMA LastUpTo ==
  ASSUME NEW c \in 5 .. 8
  PROVE  \E m \in 4 .. c : (m = 4 \/ have[m]) /\ \A k \in m + 1 .. c : ~have[k]
<1>1. c = 5 \/ c = 6 \/ c = 7 \/ c = 8
  OBVIOUS
<1> QED
  BY <1>1

LEMMA NextThenPrevious ==
  ASSUME NEW c \in 0 .. 8, Screens!Available(c)
  PROVE  Screens!Down(Screens!Up(c + 1) - 1) = c
<1> USE DEF Screens!Available, Screens!Optional, Screens!SCREEN_NET, Screens!SCREEN_FAN
<1>1. CASE c \in 0 .. 3
  BY <1>1, UpGoes, DownGoes
<1>2. CASE c \in 4 .. 7 /\ \E m \in c + 1 .. 8 : have[m]
  <2>1. PICK m \in c + 1 .. 8 : have[m] /\ \A k \in c + 1 .. m - 1 : ~have[k]
    BY <1>2, FirstFrom
  <2>2. Screens!Up(c + 1) = m
    BY <1>2, <2>1, UpGoes
  <2>3. CASE m = 5
    BY <1>2, <2>1, <2>2, <2>3, DownGoes
  <2>4. CASE m # 5
    <3>1. m - 1 \in 5 .. 8 /\ c \in 4 .. 8 /\ c <= m - 1 /\ (c = 4 \/ have[c])
      BY <1>2, <2>1, <2>4
    <3> QED
      BY <2>1, <2>2, <3>1, DownGoes
  <2> QED
    BY <2>3, <2>4
<1>3. CASE c \in 4 .. 8 /\ \A m \in c + 1 .. 8 : ~have[m]
  <2>1. Screens!Up(c + 1) = 0
    BY <1>3, UpGoes
  <2>2. c = 4 \/ have[c]
    BY <1>3
  <2>3. Screens!Down(-1) = c
    BY <1>3, <2>2, DownGoes
  <2> QED
    BY <2>1, <2>3
<1> QED
  BY <1>1, <1>2, <1>3

LEMMA PreviousThenNext ==
  ASSUME NEW c \in 0 .. 8, Screens!Available(c)
  PROVE  Screens!Up(Screens!Down(c - 1) + 1) = c
<1> USE DEF Screens!Available, Screens!Optional, Screens!SCREEN_NET, Screens!SCREEN_FAN
<1>1. CASE c = 0
  <2>1. PICK m \in 4 .. 8 : (m = 4 \/ have[m]) /\ \A k \in m + 1 .. 8 : ~have[k]
    BY LastUpTo
  <2>2. Screens!Down(-1) = m
    BY <2>1, DownGoes
  <2> QED
    BY <1>1, <2>1, <2>2, UpGoes
<1>2. CASE c \in 1 .. 5
  <2>1. Screens!Down(c - 1) = c - 1
    BY <1>2, DownGoes
  <2>2. c = 5 => have[5]
    BY <1>2
  <2> QED
    BY <1>2, <2>1, <2>2, UpGoes
<1>3. CASE c \in 6 .. 8
  <2>1. PICK m \in 4 .. c - 1 : (m = 4 \/ have[m]) /\ \A k \in m + 1 .. c - 1 : ~have[k]
    BY <1>3, LastUpTo
  <2>2. Screens!Down(c - 1) = m
    BY <1>3, <2>1, DownGoes
  <2>3. have[c] /\ m + 1 \in 5 .. c /\ c \in 5 .. 8
    BY <1>3, <2>1
  <2> QED
    BY <2>1, <2>2, <2>3, UpGoes
<1> QED
  BY <1>1, <1>2, <1>3

(* Whichever screens are missing, L2 and L3 undo each other on those that  *)
(* are there.                                                              *)
THEOREM KeysUndoEachOther == Screens!Spec => []PreviousUndoesNext
<1>1. PreviousUndoesNext
  BY NextThenPrevious, PreviousThenNext
     DEF PreviousUndoesNext, Screens!PreviousUndoesNext, Screens!MAX_SCREENS
<1> QED
  BY <1>1, PTL

-----------------------------------------------------------------------------
(* The sensors *)

SensorTypes ==
  /\ sensor_type \in [Sensors!Sensor -> BOOLEAN]
  /\ sensor_lost \in [Sensors!Sensor -> Nat]
  /\ have_sensor => sensor_id \in Sensors!Sensor
  /\ gpc = "read" => have_sensor /\ trying \in Sensors!Sensor
  /\ path \in [Sensors!Sensor -> {"hwmon", "device", "none"}]

(* A sensor that never failed while it was there, and is tried under its   *)
(* second path, has not answered under the first; one without a chance has *)
(* answered under neither.                                                 *)
Tried ==
  ~moved =>
    /\ gpc = "read" => trying = sensor_id
    /\ \A s \in Sensors!Sensor \ failed :
         /\ sensor_type[s] => path[s] # "hwmon"
         /\ sensor_lost[s] = 0 => path[s] = "none"
    /\ ~have_sensor => \A s \in Sensors!Sensor : sensor_lost[s] = 0

SensorInv == SensorTypes /\ Tried

LEMMA ModRound ==
  ASSUME NEW n \in Nat \ {0}, NEW k \in 0 .. n - 1
  PROVE  k % n = k /\ (k + n) % n = k
OBVIOUS

(* The round starts behind a sensor and comes to each one, itself last.    *)
LEMMA RoundReaches ==
  ASSUME NEW id \in Sensors!Sensor
  PROVE  /\ \A i \in 1 .. MAX_SENSOR : (id + i) % MAX_SENSOR \in Sensors!Sensor
         /\ \A s \in Sensors!Sensor : \E i \in 1 .. MAX_SENSOR : (id + i) % MAX_SENSOR = s
<1>0. MAX_SENSOR \in Nat \ {0}
  BY ProgramsAssumption
<1> USE <1>0 DEF Sensors!Sensor
<1>1. ASSUME NEW i \in 1 .. MAX_SENSOR
      PROVE  (id + i) % MAX_SENSOR \in 0 .. MAX_SENSOR - 1
  <2>1. CASE id + i < MAX_SENSOR
    BY <2>1, ModRound
  <2>2. CASE id + i >= MAX_SENSOR
    <3>1. id + i - MAX_SENSOR \in 0 .. MAX_SENSOR - 1
      BY <2>2
    <3>2. (id + i - MAX_SENSOR + MAX_SENSOR) % MAX_SENSOR = id + i - MAX_SENSOR
      BY <3>1, ModRound
    <3> QED
      BY <3>1, <3>2
  <2> QED
    BY <2>1, <2>2
<1>2. ASSUME NEW s \in 0 .. MAX_SENSOR - 1
      PROVE  \E i \in 1 .. MAX_SENSOR : (id + i) % MAX_SENSOR = s
  <2>1. CASE s > id
    <3>1. s - id \in 1 .. MAX_SENSOR /\ id + (s - id) = s /\ s % MAX_SENSOR = s
      BY <2>1, ModRound
    <3> QED
      BY <3>1
  <2>2. CASE s <= id
    <3>1. /\ s - id + MAX_SENSOR \in 1 .. MAX_SENSOR
          /\ id + (s - id + MAX_SENSOR) = s + MAX_SENSOR
          /\ (s + MAX_SENSOR) % MAX_SENSOR = s
      BY <2>2, ModRound
    <3> QED
      BY <3>1
  <2> QED
    BY <2>1, <2>2
<1> QED
  BY <1>1, <1>2

(* get_next finds a sensor, unless none has a chance left.                 *)
LEMMA GetNext ==
  ASSUME NEW id \in Sensors!Sensor, NEW retries \in [Sensors!Sensor -> Nat]
  PROVE  \/ Sensors!get_next(id, retries) \in Sensors!Sensor
         \/ /\ Sensors!get_next(id, retries) = Sensors!SENSOR_ERROR
            /\ \A s \in Sensors!Sensor : retries[s] = 0
<1> DEFINE round == [i \in 1 .. MAX_SENSOR |-> (id + i) % MAX_SENSOR]
           some == {i \in 1 .. MAX_SENSOR : retries[round[i]] > 0}
           first == CHOOSE i \in some : \A j \in some : i <= j
<1>1. Sensors!get_next(id, retries) = IF some = {} THEN Sensors!SENSOR_ERROR ELSE round[first]
  BY DEF Sensors!get_next
<1>2. CASE some = {}
  <2>1. ASSUME NEW s \in Sensors!Sensor PROVE retries[s] = 0
    <3>1. PICK i \in 1 .. MAX_SENSOR : round[i] = s
      BY RoundReaches
    <3>2. retries[s] \in Nat /\ ~(retries[s] > 0)
      BY <1>2, <3>1
    <3> QED
      BY <3>2
  <2> QED
    BY <1>1, <1>2, <2>1
<1>3. CASE some # {}
  <2>1. \E i \in some : \A j \in some : i <= j
    <3>1. MAX_SENSOR \in Nat /\ some \in SUBSET (1 .. MAX_SENSOR)
      BY ProgramsAssumption
    <3> HIDE DEF some
    <3> QED
      BY <1>3, <3>1, LeastExists
  <2>2. first \in 1 .. MAX_SENSOR
    <3>1. first \in some
      <4> HIDE DEF some
      <4> QED
        BY <2>1
    <3> QED
      BY <3>1
  <2> HIDE DEF first
  <2>3. round[first] \in Sensors!Sensor
    BY <2>2, RoundReaches
  <2> QED
    BY <1>1, <1>3, <2>3
<1> QED
  BY <1>2, <1>3

LEMMA SensorInit == Sensors!Init => SensorInv
<1> SUFFICES ASSUME Sensors!Init PROVE SensorInv
  OBVIOUS
<1> USE DEF Sensors!Init
<1>1. sensor_type \in [Sensors!Sensor -> BOOLEAN]
  BY Zenon
<1>2. SensorTypes
  BY <1>1 DEF SensorTypes
<1>3. Tried
  BY DEF Tried
<1> QED
  BY <1>2, <1>3 DEF SensorInv

(* A sensor that was there and did not answer is remembered as failed.     *)
LEMMA MissedKeeps ==
  ASSUME SensorInv, Sensors!Missed
  PROVE  SensorInv'
<1> USE DEF SensorInv, Sensors!Reading
<1>1. gpc = "read" /\ have_sensor /\ trying \in Sensors!Sensor /\ UNCHANGED <<path, moved>>
  BY DEF Sensors!Missed, SensorTypes
<1>2. failed \subseteq failed' /\ (Sensors!Answers => sensor_id \in failed')
  BY DEF Sensors!Missed
<1>3. CASE ~sensor_type[trying]
  <2>1. sensor_type' = [sensor_type EXCEPT ![trying] = TRUE]
        /\ UNCHANGED <<sensor_id, sensor_lost, have_sensor, gpc, trying>>
    BY <1>3 DEF Sensors!Missed, Sensors!OtherPath
  <2>2. sensor_type' \in [Sensors!Sensor -> BOOLEAN]
    BY <2>1 DEF SensorTypes
  <2>3. SensorTypes'
    BY <1>1, <2>1, <2>2 DEF SensorTypes
  <2>4. ASSUME ~moved PROVE path[trying] = "hwmon" => trying \in failed'
    BY <1>1, <1>2, <1>3, <2>4 DEF Tried, Sensors!Answers
  <2>5. Tried'
    BY <1>1, <1>2, <2>1, <2>4 DEF Tried, SensorTypes
  <2> QED
    BY <2>3, <2>5
<1>4. CASE sensor_type[trying]
  <2> DEFINE retries == [sensor_lost EXCEPT ![trying] = IF @ > 0 THEN @ - 1 ELSE 0]
  <2>1. /\ sensor_lost' = retries /\ sensor_id' = Sensors!get_next(trying, retries)
        /\ sensor_type' = sensor_type
        /\ sensor_id' = Sensors!SENSOR_ERROR =>
             ~have_sensor' /\ gpc' = "idle" /\ UNCHANGED trying
        /\ sensor_id' # Sensors!SENSOR_ERROR =>
             trying' = sensor_id' /\ UNCHANGED <<have_sensor, gpc>>
    BY <1>4 DEF Sensors!Missed, Sensors!NextSensor
  <2>2. /\ retries \in [Sensors!Sensor -> Nat]
        /\ \A s \in Sensors!Sensor \ {trying} : retries[s] = sensor_lost[s]
    BY <1>1 DEF SensorTypes
  <2>3. Sensors!SENSOR_ERROR \notin Sensors!Sensor
    BY ProgramsAssumption DEF Sensors!SENSOR_ERROR, Sensors!Sensor
  <2> HIDE DEF retries
  <2>4. SensorTypes'
    BY <1>1, <2>1, <2>2, <2>3, GetNext DEF SensorTypes
  <2>5. ASSUME ~moved PROVE path[trying] = "none" \/ trying \in failed'
    <3>1. trying = sensor_id
      BY <1>1, <2>5 DEF Tried
    <3>2. path[trying] = "device" => trying \in failed'
      BY <1>2, <1>4, <3>1 DEF Sensors!Answers
    <3>3. path[trying] = "hwmon" => trying \in failed'
      BY <1>1, <1>2, <1>4, <2>5 DEF Tried
    <3> QED
      BY <1>1, <3>2, <3>3 DEF SensorTypes
  <2>6. ASSUME ~moved, NEW s \in Sensors!Sensor \ failed'
        PROVE  /\ sensor_type[s] => path[s] # "hwmon"
               /\ retries[s] = 0 => path[s] = "none"
    <3>1. s \in Sensors!Sensor \ failed
      BY <1>2, <2>6
    <3>2. CASE s = trying
      BY <2>5, <2>6, <3>2
    <3>3. CASE s # trying
      <4>1. retries[s] = sensor_lost[s]
        BY <2>2, <3>1, <3>3
      <4> QED
        BY <2>6, <3>1, <4>1 DEF Tried
    <3> QED
      BY <3>2, <3>3
  <2>7. ASSUME ~have_sensor' PROVE \A s \in Sensors!Sensor : retries[s] = 0
    <3>1. sensor_id' = Sensors!SENSOR_ERROR
      BY <1>1, <2>1, <2>7
    <3> QED
      BY <1>1, <2>1, <2>2, <2>3, <3>1, GetNext
  <2>8. ASSUME gpc' = "read" PROVE trying' = sensor_id'
    BY <2>1, <2>8
  <2>9. Tried'
    BY <1>1, <2>1, <2>6, <2>7, <2>8 DEF Tried
  <2> QED
    BY <2>4, <2>9
<1> QED
  BY <1>3, <1>4

LEMMA SensorStep == SensorInv /\ [Sensors!Next]_Sensors!gvars => SensorInv'
<1> SUFFICES ASSUME SensorInv, [Sensors!Next]_Sensors!gvars PROVE SensorInv'
  OBVIOUS
<1> USE DEF SensorInv, Sensors!probevars, Sensors!Reading
<1>1. CASE Sensors!GetSensors
  <2>1. SensorTypes'
    BY <1>1 DEF Sensors!GetSensors, SensorTypes
  <2>2. Tried'
    BY <1>1 DEF Sensors!GetSensors, Tried
  <2> QED
    BY <2>1, <2>2
<1>2. CASE Sensors!Answered
  <2>1. /\ UNCHANGED <<path, sensor_id, sensor_type, have_sensor, trying, failed, moved>>
        /\ gpc = "read" /\ gpc' = "idle"
        /\ sensor_lost' \in {sensor_lost, [sensor_lost EXCEPT ![sensor_id] = RETRY_COUNT]}
    BY <1>2 DEF Sensors!Answered
  <2>2. RETRY_COUNT \in Nat \ {0}
    BY ProgramsAssumption
  <2>3. /\ sensor_lost' \in [Sensors!Sensor -> Nat]
        /\ \A s \in Sensors!Sensor : sensor_lost'[s] = 0 => sensor_lost[s] = 0
    BY <2>1, <2>2 DEF SensorTypes
  <2>4. SensorTypes'
    BY <2>1, <2>3 DEF SensorTypes
  <2>5. have_sensor
    BY <2>1 DEF SensorTypes
  <2>6. Tried'
    BY <2>1, <2>3, <2>5 DEF Tried
  <2> QED
    BY <2>4, <2>6
<1>3. CASE Sensors!NextSensorKey
  <2>1. 0 \in Sensors!Sensor
    BY ProgramsAssumption DEF Sensors!Sensor
  <2>2. SensorTypes'
    BY <1>3, <2>1, GetNext DEF Sensors!NextSensorKey, SensorTypes
  <2>3. Tried'
    BY <1>3 DEF Sensors!NextSensorKey, Tried
  <2> QED
    BY <2>2, <2>3
<1>4. CASE UNCHANGED Sensors!gvars
  <2>1. SensorTypes'
    BY <1>4 DEF Sensors!gvars, SensorTypes
  <2>2. Tried'
    BY <1>4 DEF Sensors!gvars, Tried
  <2> QED
    BY <2>1, <2>2
<1> HIDE DEF SensorInv
<1>5. CASE Sensors!Next
  BY <1>1, <1>2, <1>3, <1>5, MissedKeeps DEF Sensors!Next
<1> QED
  BY <1>4, <1>5

(* For any number of sensors and retries: the screen is only disabled when *)
(* no sensor that never failed to answer is there, under either path,      *)
(* unless L4 moved the sensor in the middle of a round.                    *)
THEOREM DisabledWithCause == Sensors!Spec => []DisabledIfNoneIsThere
<1>1. SensorInv => DisabledIfNoneIsThere
  BY DEF SensorInv, Tried, DisabledIfNoneIsThere, Sensors!DisabledIfNoneIsThere
<1> QED
  BY SensorInit, SensorStep, <1>1, PTL DEF Sensors!Spec

-----------------------------------------------------------------------------
(* StatsLayout *)

LayoutInv ==
  /\ ncpu \in Nat /\ ncpu >= 1
  /\ view \in {0, 1, 2} /\ view_mode \in {0, 1} /\ unicore \in BOOLEAN
  /\ shows \subseteq {"freq", "nic", "temp", "fan"}
  /\ probes \in 1 .. 4

LEMMA LayoutStays == Layout!Spec => []LayoutInv
<1>1. Layout!Init => LayoutInv
  BY ProgramsAssumption DEF Layout!Init, LayoutInv, Layout!SCREEN_SUMMARY, Layout!NUM_PROBES
<1>2. LayoutInv /\ [Layout!Next]_Layout!lvars => LayoutInv'
  <2> SUFFICES ASSUME LayoutInv, [Layout!Next]_Layout!lvars PROVE LayoutInv'
    OBVIOUS
  <2>1. CASE Layout!ChangeView
    BY <2>1 DEF LayoutInv, Layout!ChangeView, Layout!SCREEN_SUMMARY,
                Layout!SCREEN_CPU, Layout!SCREEN_FREQ
  <2>2. CASE Layout!ChangeCores
    <3>1. ncpu' \in 1 .. MaxCpu
      BY <2>2 DEF Layout!ChangeCores
    <3>2. ncpu' \in Nat /\ ncpu' >= 1
      BY <3>1, ProgramsAssumption
    <3> QED
      BY <2>2, <3>2 DEF LayoutInv, Layout!ChangeCores
  <2>3. CASE Layout!ChangeSensors
    BY <2>3 DEF LayoutInv, Layout!ChangeSensors, Layout!NUM_PROBES
  <2>4. CASE UNCHANGED Layout!lvars
    BY <2>4 DEF LayoutInv, Layout!lvars
  <2> QED
    BY <2>1, <2>2, <2>3, <2>4 DEF Layout!Next
<1> QED
  BY <1>1, <1>2, PTL DEF Layout!Spec

(* The numbers that draw_cpu_screen_multicore is written with. *)
LEMMA GroupIs ==
  ASSUME LayoutInv
  PROVE  /\ Layout!SpacerOf \in {0, 1} /\ Layout!MoveDown \in {0, 1}
         /\ view = 2 => /\ Layout!GroupHeight = 36 /\ Layout!MoveDown = 0
                        /\ Layout!SpacerOf = 1 => ncpu <= 11
         /\ view = 1 => /\ Layout!GroupHeight = 12 /\ Layout!MoveDown = 0
                        /\ Layout!ShiftOf = 12
                        /\ Layout!SpacerOf = 1 => ncpu <= 4
         /\ view = 0 => /\ Layout!GroupHeight \in {6, 8} /\ Layout!SpacerOf = 0
                        /\ Layout!ShiftOf = Layout!GroupHeight + 1
                        /\ ~Layout!Rows5 => Layout!GroupHeight = 8
                        /\ Layout!Rows5 /\ Layout!GroupHeight = 8 => Layout!MoveDown = 0
BY DEF LayoutInv, Layout!SpacerOf, Layout!MoveDown, Layout!GroupHeight, Layout!ShiftOf,
       Layout!Rows5, Layout!SCREEN_SUMMARY, Layout!SCREEN_CPU, Layout!SCREEN_FREQ

LEMMA DivFits ==
  ASSUME NEW a \in Int, NEW n \in Nat, n >= 1
  PROVE  a \div n \in Int /\ n * (a \div n) <= a
OBVIOUS

LEMMA TimesGrows ==
  ASSUME NEW a \in Nat, NEW b \in Nat, NEW k \in Nat, a <= b
  PROVE  a * k \in Nat /\ a * k <= b * k
OBVIOUS

n_drawn == Layout!Cardinality(Layout!Drawn)

LEMMA DrawnIs ==
  ASSUME LayoutInv
  PROVE  /\ Layout!Drawn = 1 .. n_drawn /\ n_drawn \in Nat /\ n_drawn >= 1
         /\ n_drawn <= ncpu /\ n_drawn <= Layout!GroupHeight
<1> DEFINE n == IF ncpu < Layout!GroupHeight THEN ncpu ELSE Layout!GroupHeight
<1>1. n \in Nat /\ n >= 1 /\ n <= ncpu /\ n <= Layout!GroupHeight
  BY GroupIs DEF LayoutInv
<1>2. Layout!Drawn = 1 .. n
  BY DEF Layout!Drawn
<1> HIDE DEF n
<1>3. n_drawn = Cardinality(1 .. n)
  BY <1>2 DEF n_drawn, Layout!Cardinality, Cardinality
<1>4. Cardinality(1 .. n) = n
  BY <1>1, FS_Interval
<1> QED
  BY <1>1, <1>2, <1>3, <1>4

(* The bars of the cores and the gaps between them fit into their group. *)
LEMMA CoresFit ==
  ASSUME LayoutInv
  PROVE  /\ Layout!CoreHeight \in Nat /\ Layout!CoreHeight >= 1
         /\ n_drawn * Layout!CoreHeight + (n_drawn - 1) * Layout!SpacerOf
              <= Layout!GroupHeight
<1> DEFINE n == n_drawn
           s == Layout!SpacerOf
           g == Layout!GroupHeight
           q == (g - (n - 1) * s) \div n
<1>1. n \in Nat /\ n >= 1 /\ n <= g /\ n <= ncpu
  BY DrawnIs
<1>2. s \in {0, 1} /\ g \in {36, 12, 6, 8} /\ (s = 1 => n + (n - 1) <= g)
  BY <1>1, GroupIs DEF LayoutInv
<1>3. (n - 1) * s \in Nat /\ n + (n - 1) * s <= g
  BY <1>1, <1>2
<1>4. Layout!CoreHeight = IF q < 1 THEN 1 ELSE q
  BY DEF Layout!CoreHeight, n_drawn
<1> HIDE DEF n, s, g
<1>5. q \in Int /\ n * q <= g - (n - 1) * s
  BY <1>1, <1>2, <1>3, DivFits
<1> HIDE DEF q
<1>6. CASE q < 1
  BY <1>1, <1>2, <1>3, <1>4, <1>6 DEF n, s, g
<1>7. CASE ~(q < 1)
  BY <1>1, <1>2, <1>3, <1>4, <1>5, <1>7 DEF n, s, g
<1> QED
  BY <1>6, <1>7

(* The rows of a bar are those of its group, and the bars of a group       *)
(* follow one another.                                                     *)
LEMMA CoreBarIs ==
  ASSUME LayoutInv, NEW from \in Nat, NEW c \in Layout!Drawn
  PROVE  LET b == Layout!CoreBar(c, from)
             low == from + Layout!MoveDown
         IN /\ b[1] \in Nat /\ b[2] \in Nat
            /\ low <= b[1] /\ b[1] <= b[2]
            /\ b[2] <= low + Layout!GroupHeight - 1
            /\ \A d \in Layout!Drawn : c < d => b[2] < Layout!CoreBar(d, from)[1]
<1> DEFINE n == n_drawn
           s == Layout!SpacerOf
           g == Layout!GroupHeight
           h == Layout!CoreHeight
           m == Layout!MoveDown
           row(d) == (d - 1) * (h + s)
<1>1. /\ n \in Nat /\ n >= 1 /\ Layout!Drawn = 1 .. n
      /\ s \in Nat /\ m \in Nat /\ g \in Nat
      /\ h \in Nat /\ h >= 1 /\ n * h + (n - 1) * s <= g
  BY DrawnIs, GroupIs, CoresFit DEF LayoutInv
<1>2. \A d : Layout!CoreBar(d, from) = <<from + row(d) + m, from + row(d) + h - 1 + m>>
  BY DEF Layout!CoreBar
<1> HIDE DEF n, s, g, h, m
<1>3. c \in Nat /\ c >= 1 /\ c <= n /\ h + s \in Nat
  BY <1>1
<1>4. row(c) \in Nat /\ row(c) <= (n - 1) * (h + s)
  BY <1>1, <1>3, TimesGrows
<1>5. (n - 1) * (h + s) + h <= g
  <2>1. (n - 1) * (h + s) = (n - 1) * h + (n - 1) * s
    BY <1>1
  <2>2. (n - 1) * h + h = n * h
    BY <1>1
  <2> QED
    BY <1>1, <2>1, <2>2
<1>6. ASSUME NEW d \in Layout!Drawn, c < d PROVE row(d) \in Nat /\ row(c) + h <= row(d)
  <2>1. d \in Nat /\ d >= 1 /\ c <= d - 1
    BY <1>1, <1>3, <1>6
  <2>2. c * (h + s) \in Nat /\ c * (h + s) <= (d - 1) * (h + s)
    BY <1>3, <2>1, TimesGrows
  <2>3. c * (h + s) = row(c) + (h + s)
    BY <1>1, <1>3
  <2>4. row(d) \in Nat
    BY <1>1, <2>1
  <2> HIDE DEF row
  <2> QED
    BY <1>1, <1>4, <2>2, <2>3, <2>4 DEF row
<1> HIDE DEF row
<1>7. /\ h \in Nat /\ h >= 1 /\ m \in Nat /\ g \in Nat
      /\ row(c) + h <= g
  <2> DEFINE last == (n - 1) * (h + s)
  <2>1. last \in Nat /\ last + h <= g /\ row(c) <= last
    BY <1>1, <1>3, <1>4, <1>5
  <2> HIDE DEF last
  <2>2. h \in Nat /\ h >= 1 /\ m \in Nat /\ g \in Nat
    BY <1>1
  <2> QED
    BY <1>4, <2>1, <2>2
<1> DEFINE b == Layout!CoreBar(c, from)
<1>8. b[1] = from + row(c) + m /\ b[2] = from + row(c) + h - 1 + m
  BY <1>2
<1>9. ASSUME NEW d \in Layout!Drawn, c < d
      PROVE  b[2] < Layout!CoreBar(d, from)[1]
  <2>1. Layout!CoreBar(d, from)[1] = from + row(d) + m
    BY <1>2
  <2> HIDE DEF b
  <2> QED
    BY <1>4, <1>6, <1>7, <1>8, <1>9, <2>1
<1> HIDE DEF b
<1>10. /\ b[1] \in Nat /\ b[2] \in Nat
       /\ from + m <= b[1] /\ b[1] <= b[2]
       /\ b[2] <= from + m + g - 1
  BY <1>4, <1>7, <1>8
<1> QED
  BY <1>9, <1>10 DEF b, m, g

LEMMA LastRowIs ==
  ASSUME LayoutInv
  PROVE  Layout!LastRow \in Nat /\ Layout!LastRow <= Layout!GroupHeight - 1
<1>1. n_drawn \in Layout!Drawn /\ Layout!MoveDown \in Nat /\ Layout!GroupHeight \in Nat
  BY DrawnIs, GroupIs DEF LayoutInv
<1>2. LET b == Layout!CoreBar(n_drawn, 0)
      IN /\ b[1] \in Nat /\ b[2] \in Nat
         /\ 0 + Layout!MoveDown <= b[1] /\ b[1] <= b[2]
         /\ b[2] <= 0 + Layout!MoveDown + Layout!GroupHeight - 1
  BY <1>1, CoreBarIs
<1>3. Layout!LastRow = Layout!CoreBar(n_drawn, 0)[2] - Layout!MoveDown
  BY DEF Layout!LastRow, n_drawn
<1> QED
  BY <1>1, <1>2, <1>3

(* Groups that begin far enough from each other, and end soon enough. *)
LEMMA GroupsFit ==
  ASSUME LayoutInv, NEW Froms \in SUBSET Nat,
         \A f \in Froms : f + Layout!MoveDown + Layout!GroupHeight <= 37,
         \A f, k \in Froms : f < k => f + Layout!GroupHeight <= k
  PROVE  LET bars == {Layout!CoreBar(c, f) : c \in Layout!Drawn, f \in Froms}
         IN Layout!Apart(bars) /\ Layout!Fits(bars)
<1> DEFINE bars == {Layout!CoreBar(c, f) : c \in Layout!Drawn, f \in Froms}
           g == Layout!GroupHeight
           m == Layout!MoveDown
<1>1. /\ m \in Nat /\ g \in Nat /\ g >= 1
      /\ Layout!Drawn \in SUBSET Int
  BY DrawnIs, GroupIs DEF LayoutInv
<1>2. ASSUME NEW c \in Layout!Drawn, NEW f \in Froms
      PROVE  /\ Layout!CoreBar(c, f)[1] \in Nat /\ Layout!CoreBar(c, f)[2] \in Nat
             /\ f + m <= Layout!CoreBar(c, f)[1]
             /\ Layout!CoreBar(c, f)[1] <= Layout!CoreBar(c, f)[2]
             /\ Layout!CoreBar(c, f)[2] <= f + m + g - 1
             /\ \A d \in Layout!Drawn :
                  c < d => Layout!CoreBar(c, f)[2] < Layout!CoreBar(d, f)[1]
  BY CoreBarIs
<1> HIDE DEF g, m
<1>3. Layout!Fits(bars)
  <2> SUFFICES ASSUME NEW c \in Layout!Drawn, NEW f \in Froms
               PROVE  /\ 0 <= Layout!CoreBar(c, f)[1]
                      /\ Layout!CoreBar(c, f)[1] <= Layout!CoreBar(c, f)[2]
                      /\ Layout!CoreBar(c, f)[2] < 37
    BY DEF Layout!Fits, Layout!INFO_ROW
  <2>1. f \in Nat /\ f + m + g <= 37
    BY DEF g, m
  <2> QED
    BY <1>1, <1>2, <2>1
<1>4. Layout!Apart(bars)
  <2> SUFFICES ASSUME NEW c \in Layout!Drawn, NEW f \in Froms,
                      NEW d \in Layout!Drawn, NEW k \in Froms
               PROVE  \/ Layout!CoreBar(c, f) = Layout!CoreBar(d, k)
                      \/ Layout!CoreBar(c, f)[2] < Layout!CoreBar(d, k)[1]
                      \/ Layout!CoreBar(d, k)[2] < Layout!CoreBar(c, f)[1]
    BY DEF Layout!Apart
  <2>1. f \in Nat /\ k \in Nat /\ c \in Int /\ d \in Int
    BY <1>1
  <2>2. CASE f < k
    <3>1. f + g <= k
      BY <2>2 DEF g
    <3> QED
      BY <1>1, <1>2, <2>1, <3>1
  <2>3. CASE k < f
    <3>1. k + g <= f
      BY <2>3 DEF g
    <3> QED
      BY <1>1, <1>2, <2>1, <3>1
  <2>4. CASE f = k
    <3>1. c < d \/ d < c \/ c = d
      BY <2>1
    <3> QED
      BY <1>2, <2>4, <3>1
  <2> QED
    BY <2>1, <2>2, <2>3, <2>4
<1> QED
  BY <1>3, <1>4

LEMMA CoreBarsFit ==
  ASSUME LayoutInv, ~Layout!Stacked
  PROVE  /\ Layout!Apart(Layout!CoreBars) /\ Layout!Fits(Layout!CoreBars)
         /\ view = 0 => \A b \in Layout!CoreBars :
              /\ b[1] \in Nat /\ b[2] \in Nat
              /\ b[2] < Layout!FirstId * Layout!ShiftOf + Layout!MoveDown
<1> DEFINE Rows(F) == {Layout!CoreBar(c, f) : c \in Layout!Drawn, f \in F}
           two == {0, Layout!ShiftOf}
<1>1. CASE view = 2
  <2>1. Layout!CoreBars = Rows({0})
    BY <1>1 DEF Layout!CoreBars, Layout!Groups, Layout!Together, Layout!Stacked,
                Layout!SCREEN_FREQ, Layout!SCREEN_CPU
  <2>2. Layout!Apart(Rows({0})) /\ Layout!Fits(Rows({0}))
    <3> DEFINE F == {0}
    <3>1. Layout!GroupHeight = 36 /\ Layout!MoveDown = 0
      BY <1>1, GroupIs
    <3>2. F \in SUBSET Nat
      OBVIOUS
    <3>3. \A f \in F : f + Layout!MoveDown + Layout!GroupHeight <= 37
      BY <3>1
    <3>4. \A f, k \in F : f < k => f + Layout!GroupHeight <= k
      OBVIOUS
    <3>5. Layout!Apart(Rows(F)) /\ Layout!Fits(Rows(F))
      <4> HIDE DEF F
      <4> QED
        BY <3>2, <3>3, <3>4, GroupsFit
    <3> QED
      BY <3>5
  <2> HIDE DEF Rows
  <2> QED
    BY <1>1, <2>1, <2>2
<1>2. CASE view = 1 /\ ~Layout!Together
  <2>1. Layout!ShiftOf = 12 /\ Layout!GroupHeight = 12 /\ Layout!MoveDown = 0
    BY <1>2, GroupIs
  <2>2. Layout!CoreBars = Rows({0, 12, 24})
    BY <1>2, <2>1 DEF Layout!CoreBars, Layout!Groups, Layout!Kinds,
                      Layout!SCREEN_FREQ, Layout!SCREEN_CPU
  <2>3. Layout!Apart(Rows({0, 12, 24})) /\ Layout!Fits(Rows({0, 12, 24}))
    <3> DEFINE F == {0, 12, 24}
    <3>2. F \in SUBSET Nat
      OBVIOUS
    <3>3. \A f \in F : f + Layout!MoveDown + Layout!GroupHeight <= 37
      BY <2>1
    <3>4. \A f, k \in F : f < k => f + Layout!GroupHeight <= k
      BY <2>1
    <3>5. Layout!Apart(Rows(F)) /\ Layout!Fits(Rows(F))
      <4> HIDE DEF F
      <4> QED
        BY <3>2, <3>3, <3>4, GroupsFit
    <3> QED
      BY <3>5
  <2> QED
    BY <1>2, <2>2, <2>3
<1>3. CASE view = 0
  <2> DEFINE F == IF "freq" \in shows THEN two ELSE {0}
  <2>1. /\ Layout!GroupHeight \in {6, 8} /\ Layout!MoveDown \in {0, 1}
        /\ Layout!ShiftOf = Layout!GroupHeight + 1
    BY <1>3, GroupIs
  <2>2. Layout!CoreBars = Rows(F)
    BY <1>3 DEF Layout!CoreBars, Layout!Groups, Layout!Together, Layout!Stacked,
                Layout!SCREEN_FREQ, Layout!SCREEN_CPU
  <2>3. Layout!Apart(Rows(F)) /\ Layout!Fits(Rows(F))
    <3>1. F \in SUBSET Nat
      BY <2>1
    <3>2. \A f \in F : f + Layout!MoveDown + Layout!GroupHeight <= 37
      BY <2>1
    <3>3. \A f, k \in F : f < k => f + Layout!GroupHeight <= k
      BY <2>1
    <3> HIDE DEF F
    <3> QED
      BY <3>1, <3>2, <3>3, GroupsFit
  <2>4. ASSUME NEW c \in Layout!Drawn, NEW f \in F
        PROVE  /\ Layout!CoreBar(c, f)[1] \in Nat /\ Layout!CoreBar(c, f)[2] \in Nat
               /\ Layout!CoreBar(c, f)[2]
                    < Layout!FirstId * Layout!ShiftOf + Layout!MoveDown
    <3>1. f \in Nat
      BY <2>1
    <3>2. /\ f + Layout!GroupHeight < Layout!FirstId * Layout!ShiftOf + 1
          /\ Layout!FirstId * Layout!ShiftOf \in Nat
      BY <2>1 DEF Layout!FirstId
    <3>3. /\ Layout!CoreBar(c, f)[1] \in Nat /\ Layout!CoreBar(c, f)[2] \in Nat
          /\ Layout!CoreBar(c, f)[2] <= f + Layout!MoveDown + Layout!GroupHeight - 1
      BY <3>1, CoreBarIs
    <3> QED
      BY <2>1, <3>1, <3>2, <3>3
  <2> HIDE DEF F
  <2> QED
    BY <2>2, <2>3, <2>4
<1>4. CASE view = 1 /\ Layout!Together
  <2>1. Layout!CoreBars = {<<1, 10>>, <<12, 21>>, <<23, 32>>}
    BY <1>4 DEF Layout!CoreBars, Layout!BAR_BOTTOM
  <2> QED
    BY <1>4, <2>1 DEF Layout!Apart, Layout!Fits, Layout!INFO_ROW
<1> QED
  BY <1>1, <1>2, <1>3, <1>4 DEF LayoutInv

(* The bars that are stacked: nine rows are divided among the cores.       *)
LEMMA StackedFit ==
  ASSUME LayoutInv, Layout!Stacked
  PROVE  /\ Layout!Meet(Layout!CoreBars) /\ Layout!Fits(Layout!CoreBars)
         /\ \A c, d \in Layout!Drawn, from, to \in Layout!Kinds :
              from < to => Layout!StackedBar(c, from)[2] < Layout!StackedBar(d, to)[1]
<1> DEFINE q == Layout!divider
           row(c) == (c - 1) * q
           end(c) == c * q
           Bar(c, f) == Layout!StackedBar(c, f)
           D == Layout!Drawn
           K == {0, 12, 24}
<1>1. /\ q \in Nat /\ ncpu * q <= 9 /\ ncpu \in Nat /\ ncpu >= 1
  <2>1. ncpu \in Nat /\ ncpu >= 1
    BY DEF LayoutInv
  <2>2. 9 \div ncpu \in Nat /\ ncpu * (9 \div ncpu) <= 9
    BY <2>1, DivFits
  <2> QED
    BY <2>1, <2>2 DEF Layout!divider
<1>2. D \in SUBSET Nat /\ \A c \in D : 1 <= c /\ c <= ncpu
  BY DrawnIs, <1>1
<1>3. Layout!Kinds = K
  BY GroupIs DEF Layout!Stacked, Layout!Together, Layout!Kinds, Layout!SCREEN_CPU
<1>4. Layout!CoreBars = {Bar(c, f) : c \in D, f \in K}
  BY <1>3 DEF Layout!CoreBars, Layout!Stacked, Layout!SCREEN_CPU
<1>5. \A c, f : Bar(c, f) = <<f + row(c), f + end(c)>>
  BY DEF Layout!StackedBar
<1> HIDE DEF q, Bar, D
<1>6. ASSUME NEW c \in D
      PROVE  row(c) \in Nat /\ end(c) \in Nat /\ row(c) <= end(c) /\ end(c) <= 9
  <2>1. c \in Nat /\ c - 1 \in Nat /\ c - 1 <= c /\ c <= ncpu
    BY <1>2
  <2>2. row(c) \in Nat /\ row(c) <= end(c) /\ end(c) \in Nat /\ end(c) <= ncpu * q
    BY <1>1, <2>1, TimesGrows
  <2>3. ncpu * q \in Int
    BY <1>1
  <2> HIDE DEF row, end
  <2> QED
    BY <1>1, <2>2, <2>3
<1>7. ASSUME NEW c \in D, NEW d \in D, c < d PROVE end(c) <= row(d)
  <2>1. c \in Nat /\ d - 1 \in Nat /\ c <= d - 1
    BY <1>2, <1>7
  <2> QED
    BY <1>1, <2>1, TimesGrows
<1> HIDE DEF row, end
<1>8. \A c \in D, f \in K : Bar(c, f)[1] = f + row(c) /\ Bar(c, f)[2] = f + end(c)
  BY <1>5
<1>9. \A c, d \in D, f, k \in K : f < k => Bar(c, f)[2] < Bar(d, k)[1]
  <2> SUFFICES ASSUME NEW c \in D, NEW d \in D, NEW f \in K, NEW k \in K, f < k
               PROVE  Bar(c, f)[2] < Bar(d, k)[1]
    OBVIOUS
  <2>1. Bar(c, f)[2] = f + end(c) /\ Bar(d, k)[1] = k + row(d)
    BY <1>8
  <2>2. end(c) \in Nat /\ end(c) <= 9 /\ row(d) \in Nat
    BY <1>6
  <2> QED
    BY <2>1, <2>2
<1>10. Layout!Fits(Layout!CoreBars)
  <2> SUFFICES ASSUME NEW c \in D, NEW f \in K
               PROVE  /\ 0 <= Bar(c, f)[1] /\ Bar(c, f)[1] <= Bar(c, f)[2]
                      /\ Bar(c, f)[2] < 37
    BY <1>4 DEF Layout!Fits, Layout!INFO_ROW
  <2>1. Bar(c, f)[1] = f + row(c) /\ Bar(c, f)[2] = f + end(c)
    BY <1>8
  <2> QED
    BY <1>6, <2>1
<1>11. Layout!Meet(Layout!CoreBars)
  <2> SUFFICES ASSUME NEW c \in D, NEW f \in K, NEW d \in D, NEW k \in K
               PROVE  \/ Bar(c, f) = Bar(d, k)
                      \/ Bar(c, f)[2] <= Bar(d, k)[1]
                      \/ Bar(d, k)[2] <= Bar(c, f)[1]
    BY <1>4 DEF Layout!Meet
  <2>1. /\ Bar(c, f)[1] = f + row(c) /\ Bar(c, f)[2] = f + end(c)
        /\ Bar(d, k)[1] = k + row(d) /\ Bar(d, k)[2] = k + end(d)
    BY <1>8
  <2>2. /\ row(c) \in Nat /\ end(c) \in Nat /\ row(d) \in Nat /\ end(d) \in Nat
        /\ end(c) <= 9 /\ end(d) <= 9
    BY <1>6
  <2>3. CASE f # k
    BY <2>1, <2>2, <2>3
  <2>4. CASE f = k /\ c < d
    BY <1>7, <2>1, <2>2, <2>4
  <2>5. CASE f = k /\ d < c
    BY <1>7, <2>1, <2>2, <2>5
  <2>6. c < d \/ d < c \/ c = d
    BY <1>2
  <2> QED
    BY <2>3, <2>4, <2>5, <2>6
<1> QED
  BY <1>3, <1>9, <1>10, <1>11 DEF D, Bar

(* There are no more indicators than rows left for them. *)
LEMMA IndicatorsFit ==
  ASSUME LayoutInv
  PROVE  /\ Len(Layout!Indicators) \in Nat
         /\ Len(Layout!Indicators) <= Layout!summary_rows - Layout!FirstId
<1> DEFINE always == <<"mem">> \o IF "nic" \in shows THEN <<"nic">> ELSE <<>>
           temp == IF "temp" \in shows THEN <<"temp">> ELSE <<>>
           fan == IF "fan" \in shows THEN <<"fan">> ELSE <<>>
           more == temp \o fan \o <<"swap">>
           room == Layout!summary_rows - Layout!FirstId - Len(always)
           last == IF room < Len(more) THEN room ELSE Len(more)
<1> DEFINE Word == {"mem", "nic", "temp", "fan", "swap"}
<1>1. always \in Seq(Word) /\ Len(always) \in {1, 2}
  <2>1. CASE "nic" \in shows
    <3>1. always = <<"mem">> \o <<"nic">>
      BY <2>1
    <3>2. <<"mem">> \in Seq(Word) /\ <<"nic">> \in Seq(Word)
      OBVIOUS
    <3>3. Len(<<"mem">>) = 1 /\ Len(<<"nic">>) = 1
      OBVIOUS
    <3> HIDE DEF Word
    <3>4. \A t, u \in Seq(Word) : t \o u \in Seq(Word) /\ Len(t \o u) = Len(t) + Len(u)
      OBVIOUS
    <3> HIDE DEF always
    <3> QED
      BY <3>1, <3>2, <3>3, <3>4
  <2>2. CASE "nic" \notin shows
    <3>1. always = <<"mem">>
      BY <2>2
    <3> QED
      BY <3>1
  <2> QED
    BY <2>1, <2>2
<1>2. temp \in Seq(Word) /\ fan \in Seq(Word) /\ <<"swap">> \in Seq(Word)
  <2>1. <<"temp">> \in Seq(Word) /\ <<"fan">> \in Seq(Word) /\ <<"swap">> \in Seq(Word)
    OBVIOUS
  <2>2. <<>> \in Seq(Word)
    OBVIOUS
  <2> QED
    BY <2>1, <2>2
<1> HIDE DEF always, temp, fan, Word
<1>3. more \in Seq(Word) /\ Len(more) \in Nat
  <2>1. temp \o fan \in Seq(Word)
    BY <1>2
  <2>2. more \in Seq(Word)
    BY <1>2, <2>1
  <2> QED
    BY <2>2
<1> HIDE DEF more
<1>4. room \in Nat
  <2>1. Layout!summary_rows \in {4, 5} /\ Layout!FirstId \in {1, 2}
    BY DEF Layout!summary_rows, Layout!FirstId
  <2>2. \A r \in {4, 5}, f \in {1, 2}, k \in {1, 2} : r - f - k \in Nat
    OBVIOUS
  <2> QED
    BY <1>1, <2>1, <2>2
<1> HIDE DEF room
<1>5. last \in Nat /\ last <= room /\ last <= Len(more)
  BY <1>3, <1>4
<1> HIDE DEF last
<1>6. SubSeq(more, 1, last) \in Seq(Word) /\ Len(SubSeq(more, 1, last)) = last
  BY <1>3, <1>5
<1>7. Len(always \o SubSeq(more, 1, last)) = Len(always) + last
  BY <1>1, <1>6
<1>8. Layout!Indicators = always \o SubSeq(more, 1, last)
  BY DEF Layout!Indicators, always, temp, fan, more, room, last
<1>9. Layout!summary_rows - Layout!FirstId \in Nat
  BY DEF Layout!summary_rows, Layout!FirstId
<1> QED
  BY <1>1, <1>4, <1>5, <1>7, <1>8, <1>9 DEF room

LEMMA IndicatorBarIs ==
  ASSUME LayoutInv, view = 0, NEW i \in 1 .. Len(Layout!Indicators)
  PROVE  LET b == Layout!IndicatorBar(i)
         IN /\ b[1] \in Nat /\ b[2] \in Nat
            /\ Layout!FirstId * Layout!ShiftOf + Layout!MoveDown <= b[1]
            /\ b[1] <= b[2] /\ b[2] < 37
            /\ \A j \in 1 .. Len(Layout!Indicators) :
                 i < j => b[2] < Layout!IndicatorBar(j)[1]
<1> DEFINE shift == Layout!ShiftOf
           first == Layout!FirstId
           step == Layout!Step
           below == Layout!Below
           m == Layout!MoveDown
           upper(j) == first * shift + (j - 1) * step + m
           len == Len(Layout!Indicators)
<1>1. /\ Layout!GroupHeight \in {6, 8} /\ shift = Layout!GroupHeight + 1
      /\ m \in {0, 1}
      /\ ~Layout!Rows5 => Layout!GroupHeight = 8
      /\ Layout!Rows5 /\ Layout!GroupHeight = 8 => m = 0
  BY GroupIs
<1>2. /\ Layout!LastRow \in Nat /\ Layout!LastRow <= Layout!GroupHeight - 1
  BY LastRowIs
<1>3. len \in Nat /\ len <= (IF Layout!Rows5 THEN 5 ELSE 4) - first /\ first \in {1, 2}
  BY IndicatorsFit DEF Layout!summary_rows, Layout!FirstId
<1>4. \/ /\ Layout!Rows5 /\ shift = 9 /\ m = 0
         /\ \/ first = 2 /\ below = 4 /\ step = 6
            \/ first = 1 /\ below = 5 /\ step = 7
      \/ /\ Layout!Rows5 /\ shift = 7 /\ below \in 0 .. 5 /\ step = 7
      \/ /\ ~Layout!Rows5 /\ shift = 9 /\ below \in 0 .. 7 /\ step = 9
  BY <1>1, <1>2, <1>3 DEF Layout!Below, Layout!Step, Layout!Tight
<1>5. \A j : Layout!IndicatorBar(j) = <<upper(j), upper(j) + below>>
  BY DEF Layout!IndicatorBar
<1> HIDE DEF shift, first, step, below, m, len
<1>6. i \in {1, 2, 3, 4} /\ i <= len
  BY <1>3 DEF len
<1>7. ASSUME NEW j \in 1 .. len, i < j PROVE upper(i) + below < upper(j)
  <2>1. j \in {2, 3, 4}
    BY <1>3, <1>6, <1>7
  <2> QED
    <3>1. step \in {6, 7, 9} /\ below \in Nat /\ below < step
      BY <1>4
    <3>2. (i - 1) * step + step <= (j - 1) * step
      BY <1>6, <1>7, <2>1, <3>1
    <3>3. (i - 1) * step \in Nat /\ (j - 1) * step \in Nat
      BY <1>6, <2>1, <3>1
    <3> DEFINE base == first * shift
               x == (i - 1) * step
               y == (j - 1) * step
    <3>4. upper(i) = base + x + m /\ upper(j) = base + y + m
      OBVIOUS
    <3>5. base \in Nat /\ m \in Nat
      BY <1>1, <1>3, <1>4
    <3> HIDE DEF base, x, y, upper
    <3> QED
      BY <3>1, <3>2, <3>3, <3>4, <3>5 DEF x, y
<1>8. /\ upper(i) \in Nat /\ below \in Nat /\ upper(i) + below < 37
      /\ first * shift + m <= upper(i)
  <2>1. CASE Layout!Rows5 /\ shift = 9 /\ m = 0 /\ first = 2 /\ below = 4 /\ step = 6
    BY <1>3, <1>6, <2>1
  <2>2. CASE Layout!Rows5 /\ shift = 9 /\ m = 0 /\ first = 1 /\ below = 5 /\ step = 7
    BY <1>3, <1>6, <2>2
  <2>3. CASE Layout!Rows5 /\ shift = 7 /\ below \in 0 .. 5 /\ step = 7
    BY <1>1, <1>3, <1>6, <2>3
  <2>4. CASE ~Layout!Rows5 /\ shift = 9 /\ below \in 0 .. 7 /\ step = 9
    BY <1>1, <1>3, <1>6, <2>4
  <2> QED
    BY <1>4, <2>1, <2>2, <2>3, <2>4
<1> HIDE DEF upper
<1> QED
  BY <1>5, <1>7, <1>8 DEF len, first, shift, m

LEMMA SummaryFits ==
  ASSUME LayoutInv, view = 0
  PROVE  LET bars == Layout!CoreBars \cup Layout!SummaryBars
         IN Layout!Apart(bars) /\ Layout!Fits(bars)
<1> DEFINE low == Layout!FirstId * Layout!ShiftOf + Layout!MoveDown
           Bar(i) == Layout!IndicatorBar(i)
           I == 1 .. Len(Layout!Indicators)
<1>1. /\ Layout!Apart(Layout!CoreBars) /\ Layout!Fits(Layout!CoreBars)
      /\ \A b \in Layout!CoreBars : b[1] \in Nat /\ b[2] \in Nat /\ b[2] < low
  BY CoreBarsFit DEF Layout!Stacked, Layout!SCREEN_CPU
<1>2. ASSUME NEW i \in I
      PROVE  /\ Bar(i)[1] \in Nat /\ Bar(i)[2] \in Nat /\ low <= Bar(i)[1]
             /\ Bar(i)[1] <= Bar(i)[2] /\ Bar(i)[2] < 37
             /\ \A j \in I : i < j => Bar(i)[2] < Bar(j)[1]
  BY IndicatorBarIs
<1>3. Layout!SummaryBars = {Bar(i) : i \in I} /\ I \in SUBSET Int
  BY DEF Layout!SummaryBars
<1>4. low \in Int
  BY GroupIs DEF Layout!FirstId
<1> HIDE DEF low, Bar, I
<1>5. ASSUME NEW i \in I, NEW j \in I
      PROVE  Bar(i) = Bar(j) \/ Bar(i)[2] < Bar(j)[1] \/ Bar(j)[2] < Bar(i)[1]
  <2>1. i < j \/ j < i \/ i = j
    BY <1>3
  <2> QED
    BY <1>2, <2>1
<1>6. ASSUME NEW b \in Layout!CoreBars, NEW i \in I PROVE b[2] < Bar(i)[1]
  BY <1>1, <1>2, <1>4
<1>7. Layout!Apart(Layout!CoreBars \cup Layout!SummaryBars)
  BY <1>1, <1>3, <1>5, <1>6 DEF Layout!Apart
<1>8. Layout!Fits(Layout!CoreBars \cup Layout!SummaryBars)
  <2>1. ASSUME NEW i \in I
        PROVE  0 <= Bar(i)[1] /\ Bar(i)[1] <= Bar(i)[2] /\ Bar(i)[2] < 37
    BY <1>2
  <2> QED
    BY <1>1, <1>3, <2>1 DEF Layout!Fits, Layout!INFO_ROW
<1> QED
  BY <1>7, <1>8

(* The screens of a sensor and of the batteries. *)
LEMMA SensorsFit ==
  ASSUME LayoutInv
  PROVE  Layout!Apart(Layout!SensorBars) /\ Layout!Fits(Layout!SensorBars)
<1> DEFINE shift == CASE probes = 1 -> 33 [] probes = 3 -> 10 [] OTHER -> 32 \div probes
           first(j) == j * shift + 1 + j
           last(j) == (j + 1) * shift + j
           J == 0 .. probes - 1
<1>1. <<probes, shift>> \in {<<1, 33>>, <<2, 16>>, <<3, 10>>, <<4, 8>>}
  <2>1. probes \in {1, 2, 3, 4}
    BY DEF LayoutInv
  <2>2. 32 \div 2 = 16 /\ 32 \div 4 = 8
    OBVIOUS
  <2>3. /\ probes = 1 => shift = 33
        /\ probes = 2 => shift = 32 \div 2
        /\ probes = 3 => shift = 10
        /\ probes = 4 => shift = 32 \div 4
    OBVIOUS
  <2> HIDE DEF shift
  <2> QED
    BY <2>1, <2>2, <2>3
<1>2. Layout!SensorBars = {<<first(j), last(j)>> : j \in J}
  BY DEF Layout!SensorBars, Layout!BAR_BOTTOM
<1> HIDE DEF shift
<1>3. \A j \in J : 0 <= first(j) /\ first(j) <= last(j) /\ last(j) < 37
  BY <1>1
<1>4. \A j, k \in J : j = k \/ last(j) < first(k) \/ last(k) < first(j)
  BY <1>1
<1> HIDE DEF first, last, J
<1> QED
  BY <1>2, <1>3, <1>4 DEF Layout!Apart, Layout!Fits, Layout!INFO_ROW

LEMMA BatteriesFit == Layout!Apart(Layout!BatteryBars) /\ Layout!Fits(Layout!BatteryBars)
<1>1. Layout!BatteryBars = {<<1, 10>>, <<12, 21>>, <<23, 32>>}
  BY DEF Layout!BatteryBars, Layout!NUM_BATS
<1> QED
  BY <1>1 DEF Layout!Apart, Layout!Fits, Layout!INFO_ROW

(* For any number of cores, on every screen: the bars drawn lie apart from *)
(* each other and end above the bottom row, but for the second variant of  *)
(* the CPU screen with two cores or more, whose bars share rows as         *)
(* BarsApart says.                                                         *)
THEOREM BarsLieApart == Layout!Spec => [](BarsApart /\ Layout!BarsApart)
<1>1. LayoutInv => Layout!BarsApart
  <2> SUFFICES ASSUME LayoutInv PROVE Layout!BarsApart
    OBVIOUS
  <2> DEFINE bars == Layout!CoreBars \cup IF view = 0 THEN Layout!SummaryBars ELSE {}
  <2>1. Layout!Fits(bars) /\ IF Layout!Stacked THEN Layout!Meet(bars) ELSE Layout!Apart(bars)
    <3>1. CASE view = 0
      BY <3>1, SummaryFits DEF Layout!Stacked, Layout!SCREEN_CPU
    <3>2. CASE view # 0 /\ ~Layout!Stacked
      <4>1. bars = Layout!CoreBars
        BY <3>2
      <4> QED
        BY <3>2, <4>1, CoreBarsFit
    <3>3. CASE Layout!Stacked
      <4>1. bars = Layout!CoreBars
        BY <3>3 DEF Layout!Stacked, Layout!SCREEN_CPU
      <4> QED
        BY <3>3, <4>1, StackedFit
    <3> QED
      BY <3>1, <3>2, <3>3
  <2> QED
    BY <2>1, StackedFit, SensorsFit, BatteriesFit
       DEF Layout!BarsApart, Layout!SCREEN_SUMMARY
<1>2. Layout!BarsApart => BarsApart
  BY DEF BarsApart
<1> QED
  BY LayoutStays, <1>1, <1>2, PTL
===============================================================================
