--------------------------- MODULE BmeServiceProofs ---------------------------
(***************************************************************************)
(* BmeService for any number of sensors, every threshold, every weather    *)
(* and every set of sensors that may fail: the type invariant, what Redis  *)
(* holds over crashes, lost connections and restarts, and that a door that *)
(* stays shut is not reported open.                                        *)
(***************************************************************************)
EXTENDS BmeService, SequenceTheorems, TLAPS

-------------------------------------------------------------------------------
(* The sensors. *)

\* External pressures are numbers.
LEMMA ExtType == TypeOK => ext \in Int /\ last_ext \in Int \cup {None} /\ world.ext \subseteq Int
<1> SUFFICES ASSUME TypeOK PROVE ext \in Int /\ last_ext \in Int \cup {None} /\ world.ext \subseteq Int
  OBVIOUS
<1>1. world \in World /\ ext \in world.ext /\ last_ext \in world.ext \cup {None}
  BY BmeAssumption DEF TypeOK
<1>2. world.ext \subseteq Int
  BY <1>1 DEF World
<1> QED BY <1>1, <1>2

\* The rack's pressure is a number.
LEMMA RackType == TypeOK => \A s \in Sensor : Rack(s) \in Int
<1> SUFFICES ASSUME TypeOK, NEW s \in Sensor PROVE Rack(s) \in Int
  OBVIOUS
<1>1. ext \in Int
  BY ExtType
<1>2. Base \in Int /\ Gain \in Int
  BY BmeAssumption
<1> QED BY <1>1, <1>2 DEF Rack

\* A filled window is a window of numbers.
LEMMA FilledType == \A p \in Int : Filled(p) \in [Slot -> Int]
BY DEF Filled

\* A sensor whose window holds a number is well-typed.
LEMMA FreshType == \A p \in Int : FreshSensor(Filled(p), p) \in SensorData
BY FilledType DEF FreshSensor, SensorData, WINDOW_SIZE

\* A window of numbers has a number as its sum.
LEMMA SumType == \A w \in [Slot -> Int] : Sum(w) \in Int
<1> SUFFICES ASSUME NEW w \in [Slot -> Int] PROVE Sum(w) \in Int
  OBVIOUS
<1>1. w[1] \in Int /\ w[2] \in Int /\ w[3] \in Int /\ w[4] \in Int /\ w[5] \in Int
  BY DEF Slot, WINDOW_SIZE
<1> QED BY <1>1 DEF Sum

\* The moving averages keep the type, and leave strikes and status alone.
LEMMA MovingAverageType ==
    ASSUME NEW s \in SensorData
    PROVE  MovingAverage(s) \in SensorData
<1> DEFINE w == Pushed(s.window, s.pressure)
<1>1. w \in [Slot -> Int]
  BY DEF Pushed, Slot, WINDOW_SIZE, SensorData
<1>2. Sum(w) \in Int
  BY <1>1, SumType
<1>3. [s EXCEPT !.window = w, !.average = Sum(w)] \in SensorData
  BY <1>1, <1>2 DEF SensorData
<1>4. [s EXCEPT !.window = w, !.open_average = Sum(w)] \in SensorData
  BY <1>1, <1>2 DEF SensorData
<1> QED BY <1>3, <1>4 DEF MovingAverage

\* Strikes stay in range.
LEMMA OpenIterType ==
    ASSUME NEW s \in SensorData, NEW t, t = get_open_iter(s)
    PROVE  t \in SensorData
<1>1. s.strikes_closed \in 0..5
  BY DEF SensorData, WINDOW_SIZE
<1>2. CASE IsHigh(s) /\ s.strikes_closed > WINDOW_SIZE - 1
  <2>1. t = [s EXCEPT !.is_open = TRUE]
    BY <1>1, <1>2 DEF get_open_iter, WINDOW_SIZE
  <2> QED BY <2>1 DEF SensorData
<1>3. CASE IsHigh(s) /\ s.strikes_closed <= WINDOW_SIZE - 1
  <2>1. t = [s EXCEPT !.strikes_closed = @ + 1]
    BY <1>1, <1>3 DEF get_open_iter, WINDOW_SIZE
  <2>2. s.strikes_closed + 1 \in 0..WINDOW_SIZE
    BY <1>1, <1>3 DEF WINDOW_SIZE
  <2> QED BY <2>1, <2>2 DEF SensorData
<1>4. CASE ~IsHigh(s) /\ s.strikes_closed < 1
  <2>1. t = [s EXCEPT !.is_open = FALSE, !.open_average = 0]
    BY <1>1, <1>4 DEF get_open_iter, WINDOW_SIZE
  <2> DEFINE r == [s EXCEPT !.is_open = FALSE]
  <2>2. r \in SensorData
    BY DEF SensorData
  <2>3. t = [r EXCEPT !.open_average = 0]
    BY <2>1 DEF SensorData
  <2>4. [r EXCEPT !.open_average = 0] \in SensorData
    <3> HIDE DEF r
    <3> QED BY <2>2 DEF SensorData
  <2> QED BY <2>3, <2>4
<1>5. CASE ~IsHigh(s) /\ s.strikes_closed >= 1
  <2>1. t = [s EXCEPT !.strikes_closed = @ - 1]
    BY <1>1, <1>5 DEF get_open_iter, WINDOW_SIZE
  <2>2. s.strikes_closed - 1 \in 0..WINDOW_SIZE
    BY <1>1, <1>5 DEF WINDOW_SIZE
  <2> QED BY <2>1, <2>2 DEF SensorData
<1> QED BY <1>1, <1>2, <1>3, <1>4, <1>5 DEF WINDOW_SIZE

\* update_open keeps the type (bme.c:80-113).
LEMMA UpdateType ==
    ASSUME NEW s \in SensorData
    PROVE  update_open(s) \in SensorData
<1> DEFINE t == get_open_iter(MovingAverage(s))
<1>1. t \in SensorData
  BY MovingAverageType, OpenIterType
<1>2. Filled(s.pressure) \in [Slot -> Int]
  BY FilledType DEF SensorData
<1>3. (IF t.is_open # s.is_open THEN Filled(s.pressure) ELSE t.window) \in [Slot -> Int]
  BY <1>1, <1>2 DEF SensorData
<1> HIDE DEF t
<1>4. [t EXCEPT !.window = IF t.is_open # s.is_open THEN Filled(s.pressure) ELSE @] \in SensorData
  BY <1>1, <1>3 DEF SensorData
<1> QED BY <1>4 DEF update_open, t

\* Whatever a reading leaves in data.pressure is a number.
LEMMA ReadingType ==
    ASSUME TypeOK
    PROVE  /\ Measured(i) \in [Sensor -> SensorData]
           /\ Spoiled(i) \in [Sensor -> SensorData]
           /\ Disturbed(i) \in [Sensor -> SensorData]
<1>1. sensor \in [Sensor -> SensorData] /\ i \in Sensor
  BY DEF TypeOK
<1>2. sensor[i] \in SensorData /\ sensor[i].pressure \in Int
  BY <1>1 DEF SensorData
<1>3. \A p \in Int : [sensor[i] EXCEPT !.pressure = p] \in SensorData
  BY <1>2 DEF SensorData
<1>4. Rack(i) \in Int /\ Wild \in Int /\ sensor[i].pressure \div 100 \in Int
  <2>1. Rack(i) \in Int
    BY <1>1, RackType
  <2>2. Wild \in Int
    BY BmeAssumption
  <2> QED BY <1>2, <2>1, <2>2
<1>5. \A p \in Int : [sensor EXCEPT ![i].pressure = p] \in [Sensor -> SensorData]
  BY <1>1, <1>3
<1> QED BY <1>4, <1>5 DEF Measured, Spoiled, Disturbed

\* A resumed sensor.
LEMMA RestoredType ==
    ASSUME TypeOK, NEW p \in Int
    PROVE  ReopenedSensor(i, p) \in SensorData /\ ReclosedSensor(i, p) \in SensorData
<1>1. sensor[i] \in SensorData
  BY DEF TypeOK
<1>2. Filled(p) \in [Slot -> Int] /\ Scaled(p) \in Int /\ Scaled(p - 300) \in Int
  BY FilledType DEF Scaled, WINDOW_SIZE
<1>3. ReclosedSensor(i, p) \in SensorData
  BY <1>1, <1>2 DEF ReclosedSensor, SensorData
<1>4. ReopenedSensor(i, p) \in SensorData
  <2> DEFINE r == [sensor[i] EXCEPT !.open_average = Scaled(p), !.average = Scaled(p - 300)]
  <2>1. r \in SensorData
    BY <1>1, <1>2 DEF SensorData
  <2>2. WINDOW_SIZE \in 0..WINDOW_SIZE
    BY DEF WINDOW_SIZE
  <2>3. [r EXCEPT !.strikes_closed = WINDOW_SIZE, !.window = Filled(p)] \in SensorData
    <3> HIDE DEF r
    <3> QED BY <1>2, <2>1, <2>2 DEF SensorData
  <2>4. ReopenedSensor(i, p) = [r EXCEPT !.strikes_closed = WINDOW_SIZE, !.window = Filled(p)]
    BY <1>1 DEF ReopenedSensor, SensorData
  <2> QED BY <2>3, <2>4
<1> QED BY <1>3, <1>4

-------------------------------------------------------------------------------
(* The type invariant. *)

\* A process that ends leaves well-typed variables.
LEMMA ExitType ==
    ASSUME TypeOK, NEW status \in {"killed", "fault", "DB_FAIL", "SENSOR_FAIL"}, Exit(status)
    PROVE  TypeOK'
<1>1. 1 \in Sensor /\ 1 \in Slot
  BY BmeAssumption DEF Sensor, Slot, WINDOW_SIZE
<1>2. FreshSensor(Filled(0), 0) \in SensorData
  BY FreshType
<1>3. sensor' \in [Sensor -> SensorData]
  BY <1>2 DEF Exit
<1>4. 0 \in 0..MAX_RETRIES /\ 0 \in 0..ERROR_THRESHOLD + 1
  BY BmeAssumption
<1>5. past_pres' \in [Sensor -> Int] /\ accepted' \in [Sensor -> Stored]
  BY DEF Exit, Stored
<1>6. /\ exit' = status /\ pc' = "down" /\ i' = 1 /\ j' = 1 /\ c' = FALSE /\ c_remote' = FALSE
      /\ pressure_delta' = 0 /\ retries' = 0 /\ bme_errors' = 0
  BY DEF Exit
<1>7. UNCHANGED <<world, door, ext, broken, opened, db, valid_sensors, last_ext>>
  BY DEF Exit, environment, redis
<1>8. /\ exit' \in {"none", "killed", "fault", "DB_FAIL", "SENSOR_FAIL"}
      /\ pc' \in {"down", "delta", "del", "avg", "first", "resume", "open", "push",
                 "read", "set open", "set avg", "set openavg", "remote"}
  BY <1>6
<1>9. i' \in Sensor /\ j' \in Slot /\ c' \in BOOLEAN /\ c_remote' \in BOOLEAN
  BY <1>1, <1>6
<1>10. pressure_delta' \in Int /\ retries' \in 0..MAX_RETRIES /\ bme_errors' \in 0..ERROR_THRESHOLD + 1
  BY <1>4, <1>6
<1> QED BY <1>3, <1>5, <1>7, <1>8, <1>9, <1>10 DEF TypeOK

\* The initial state is well-typed.
LEMMA InitType == Init => TypeOK
<1> SUFFICES ASSUME Init PROVE TypeOK
  OBVIOUS
<1>1. 1 \in Sensor /\ 1 \in Slot
  BY BmeAssumption DEF Sensor, Slot, WINDOW_SIZE
<1>2. FreshSensor(Filled(0), 0) \in SensorData
  BY FreshType
<1>3. sensor \in [Sensor -> SensorData]
  BY <1>2 DEF Init
<1>4. 0 \in 0..MAX_RETRIES /\ 0 \in 0..ERROR_THRESHOLD + 1
  BY BmeAssumption
<1>10. world \in Worlds /\ 0 \in world.ext
  BY BmeAssumption DEF Init
<1>5. valid_sensors \in Seq(Sensor)
  BY DEF Init
<1>6. db \in [Sensor -> Hash]
  BY DEF Init, Hash, Stored
<1>7. past_pres \in [Sensor -> Int] /\ accepted \in [Sensor -> Stored]
  BY DEF Init, Stored
<1>8. door \in [Sensor -> BOOLEAN] /\ broken \in [Sensor -> BOOLEAN]
  BY DEF Init
<1>9. /\ ext = 0 /\ opened = {} /\ last_ext = None /\ exit = "none" /\ pc = "down" /\ i = 1
      /\ j = 1 /\ c = FALSE /\ c_remote = FALSE /\ pressure_delta = 0 /\ retries = 0
      /\ bme_errors = 0
  BY DEF Init
<1>11. i \in Sensor /\ j \in Slot /\ c \in BOOLEAN /\ c_remote \in BOOLEAN
  BY <1>1, <1>9
<1>12. pressure_delta \in Int /\ retries \in 0..MAX_RETRIES /\ bme_errors \in 0..ERROR_THRESHOLD + 1
  BY <1>4, <1>9
<1>13. ext \in world.ext /\ opened \subseteq Sensor /\ last_ext \in world.ext \cup {None}
  BY <1>9, <1>10
<1> QED BY <1>3, <1>5, <1>6, <1>7, <1>8, <1>9, <1>10, <1>11, <1>12, <1>13 DEF TypeOK

\* A sensor that resumes has a stored average.
Resumable == pc \in {"resume", "open"} => db[i].avg # None

\* The start and the calibration.
LEMMA CalibrationType ==
    ASSUME TypeOK, Resumable,
           Start \/ PressureDelta \/ DelValidSensors \/ HgetAvg \/ FirstReading
             \/ FirstReadingFails \/ ResumeReading \/ Retry \/ HgetOpen \/ Push
    PROVE  TypeOK'
<1> USE DEF environment, redis, connections, counters, readings
<1>1. CASE Start
  <2> PICK g \in Garbage : /\ sensor' = [s \in Sensor |-> FreshSensor(Filled(g), g)]
                           /\ past_pres' = [s \in Sensor |-> g]
    BY <1>1 DEF Start
  <2>1. g \in Int
    BY BmeAssumption
  <2>2. FreshSensor(Filled(g), g) \in SensorData
    BY <2>1, FreshType
  <2>3. sensor' \in [Sensor -> SensorData] /\ past_pres' \in [Sensor -> Int]
    BY <2>1, <2>2
  <2>4. c_remote' \in BOOLEAN
    BY <1>1 DEF Start
  <2> QED BY <1>1, <2>3, <2>4 DEF TypeOK, Start
<1>2. CASE PressureDelta
  <2>2. ext \in Int /\ last_ext \in Int \cup {None}
    BY ExtType
  <2>3. ExternalDrift \in Int
    BY <2>2 DEF ExternalDrift
  <2> QED BY <1>2, <2>3 DEF TypeOK, PressureDelta
<1>3. CASE DelValidSensors
  <2>1. valid_sensors \in Seq(Sensor) /\ <<>> \in Seq(Sensor)
    BY EmptySeq DEF TypeOK
  <2>2. EmptiedList \in Seq(Sensor)
    BY <2>1 DEF EmptiedList
  <2> QED BY <1>3, <2>2 DEF TypeOK, DelValidSensors
<1>4. CASE HgetAvg
  <2>1. db[i].avg \in Int \cup {None} /\ pressure_delta \in Int
    BY DEF TypeOK, Hash, Stored
  <2>2. past_pres' \in [Sensor -> Int]
    BY <1>4, <2>1 DEF TypeOK, HgetAvg
  <2>3. 1 \in Slot
    BY DEF Slot, WINDOW_SIZE
  <2> QED BY <1>4, <2>2, <2>3 DEF TypeOK, HgetAvg
<1>5. CASE FirstReading \/ FirstReadingFails
  <2>2. i \in Sensor /\ j \in Slot /\ Rack(i) \in Int
    BY RackType DEF TypeOK
  <2> NextSlot
    BY <1>5 DEF FirstReading, FirstReadingFails
  <2>1. j' \in Slot /\ pc' \in {"push", "first"}
    BY <2>2 DEF NextSlot, Slot, WINDOW_SIZE
  <2>3. Measured(i)[i].window \in [Slot -> Int] /\ Measured(i)[i] \in SensorData
    BY <2>2, ReadingType DEF SensorData
  <2>4. [Measured(i)[i].window EXCEPT ![j] = Rack(i)] \in [Slot -> Int]
    BY <2>2, <2>3
  <2>5. [Measured(i)[i] EXCEPT !.window = [@ EXCEPT ![j] = Rack(i)]] \in SensorData
    BY <2>3, <2>4 DEF SensorData
  <2>6. [Measured(i) EXCEPT ![i].window[j] = Rack(i)] \in [Sensor -> SensorData]
    BY <2>2, <2>5, ReadingType
  <2>7. sensor' \in [Sensor -> SensorData] /\ past_pres' \in [Sensor -> Int]
    BY <1>5, <2>2, <2>6, ReadingType DEF TypeOK, FirstReading, FirstReadingFails
  <2> QED BY <1>5, <2>1, <2>7 DEF TypeOK, FirstReading, FirstReadingFails
<1>6. CASE ResumeReading
  <2>1. sensor' \in [Sensor -> SensorData]
    BY <1>6, ReadingType DEF ResumeReading
  <2> QED BY <1>6, <2>1 DEF TypeOK, ResumeReading
<1>7. CASE Retry
  <2>1. sensor' \in [Sensor -> SensorData]
    BY <1>7, ReadingType DEF Retry
  <2>2. retries' \in 0..MAX_RETRIES
    <3>1. retries \in 0..MAX_RETRIES /\ MAX_RETRIES \in Nat
      BY BmeAssumption DEF TypeOK
    <3> QED BY <1>7, <3>1 DEF Retry, CountRetry
  <2> QED BY <1>7, <2>1, <2>2 DEF TypeOK, Retry
<1>8. CASE HgetOpen
  <2>1. /\ db[i].avg \in Int \cup {None} /\ db[i].openavg \in Int \cup {None}
        /\ pressure_delta \in Int /\ i \in Sensor
    BY DEF TypeOK, Hash, Stored
  <2>3. \A p \in Int : ReopenedSensor(i, p) \in SensorData /\ ReclosedSensor(i, p) \in SensorData
    BY RestoredType
  <2>4. sensor \in [Sensor -> SensorData]
    BY DEF TypeOK
  <2>2. sensor' \in [Sensor -> SensorData]
    <3>1. CASE sensor' = sensor
      BY <2>4, <3>1
    <3>2. CASE /\ db[i].openavg # None
               /\ sensor' = [sensor EXCEPT ![i] = ReopenedSensor(i, db[i].openavg + pressure_delta)]
      BY <2>1, <2>3, <2>4, <3>2
    <3>3. CASE /\ db[i].avg # None
               /\ sensor' = [sensor EXCEPT ![i] = ReclosedSensor(i, db[i].avg + pressure_delta)]
      BY <2>1, <2>3, <2>4, <3>3
    <3> QED BY <1>8, <3>1, <3>2, <3>3 DEF HgetOpen, Resumable
  <2> QED BY <1>8, <2>2 DEF TypeOK, HgetOpen
<1>9. CASE Push
  <2>1. i \in Sensor /\ sensor[i] \in SensorData
    BY DEF TypeOK
  <2>2. update_open(sensor[i]) \in SensorData
    BY <2>1, UpdateType
  <2>3. sensor' \in [Sensor -> SensorData]
    BY <1>9, <2>2 DEF TypeOK, Push
  <2>4. i' \in Sensor /\ pc' \in {"avg", "read"}
    BY <1>9, <2>1, BmeAssumption DEF Push, Sensor
  <2>5. valid_sensors' \in Seq(Sensor)
    BY <1>9, <2>1, AppendProperties DEF TypeOK, Push
  <2> QED BY <1>9, <2>3, <2>4, <2>5 DEF TypeOK, Push
<1> QED BY <1>1, <1>2, <1>3, <1>4, <1>5, <1>6, <1>7, <1>8, <1>9

\* The main loop.
LEMMA MainLoopType ==
    ASSUME TypeOK, Accept \/ HsetOpen \/ HsetAvg \/ HsetOpenavg \/ Reject \/ RecordExternal
    PROVE  TypeOK'
<1> USE DEF environment, redis, connections, counters, readings
<1>1. CASE Accept
  <2>1. CASE c
    <3>1. i \in Sensor /\ Rack(i) \in Int /\ ERROR_THRESHOLD \in Nat
      BY RackType, BmeAssumption DEF TypeOK
    <3>2. Measured(i)[i] \in SensorData
      BY <3>1, ReadingType
    <3>3. update_open(Measured(i)[i]) \in SensorData
      BY <3>2, UpdateType
    <3>4. sensor' \in [Sensor -> SensorData] /\ accepted' \in [Sensor -> Stored]
      BY <1>1, <2>1, <3>1, <3>3 DEF TypeOK, Accept, Stored
    <3>5. bme_errors' \in 0..ERROR_THRESHOLD + 1
      <4>1. bme_errors' = 0
        BY <1>1, <2>1 DEF Accept
      <4> QED BY <3>1, <4>1
    <3>6. /\ pc' = "set open"
          /\ UNCHANGED <<environment, redis, exit, i, j, connections, pressure_delta, retries, past_pres>>
      BY <1>1, <2>1 DEF Accept
    <3> QED BY <3>4, <3>5, <3>6 DEF TypeOK
  <2>2. CASE ~c
    <3>1. Exit("DB_FAIL")
      BY <1>1, <2>2 DEF Accept
    <3> QED BY <3>1, ExitType
  <2> QED BY <2>1, <2>2
<1>2. CASE HsetOpen \/ HsetAvg \/ HsetOpenavg
  <2>1. i \in Sensor /\ sensor[i] \in SensorData
    BY DEF TypeOK
  <2>2. Printed(sensor[i].average) \in Int /\ Printed(sensor[i].open_average) \in Int
    BY <2>1 DEF SensorData, Printed, WINDOW_SIZE
  <2>3. \A h \in Hash : /\ \A v \in {0, 1} : [h EXCEPT !["open"] = v] \in Hash
                        /\ \A v \in Int : /\ [h EXCEPT !["avg"] = v] \in Hash
                                          /\ [h EXCEPT !["openavg"] = v] \in Hash
    BY DEF Hash, Stored
  <2>4. db \in [Sensor -> Hash] /\ db[i] \in Hash
    BY <2>1 DEF TypeOK
  <2>5. db' \in [Sensor -> Hash]
    <3>1. CASE HsetOpen
      BY <3>1, <2>1, <2>3, <2>4 DEF HsetOpen, Hset
    <3>2. CASE HsetAvg
      BY <3>2, <2>1, <2>2, <2>3, <2>4 DEF HsetAvg, Hset
    <3>3. CASE HsetOpenavg
      BY <3>3, <2>1, <2>2, <2>3, <2>4 DEF HsetOpenavg, Hset
    <3> QED BY <1>2, <3>1, <3>2, <3>3
  <2>6. past_pres' \in [Sensor -> Int]
    <3>1. 1 \in Sensor /\ sensor[i].pressure \in Int
      BY <2>1, BmeAssumption DEF Sensor, SensorData
    <3>2. past_pres' = past_pres \/ past_pres' = [past_pres EXCEPT ![1] = sensor[i].pressure]
      BY <1>2 DEF HsetOpen, HsetAvg, HsetOpenavg
    <3> QED BY <3>1, <3>2 DEF TypeOK
  <2>7. i' \in Sensor
    <3>1. i' = i \/ NextSensor
      BY <1>2 DEF HsetOpen, HsetAvg, HsetOpenavg
    <3>2. N \in Nat \ {0}
      BY BmeAssumption
    <3> QED BY <2>1, <3>1, <3>2 DEF NextSensor, Sensor
  <2>8. pc' \in {"set avg", "set openavg", "read", "remote"}
    BY <1>2 DEF HsetOpen, HsetAvg, HsetOpenavg, NextSensor
  <2> QED BY <1>2, <2>5, <2>6, <2>7, <2>8 DEF TypeOK, HsetOpen, HsetAvg, HsetOpenavg, Hset
<1>3. CASE Reject
  <2>1. sensor' \in [Sensor -> SensorData]
    BY <1>3, ReadingType DEF Reject
  <2>2. i' \in Sensor /\ pc' \in {"read", "remote"}
    <3>1. i \in Sensor /\ N \in Nat \ {0} /\ NextSensor
      BY <1>3, BmeAssumption DEF TypeOK, Reject
    <3> QED BY <3>1 DEF NextSensor, Sensor
  <2>3. bme_errors' \in 0..ERROR_THRESHOLD + 1
    <3>1. bme_errors \in 0..ERROR_THRESHOLD + 1 /\ ERROR_THRESHOLD \in Nat /\ CountError
      BY <1>3, BmeAssumption DEF TypeOK, Reject
    <3> QED BY <3>1 DEF CountError
  <2>4. UNCHANGED <<environment, redis, exit, j, connections, pressure_delta, retries,
                    past_pres, accepted>>
    BY <1>3 DEF Reject
  <2> QED BY <2>1, <2>2, <2>3, <2>4 DEF TypeOK
<1>4. CASE RecordExternal
  BY <1>4 DEF TypeOK, RecordExternal
<1> QED BY <1>1, <1>2, <1>3, <1>4

\* The environment.
LEMMA EnvironmentType ==
    ASSUME TypeOK,
           Crash \/ LoseConnection \/ Drift
             \/ \E s \in Sensor : DoorOpens(s) \/ DoorCloses(s) \/ Break(s)
    PROVE  TypeOK'
<1> USE DEF environment, redis, connections, counters, readings
<1>1. CASE Crash
  <2>1. Exit("killed")
    BY <1>1 DEF Crash
  <2> QED BY <2>1, ExitType
<1>2. CASE LoseConnection
  BY <1>2 DEF TypeOK, LoseConnection
<1>3. CASE Drift
  BY <1>3 DEF TypeOK, Drift
<1>4. ASSUME NEW s \in Sensor, DoorOpens(s) \/ DoorCloses(s) \/ Break(s) PROVE TypeOK'
  <2>1. opened' \subseteq Sensor /\ door' \in [Sensor -> BOOLEAN] /\ broken' \in [Sensor -> BOOLEAN]
    BY <1>4 DEF TypeOK, DoorOpens, DoorCloses, Break
  <2>2. UNCHANGED <<world, ext, redis, exit, pc, i, j, connections, counters, readings>>
    BY <1>4 DEF DoorOpens, DoorCloses, Break
  <2> QED BY <2>1, <2>2 DEF TypeOK
<1> QED BY <1>1, <1>2, <1>3, <1>4

\* A process that ends on its own account.
Ends == TooManyRetries \/ NullReply \/ TooManyErrors

\* The process ending on its own leaves well-typed variables.
LEMMA EndsType == ASSUME TypeOK, Ends PROVE TypeOK'
<1>1. Exit("SENSOR_FAIL") \/ Exit("fault")
  BY DEF Ends, TooManyRetries, NullReply, TooManyErrors
<1> QED BY <1>1, ExitType

-------------------------------------------------------------------------------
\* The type invariant needs to know that only a sensor with a stored average
\* resumes: the average it resumes from is then a number.
TypeInv == TypeOK /\ Resumable

\* HGET avg alone leads to a resumption, and only if it finds an average.
LEMMA ResumableStep == ASSUME TypeInv, [Next]_vars PROVE Resumable'
<1> USE DEF environment, redis, connections, counters, readings
<1>1. CASE HgetAvg
  BY <1>1 DEF HgetAvg, Resumable
<1>2. CASE ResumeReading \/ Retry \/ PressureDelta \/ DelValidSensors
  BY <1>2 DEF TypeInv, Resumable, ResumeReading, Retry, PressureDelta, DelValidSensors
<1>3. CASE Start \/ FirstReading \/ FirstReadingFails \/ HgetOpen \/ Push
  BY <1>3 DEF Resumable, Start, FirstReading, FirstReadingFails, NextSlot, HgetOpen, Push
<1>4. CASE Accept \/ HsetOpen \/ HsetAvg \/ HsetOpenavg \/ Reject \/ RecordExternal
  BY <1>4 DEF Resumable, Accept, Exit, HsetOpen, HsetAvg, HsetOpenavg, Reject, NextSensor,
              RecordExternal
<1>5. CASE Ends \/ Crash
  BY <1>5 DEF Resumable, Exit, Ends, TooManyRetries, NullReply, TooManyErrors, Crash
<1>6. CASE LoseConnection \/ Drift \/ \E s \in Sensor : DoorOpens(s) \/ DoorCloses(s) \/ Break(s)
  BY <1>6 DEF TypeInv, Resumable, LoseConnection, Drift, DoorOpens, DoorCloses, Break
<1>7. CASE UNCHANGED vars
  BY <1>7 DEF vars, TypeInv, Resumable
<1> QED BY <1>1, <1>2, <1>3, <1>4, <1>5, <1>6, <1>7 DEF Next, Service, Environment, Ends

\* Every step keeps the type invariant.
LEMMA TypeStep == ASSUME TypeInv, [Next]_vars PROVE TypeInv'
<1>1. TypeOK'
  <2>1. CASE UNCHANGED vars
    BY <2>1 DEF TypeInv, TypeOK, vars, environment, redis, connections, counters, readings
  <2>2. CASE Environment
    BY <2>2, EnvironmentType DEF Environment, TypeInv
  <2>3. CASE Service
    BY <2>3, CalibrationType, MainLoopType, EndsType DEF Service, Ends, TypeInv
  <2> QED BY <2>1, <2>2, <2>3 DEF Next
<1> QED BY <1>1, ResumableStep DEF TypeInv

\* The type invariant, with its strengthening.
LEMMA TypeInvariant == Spec => []TypeInv
<1>1. Init => TypeInv
  BY InitType DEF Init, TypeInv, Resumable
<1>2. TypeInv /\ [Next]_vars => TypeInv'
  BY TypeStep
<1> QED BY <1>1, <1>2, PTL DEF Spec

\* Every variable keeps its type, whatever the sensors, the weather, the doors,
\* the connections and the crashes do.
THEOREM TypeCorrect == Spec => []TypeOK
<1>1. TypeInv => TypeOK
  BY DEF TypeInv
<1> QED BY <1>1, TypeInvariant, PTL
-------------------------------------------------------------------------------
(* What Redis holds. *)

\* HSET of any field.
Stores == HsetOpen \/ HsetAvg \/ HsetOpenavg

\* Only the three HSET change a hash; where the service stands before HSET avg,
\* it has just been through HSET open.
LEMMA OnlyHsetWrites ==
    ASSUME [Next]_vars, ~Stores
    PROVE  db' = db /\ (pc' = "set avg" => pc = "set avg" /\ i' = i /\ (c' => c))
<1> USE DEF environment, redis, connections, counters, readings
<1>1. CASE Start \/ PressureDelta \/ DelValidSensors \/ HgetAvg \/ FirstReading
             \/ FirstReadingFails \/ ResumeReading
  BY <1>1 DEF Start, PressureDelta, DelValidSensors, HgetAvg, FirstReading,
              FirstReadingFails, NextSlot, ResumeReading
<1>2. CASE HgetOpen \/ Push
  BY <1>2 DEF HgetOpen, Push
<1>3. CASE Retry
  BY <1>3 DEF Retry
<1>4. CASE Accept \/ Reject \/ RecordExternal
  BY <1>4 DEF Accept, Exit, Reject, NextSensor, RecordExternal
<1>5. CASE Ends \/ Crash
  BY <1>5 DEF Exit, Ends, TooManyRetries, NullReply, TooManyErrors, Crash
<1>6. CASE LoseConnection \/ Drift \/ \E s \in Sensor : DoorOpens(s) \/ DoorCloses(s) \/ Break(s)
  <2>1. UNCHANGED <<db, pc, i>>
    BY <1>6 DEF LoseConnection, Drift, DoorOpens, DoorCloses, Break
  <2>2. c' => c
    BY <1>6 DEF LoseConnection, Drift, DoorOpens, DoorCloses, Break
  <2> QED BY <2>1, <2>2
<1>7. CASE UNCHANGED vars
  BY <1>7 DEF vars
<1> QED BY <1>1, <1>2, <1>3, <1>4, <1>5, <1>6, <1>7 DEF Next, Service, Environment, Ends, Stores

\* An average is only stored where a status has been: the second conjunct makes
\* RestorableHash inductive.
RestorableInv ==
    /\ RestorableHash
    /\ pc = "set avg" /\ c => db[i].open # None

\* Every step keeps RestorableInv: HSET open always comes before HSET avg.
LEMMA RestorableStep ==
    ASSUME TypeInv, RestorableInv, [Next]_vars PROVE RestorableInv'
<1>1. i \in Sensor /\ db \in [Sensor -> Hash]
  BY DEF TypeInv, TypeOK
<1>2. CASE HsetOpen
  <2>1. 0 # None /\ 1 # None
    BY BmeAssumption
  <2>2. \E v \in {0, 1} : db' = IF c THEN [db EXCEPT ![i].open = v] ELSE db
    BY <1>2 DEF HsetOpen, Hset
  <2>3. i' = i /\ c' = c /\ pc' = "set avg"
    BY <1>2 DEF HsetOpen, connections
  <2>4. CASE c
    <3>1. PICK v \in {0, 1} : db' = [db EXCEPT ![i].open = v]
      BY <2>2, <2>4
    <3>2. \A s \in Sensor : db'[s].avg = db[s].avg /\ (db[s].open # None => db'[s].open # None)
      BY <1>1, <2>1, <3>1 DEF Hash
    <3>3. db'[i].open # None
      BY <1>1, <2>1, <3>1 DEF Hash
    <3> QED BY <2>3, <3>2, <3>3 DEF RestorableInv, RestorableHash
  <2>5. CASE ~c
    BY <2>2, <2>3, <2>5 DEF RestorableInv, RestorableHash
  <2> QED BY <2>4, <2>5
<1>3. CASE HsetAvg
  <2>1. c => db[i].open # None
    BY <1>3 DEF HsetAvg, RestorableInv
  <2>2. \E v : db' = IF c THEN [db EXCEPT ![i].avg = v] ELSE db
    BY <1>3 DEF HsetAvg, Hset
  <2>3. pc' # "set avg"
    BY <1>3 DEF HsetAvg
  <2>4. \A s \in Sensor : db'[s].open = db[s].open /\ (db'[s].avg = db[s].avg \/ (s = i /\ c))
    BY <1>1, <2>2 DEF Hash
  <2> QED BY <2>1, <2>3, <2>4 DEF RestorableInv, RestorableHash
<1>4. CASE HsetOpenavg
  <2>1. \E v : db' = IF c THEN [db EXCEPT ![i].openavg = v] ELSE db
    BY <1>4 DEF HsetOpenavg, Hset
  <2>2. pc' # "set avg"
    BY <1>4 DEF HsetOpenavg, NextSensor
  <2>3. \A s \in Sensor : db'[s].open = db[s].open /\ db'[s].avg = db[s].avg
    BY <1>1, <2>1 DEF Hash
  <2> QED BY <2>2, <2>3 DEF RestorableInv, RestorableHash
<1>5. CASE ~Stores
  BY <1>5, OnlyHsetWrites DEF RestorableInv, RestorableHash
<1> QED BY <1>2, <1>3, <1>4, <1>5 DEF Stores

\* A stored average is never without a stored status (bme.c:441-447), so a
\* restart can always compare the status it finds (bme.c:388).
THEOREM NeverUnrestorable == Spec => []RestorableHash
<1>1. Init => RestorableInv
  BY DEF Init, RestorableInv, RestorableHash
<1>2. TypeInv /\ RestorableInv /\ [Next]_vars => RestorableInv'
  BY RestorableStep
<1>3. RestorableInv => RestorableHash
  BY DEF RestorableInv
<1> QED BY <1>1, <1>2, <1>3, TypeInvariant, PTL DEF Spec

-------------------------------------------------------------------------------
(* The list of the sensors in use. *)

\* The first n sensors, in order.
Listed(n) == [s \in 1..n |-> s]

Calibrating == pc \in {"avg", "first", "resume", "open", "push"}

\* Calibration starts at the first sensor with an empty list, and has listed the
\* sensors before the one at hand.
ListedInv ==
    /\ pc \in {"down", "delta", "del"} => i = 1
    /\ (Calibrating /\ c) => valid_sensors = Listed(i - 1)
    /\ ValidSensorsListed

\* RPUSH of the sensor at hand.
LEMMA ListedAppend == \A n \in Nat \ {0} : Append(Listed(n - 1), n) = Listed(n)
<1> SUFFICES ASSUME NEW n \in Nat \ {0} PROVE Append(Listed(n - 1), n) = Listed(n)
  OBVIOUS
<1>1. Listed(n - 1) \in Seq(Nat) /\ Len(Listed(n - 1)) = n - 1
  BY DEF Listed
<1>2. Listed(n) \in Seq(Nat) /\ Len(Listed(n)) = n
  BY DEF Listed
<1>3. Append(Listed(n - 1), n) \in Seq(Nat) /\ Len(Append(Listed(n - 1), n)) = n
  BY <1>1, AppendProperties
<1>4. \A k \in 1..n : Append(Listed(n - 1), n)[k] = Listed(n)[k]
  BY <1>1, AppendProperties DEF Listed
<1> QED BY <1>2, <1>3, <1>4, SeqEqual

\* Every step keeps ListedInv.
LEMMA ListedStep ==
    ASSUME TypeInv, ListedInv, [Next]_vars PROVE ListedInv'
<1> USE DEF environment, redis, connections, counters, readings
<1>1. i \in Sensor /\ N \in Nat \ {0} /\ Sensor = 1..N
  BY BmeAssumption DEF TypeInv, TypeOK, Sensor
<1>2. CASE Push
  <2>1. c => valid_sensors = Listed(i - 1)
    BY <1>2 DEF Push, ListedInv, Calibrating
  <2>2. Append(Listed(i - 1), i) = Listed(i)
    <3>1. i \in Nat \ {0}
      BY <1>1
    <3> QED BY <3>1, ListedAppend
  <2>3. c' = c /\ (c => valid_sensors' = Listed(i))
    BY <1>2, <2>1, <2>2 DEF Push
  <2>4. \/ i < N /\ i' = i + 1 /\ pc' = "avg"
        \/ i = N /\ i' = 1 /\ pc' = "read"
    BY <1>2 DEF Push
  <2>5. CASE i < N /\ i' = i + 1 /\ pc' = "avg"
    <3>1. i' - 1 = i
      BY <1>1, <2>5
    <3> QED BY <2>3, <2>5, <3>1 DEF ListedInv, Calibrating, MainLoop, ValidSensorsListed
  <2>6. CASE i = N /\ i' = 1 /\ pc' = "read"
    <3>1. c' => valid_sensors' = [s \in Sensor |-> s]
      BY <1>1, <2>3, <2>6 DEF Listed
    <3> QED BY <2>6, <3>1 DEF ListedInv, Calibrating, ValidSensorsListed
  <2> QED BY <2>4, <2>5, <2>6
<1>3. CASE DelValidSensors
  <2>1. c => valid_sensors' = <<>>
    BY <1>3 DEF DelValidSensors, EmptiedList
  <2>2. i' = 1 /\ c' = c /\ pc' = "avg"
    BY <1>3 DEF DelValidSensors, ListedInv
  <2>3. Listed(i' - 1) = <<>>
    BY <2>2 DEF Listed
  <2> QED BY <2>1, <2>2, <2>3 DEF ListedInv, Calibrating, MainLoop, ValidSensorsListed
<1>4. CASE Start \/ PressureDelta
  <2>1. i' = 1 /\ pc' \in {"delta", "del"}
    BY <1>4 DEF Start, PressureDelta, ListedInv
  <2> QED BY <2>1 DEF ListedInv, Calibrating, MainLoop, ValidSensorsListed
<1>5. CASE HgetAvg \/ FirstReading \/ FirstReadingFails \/ ResumeReading \/ Retry \/ HgetOpen
  <2>1. Calibrating /\ Calibrating'
    BY <1>5 DEF Calibrating, HgetAvg, FirstReading, FirstReadingFails, NextSlot,
                ResumeReading, Retry, HgetOpen
  <2>2. UNCHANGED <<valid_sensors, i, c>>
    BY <1>5 DEF HgetAvg, FirstReading, FirstReadingFails, ResumeReading, Retry, HgetOpen
  <2> QED BY <2>1, <2>2 DEF ListedInv, Calibrating, MainLoop, ValidSensorsListed
<1>6. CASE (Accept /\ c) \/ Stores \/ Reject \/ RecordExternal
  <2>1. MainLoop /\ MainLoop'
    BY <1>6 DEF MainLoop, Accept, Stores, HsetOpen, HsetAvg, HsetOpenavg, Reject, NextSensor,
                RecordExternal
  <2>2. UNCHANGED <<valid_sensors, c>>
    BY <1>6 DEF Accept, Stores, HsetOpen, HsetAvg, HsetOpenavg, Hset, Reject, RecordExternal
  <2> QED BY <2>1, <2>2 DEF ListedInv, Calibrating, MainLoop, ValidSensorsListed
<1>7. CASE (Accept /\ ~c) \/ Ends \/ Crash
  <2>1. i' = 1 /\ pc' = "down"
    BY <1>7 DEF Accept, Exit, Ends, TooManyRetries, NullReply, TooManyErrors, Crash
  <2> QED BY <2>1 DEF ListedInv, Calibrating, MainLoop, ValidSensorsListed
<1>8. CASE \/ LoseConnection \/ Drift \/ UNCHANGED vars
           \/ \E s \in Sensor : DoorOpens(s) \/ DoorCloses(s) \/ Break(s)
  <2>1. UNCHANGED <<pc, i, valid_sensors>> /\ (c' => c)
    BY <1>8 DEF LoseConnection, Drift, DoorOpens, DoorCloses, Break, vars
  <2> QED BY <2>1 DEF ListedInv, Calibrating, MainLoop, ValidSensorsListed
<1> QED BY <1>2, <1>3, <1>4, <1>5, <1>6, <1>7, <1>8
        DEF Next, Service, Environment, Ends, Stores

\* In the main loop valid_sensors lists every sensor once and in order
\* (bme.c:332, 407), however many runs were cut short before.
THEOREM ListedOnce == Spec => []ValidSensorsListed
<1>1. Init => ListedInv
  BY DEF Init, ListedInv, Calibrating, MainLoop, ValidSensorsListed
<1>2. TypeInv /\ ListedInv /\ [Next]_vars => ListedInv'
  BY ListedStep
<1>3. ListedInv => ValidSensorsListed
  BY DEF ListedInv
<1> QED BY <1>1, <1>2, <1>3, TypeInvariant, PTL DEF Spec

-------------------------------------------------------------------------------
(* The stored status. *)

StatusStored(s)  == db[s].open = IF sensor[s].is_open THEN 1 ELSE 0
AverageStored(s) == db[s].avg = Printed(sensor[s].average)
OpenAverageStored(s) == db[s].openavg = Printed(sensor[s].open_average)

\* Of the sensors a reading of which was accepted in this run, only the one at
\* hand may lack something in Redis: what its HSET commands have yet to store.
StoredInv ==
    /\ ~MainLoop => \A s \in Sensor : accepted[s] = None
    /\ MainLoop /\ c => \A s \in Sensor : accepted[s] # None =>
          /\ StatusStored(s)      \/ (s = i /\ pc = "set open")
          /\ AverageStored(s)     \/ (s = i /\ pc \in {"set open", "set avg"})
          /\ OpenAverageStored(s) \/ (s = i /\ pc \in {"set open", "set avg", "set openavg"})

\* What a reading leaves in data.pressure is no part of the stored status.
LEMMA ReadingFrame ==
    ASSUME TypeInv, sensor' \in {Measured(i), Spoiled(i), Disturbed(i)}
    PROVE  \A s \in Sensor : /\ sensor'[s].is_open = sensor[s].is_open
                             /\ sensor'[s].average = sensor[s].average
                             /\ sensor'[s].open_average = sensor[s].open_average
<1>1. sensor \in [Sensor -> SensorData] /\ i \in Sensor
  BY DEF TypeInv, TypeOK
<1>2. PICK p : sensor' = [sensor EXCEPT ![i].pressure = p]
  BY DEF Measured, Spoiled, Disturbed
<1>3. \A s \in Sensor : s # i => sensor'[s] = sensor[s]
  BY <1>1, <1>2
<1>4. sensor'[i] = [sensor[i] EXCEPT !.pressure = p]
  BY <1>1, <1>2
<1>5. sensor[i] \in SensorData
  BY <1>1
<1>6. /\ sensor'[i].is_open = sensor[i].is_open
      /\ sensor'[i].average = sensor[i].average
      /\ sensor'[i].open_average = sensor[i].open_average
  BY <1>4, <1>5 DEF SensorData
<1> QED BY <1>3, <1>6

\* Every step keeps StoredInv.
LEMMA StoredStep ==
    ASSUME TypeInv, StoredInv, [Next]_vars PROVE StoredInv'
<1> USE DEF environment, redis, connections, counters, readings
<1>1. /\ i \in Sensor /\ db \in [Sensor -> Hash] /\ sensor \in [Sensor -> SensorData]
      /\ accepted \in [Sensor -> Stored]
  BY DEF TypeInv, TypeOK
<1>2. CASE \/ Start \/ PressureDelta \/ DelValidSensors \/ HgetAvg \/ FirstReading
           \/ FirstReadingFails \/ ResumeReading \/ Retry \/ HgetOpen \/ Push
  <2>1. ~MainLoop
    BY <1>2 DEF MainLoop, Start, PressureDelta, DelValidSensors, HgetAvg, FirstReading,
                FirstReadingFails, ResumeReading, Retry, HgetOpen, Push
  <2>2. accepted' = accepted
    BY <1>2 DEF Start, PressureDelta, DelValidSensors, HgetAvg, FirstReading,
                FirstReadingFails, ResumeReading, Retry, HgetOpen, Push
  <2> QED BY <2>1, <2>2 DEF StoredInv
<1>3. CASE (Accept /\ ~c) \/ Ends \/ Crash
  <2>1. accepted' = [s \in Sensor |-> None]
    BY <1>3 DEF Accept, Exit, Ends, TooManyRetries, NullReply, TooManyErrors, Crash
  <2> QED BY <2>1 DEF StoredInv
<1>4. CASE Accept /\ c
  <2>1. pc = "read" /\ pc' = "set open" /\ c' = c /\ i' = i /\ db' = db
    BY <1>4 DEF Accept
  <2>2. /\ \E t : sensor' = [sensor EXCEPT ![i] = t]
        /\ \E p : accepted' = [accepted EXCEPT ![i] = p]
    BY <1>4 DEF Accept
  <2>3. \A s \in Sensor : s # i => sensor'[s] = sensor[s] /\ accepted'[s] = accepted[s]
    BY <1>1, <2>2
  <2>4. ASSUME NEW s \in Sensor, s # i, accepted'[s] # None
        PROVE  StatusStored(s)' /\ AverageStored(s)' /\ OpenAverageStored(s)'
    <3>1. StatusStored(s) /\ AverageStored(s) /\ OpenAverageStored(s)
      BY <1>4, <2>1, <2>3, <2>4 DEF StoredInv, MainLoop
    <3> QED BY <2>1, <2>3, <2>4, <3>1 DEF StatusStored, AverageStored, OpenAverageStored, Printed
  <2> QED BY <2>1, <2>4 DEF StoredInv, MainLoop
<1>5. CASE HsetOpen
  <2>1. pc = "set open" /\ pc' = "set avg" /\ UNCHANGED <<i, c, sensor, accepted>>
    BY <1>5 DEF HsetOpen
  <2>2. c => db' = [db EXCEPT ![i].open = IF sensor[i].is_open THEN 1 ELSE 0]
    BY <1>5 DEF HsetOpen, Hset
  <2>3. c => \A s \in Sensor : /\ db'[s].avg = db[s].avg /\ db'[s].openavg = db[s].openavg
                               /\ s # i => db'[s].open = db[s].open
    BY <1>1, <2>2 DEF Hash
  <2>4. c => db'[i].open = IF sensor[i].is_open THEN 1 ELSE 0
    BY <1>1, <2>2 DEF Hash
  <2>5. c => \A s \in Sensor : s = i => StatusStored(s)'
    BY <2>1, <2>4 DEF StatusStored
  <2>6. c => \A s \in Sensor : /\ AverageStored(s)' = AverageStored(s)
                               /\ OpenAverageStored(s)' = OpenAverageStored(s)
                               /\ s # i => StatusStored(s)' = StatusStored(s)
    BY <2>1, <2>3 DEF StatusStored, AverageStored, OpenAverageStored, Printed
  <2>7. c => \A s \in Sensor : accepted[s] # None =>
                 /\ StatusStored(s)'
                 /\ AverageStored(s)' \/ s = i
                 /\ OpenAverageStored(s)' \/ s = i
    BY <2>1, <2>5, <2>6 DEF StoredInv, MainLoop
  <2> QED BY <2>1, <2>7 DEF StoredInv, MainLoop
<1>6. CASE HsetAvg
  <2>1. pc = "set avg" /\ pc' = "set openavg" /\ UNCHANGED <<i, c, sensor, accepted>>
    BY <1>6 DEF HsetAvg
  <2>2. c => db' = [db EXCEPT ![i].avg = Printed(sensor[i].average)]
    BY <1>6 DEF HsetAvg, Hset
  <2>3. c => \A s \in Sensor : /\ db'[s].open = db[s].open /\ db'[s].openavg = db[s].openavg
                               /\ s # i => db'[s].avg = db[s].avg
    BY <1>1, <2>2 DEF Hash
  <2>4. c => db'[i].avg = Printed(sensor[i].average)
    BY <1>1, <2>2 DEF Hash
  <2>5. c => \A s \in Sensor : s = i => AverageStored(s)'
    BY <2>1, <2>4 DEF AverageStored, Printed
  <2>6. c => \A s \in Sensor : /\ StatusStored(s)' = StatusStored(s)
                               /\ OpenAverageStored(s)' = OpenAverageStored(s)
                               /\ s # i => AverageStored(s)' = AverageStored(s)
    BY <2>1, <2>3 DEF StatusStored, AverageStored, OpenAverageStored, Printed
  <2>7. c => \A s \in Sensor : accepted[s] # None =>
                 /\ StatusStored(s)' /\ AverageStored(s)'
                 /\ OpenAverageStored(s)' \/ s = i
    BY <2>1, <2>5, <2>6 DEF StoredInv, MainLoop
  <2> QED BY <2>1, <2>7 DEF StoredInv, MainLoop
<1>7. CASE HsetOpenavg
  <2>1. pc = "set openavg" /\ pc' \in {"read", "remote"} /\ UNCHANGED <<c, sensor, accepted>>
    BY <1>7 DEF HsetOpenavg, NextSensor
  <2>2. c => db' = [db EXCEPT ![i].openavg = Printed(sensor[i].open_average)]
    BY <1>7 DEF HsetOpenavg, Hset
  <2>3. c => \A s \in Sensor : /\ db'[s].open = db[s].open /\ db'[s].avg = db[s].avg
                               /\ s # i => db'[s].openavg = db[s].openavg
    BY <1>1, <2>2 DEF Hash
  <2>4. c => db'[i].openavg = Printed(sensor[i].open_average)
    BY <1>1, <2>2 DEF Hash
  <2>5. c => \A s \in Sensor : s = i => OpenAverageStored(s)'
    BY <2>1, <2>4 DEF OpenAverageStored, Printed
  <2>6. c => \A s \in Sensor : /\ StatusStored(s)' = StatusStored(s)
                               /\ AverageStored(s)' = AverageStored(s)
                               /\ s # i => OpenAverageStored(s)' = OpenAverageStored(s)
    BY <2>1, <2>3 DEF StatusStored, AverageStored, OpenAverageStored, Printed
  <2>7. c => \A s \in Sensor : accepted[s] # None =>
                 StatusStored(s)' /\ AverageStored(s)' /\ OpenAverageStored(s)'
    BY <2>1, <2>5, <2>6 DEF StoredInv, MainLoop
  <2> QED BY <2>1, <2>7 DEF StoredInv, MainLoop
<1>8. CASE Reject
  <2>1. /\ pc = "read" /\ pc' \in {"read", "remote"} /\ UNCHANGED <<db, c, accepted>>
        /\ sensor' \in {Measured(i), Spoiled(i), Disturbed(i)}
    BY <1>8 DEF Reject, NextSensor
  <2>2. \A s \in Sensor : /\ StatusStored(s)' = StatusStored(s)
                          /\ AverageStored(s)' = AverageStored(s)
                          /\ OpenAverageStored(s)' = OpenAverageStored(s)
    BY <2>1, ReadingFrame DEF StatusStored, AverageStored, OpenAverageStored, Printed
  <2> QED BY <2>1, <2>2 DEF StoredInv, MainLoop
<1>9. CASE \/ RecordExternal \/ LoseConnection \/ Drift \/ UNCHANGED vars
           \/ \E s \in Sensor : DoorOpens(s) \/ DoorCloses(s) \/ Break(s)
  <2>1. UNCHANGED <<db, sensor, accepted, i>> /\ (c' => c)
    BY <1>9 DEF RecordExternal, LoseConnection, Drift, DoorOpens, DoorCloses, Break, vars
  <2>2. pc' = pc \/ (pc = "remote" /\ pc' = "read")
    BY <1>9 DEF RecordExternal, LoseConnection, Drift, DoorOpens, DoorCloses, Break, vars
  <2>3. \A s \in Sensor : /\ StatusStored(s)' = StatusStored(s)
                          /\ AverageStored(s)' = AverageStored(s)
                          /\ OpenAverageStored(s)' = OpenAverageStored(s)
    BY <2>1 DEF StatusStored, AverageStored, OpenAverageStored, Printed
  <2> QED BY <2>1, <2>2, <2>3 DEF StoredInv, MainLoop
<1> QED BY <1>2, <1>3, <1>4, <1>5, <1>6, <1>7, <1>8, <1>9 DEF Next, Service, Environment, Ends

\* Between two rounds Redis holds the status and the averages computed from the
\* last reading accepted from every sensor (bme.c:441-451).
THEOREM StoredCurrent == Spec => []StoredStatusIsCurrent
<1>1. Init => StoredInv
  BY DEF Init, StoredInv, MainLoop
<1>2. TypeInv /\ StoredInv /\ [Next]_vars => StoredInv'
  BY StoredStep
<1>3. TypeInv /\ StoredInv => StoredStatusIsCurrent
  <2> SUFFICES ASSUME TypeInv, StoredInv, pc = "remote", c, NEW s \in Sensor, accepted[s] # None
               PROVE  db[s] = [open    |-> IF sensor[s].is_open THEN 1 ELSE 0,
                               avg     |-> Printed(sensor[s].average),
                               openavg |-> Printed(sensor[s].open_average)]
    BY DEF StoredStatusIsCurrent
  <2>1. StatusStored(s) /\ AverageStored(s) /\ OpenAverageStored(s)
    BY DEF StoredInv, MainLoop
  <2>2. db[s] = [open |-> db[s].open, avg |-> db[s].avg, openavg |-> db[s].openavg]
    BY DEF TypeInv, TypeOK, Hash
  <2> QED BY <2>1, <2>2 DEF StatusStored, AverageStored, OpenAverageStored
<1> QED BY <1>1, <1>2, <1>3, TypeInvariant, PTL DEF Spec

-------------------------------------------------------------------------------
(* A door that stays shut. *)

\* The weather changes so little that an average that follows it by way of drifts,
\* any number of which may have been applied twice, stays within Rise of it.
SlowWeather == \A w \in Worlds : \A e, f \in w.ext : 20 * (e - f) + 8 <= Scaled(Rise)

\* The average of a window of five whose last reading is p, the others as low as
\* this, is at most Rise below p.
Close(p, slot) == 4 * (p - slot) <= Scaled(Rise)

\* A sensor that reads p again and again counts no strike.
Steady(t, p) ==
    /\ \A m \in Slot : Close(p, t.window[m])
    /\ t.average >= Scaled(p) - Scaled(Rise)
    /\ t.strikes_closed = 0

\* The calibration of s is to come, or under way.
Ahead(s) ==
    \/ pc \in {"down", "delta", "del"}
    \/ pc \in {"avg", "first", "resume", "open", "push"} /\ s >= i

\* What the drift can be.
DriftInv ==
    /\ pressure_delta = 0 \/ \E e \in world.ext : pressure_delta = ext - e
    /\ pc = "down" => pressure_delta = 0

ShutInv(s) == ~door[s] /\ db[s].open # 1 /\ ~sensor[s].is_open /\ sensor[s].open_average = 0

\* The stored average is close to any pressure that a later run may find.
StoredClose(s) == db[s].avg # None => \A e \in world.ext : Close(Base + e, db[s].avg)

UntouchedInv(s) == Ahead(s) => sensor[s].average = 0 /\ sensor[s].strikes_closed = 0

SteadyInv(s) == ~Ahead(s) /\ ~broken[s] => Steady(sensor[s], Rack(s))

\* The sensor at hand.
HandInv(s) ==
    /\ pc = "first" /\ ~broken[s] => \A m \in Slot : m < j => sensor[s].window[m] = Rack(s)
    /\ pc = "push" /\ ~broken[s] => \A m \in Slot : Close(Rack(s), sensor[s].window[m])
    /\ pc \in {"open", "push"} /\ ~broken[s] => sensor[s].pressure = Rack(s)
    /\ pc \in {"set open", "set avg", "set openavg"} => Steady(sensor[s], Rack(s))

Quiet(s) ==
    ShutInv(s) /\ StoredClose(s) /\ UntouchedInv(s) /\ SteadyInv(s) /\ (s = i => HandInv(s))

\* The sensors that the property is about.
Working == Sensor \ (world.flaky \cup opened)

QuietInv ==
    /\ pc \in {"down", "delta", "del"} => i = 1
    /\ DriftInv
    /\ \A s \in Working : Quiet(s)

\* A closed sensor that is steady, or whose first update this is, stays closed and
\* is steady afterwards.
LEMMA SteadyUpdate ==
    ASSUME NEW s \in SensorData, ~s.is_open, s.open_average = 0, s.strikes_closed = 0,
           s.average = 0 \/ s.average >= Scaled(s.pressure) - Scaled(Rise),
           \A m \in Slot : Close(s.pressure, s.window[m])
    PROVE  /\ ~update_open(s).is_open /\ update_open(s).open_average = 0
           /\ Steady(update_open(s), s.pressure)
<1> DEFINE p == s.pressure
           w == Pushed(s.window, p)
           t == MovingAverage(s)
<1>0. p \in Int /\ s.average \in Int /\ s.window \in [Slot -> Int] /\ Rise \in Nat /\ Slot = 1..5
  BY ThresholdAssumption DEF SensorData, Slot, WINDOW_SIZE
<1>1. \A m \in Slot : Close(p, w[m])
  BY <1>0 DEF Pushed, Close, Scaled, WINDOW_SIZE
<1>2. Sum(w) \in Int /\ Sum(w) >= Scaled(p) - Scaled(Rise)
  <2>1. w[1] \in Int /\ w[2] \in Int /\ w[3] \in Int /\ w[4] \in Int /\ w[5] = p
    BY <1>0 DEF Pushed, WINDOW_SIZE
  <2>2. Close(p, w[1]) /\ Close(p, w[2]) /\ Close(p, w[3]) /\ Close(p, w[4])
    BY <1>0, <1>1
  <2> HIDE DEF w
  <2> QED BY <1>0, <2>1, <2>2 DEF Sum, Close, Scaled, WINDOW_SIZE
<1>3. Settled(s) /\ ~FollowsOpen(s)
  BY DEF Settled, FollowsOpen
<1>4. /\ t.is_open = FALSE /\ t.open_average = 0 /\ t.strikes_closed = 0 /\ t.pressure = p
      /\ t.average \in Int /\ t.average >= Scaled(p) - Scaled(Rise)
      /\ \A m \in Slot : Close(p, t.window[m])
  <2>1. CASE FollowsClosed(s)
    <3>1. t = [s EXCEPT !.window = w, !.average = Sum(w)]
      BY <1>3, <2>1 DEF MovingAverage
    <3> HIDE DEF w, t
    <3> QED BY <3>1, <1>0, <1>1, <1>2 DEF SensorData
  <2>2. CASE ~FollowsClosed(s)
    <3>1. t = s
      BY <1>3, <2>2 DEF MovingAverage
    <3>2. s.average # 0
      BY <2>2 DEF FollowsClosed
    <3> QED BY <1>0, <3>1, <3>2
  <2> QED BY <2>1, <2>2
<1>5. t \in SensorData
  BY MovingAverageType
<1> HIDE DEF t
<1>6. ~IsHigh(t)
  BY <1>0, <1>4 DEF IsHigh, Scaled, WINDOW_SIZE
<1>7. get_open_iter(t) = [t EXCEPT !.is_open = FALSE, !.open_average = 0]
  BY <1>4, <1>6 DEF get_open_iter, WINDOW_SIZE
<1>8. update_open(s) = [get_open_iter(t) EXCEPT !.window = t.window]
  BY <1>4, <1>5, <1>7 DEF update_open, t, SensorData
<1> QED BY <1>4, <1>5, <1>7, <1>8 DEF Steady, SensorData

\* One update does not open a door.
LEMMA FirstUpdate ==
    ASSUME NEW s \in SensorData, ~s.is_open, s.open_average = 0, s.strikes_closed = 0
    PROVE  ~update_open(s).is_open /\ update_open(s).open_average = 0
<1> DEFINE t == MovingAverage(s)
<1>1. t \in SensorData /\ t.is_open = FALSE /\ t.open_average = 0 /\ t.strikes_closed = 0
  <2>1. ~FollowsOpen(s)
    BY DEF FollowsOpen
  <2> QED BY <2>1, MovingAverageType DEF MovingAverage, SensorData
<1> DEFINE u == get_open_iter(t)
<1> HIDE DEF t
<1>2. u.is_open = FALSE /\ u.open_average = 0 /\ u \in SensorData
  <2>1. CASE IsHigh(t)
    <3>1. u = [t EXCEPT !.strikes_closed = @ + 1]
      BY <1>1, <2>1 DEF get_open_iter, WINDOW_SIZE
    <3> QED BY <1>1, <3>1, OpenIterType DEF SensorData
  <2>2. CASE ~IsHigh(t)
    <3>1. u = [t EXCEPT !.is_open = FALSE, !.open_average = 0]
      BY <1>1, <2>2 DEF get_open_iter, WINDOW_SIZE
    <3> QED BY <1>1, <3>1, OpenIterType DEF SensorData
  <2> QED BY <2>1, <2>2
<1>3. update_open(s) = [u EXCEPT !.window = IF u.is_open # s.is_open THEN Filled(s.pressure) ELSE @]
  BY DEF update_open, u, t
<1> HIDE DEF u
<1> QED BY <1>2, <1>3 DEF SensorData

\* What is stored of a steady sensor is close to whatever the weather may become.
LEMMA PrintedClose ==
    ASSUME TypeOK, SlowWeather, NEW s \in Sensor, ~door[s], NEW a \in Int,
           a >= Scaled(Rack(s)) - Scaled(Rise), NEW e \in world.ext
    PROVE  Close(Base + e, Printed(a))
<1>1. 5 * Printed(a) >= a - 2
  BY DEF Printed, WINDOW_SIZE
<1>2. Printed(a) \in Int
  BY DEF Printed, WINDOW_SIZE
<1>3. Rack(s) = Base + ext /\ Base \in Int /\ Rise \in Int /\ ext \in Int /\ e \in Int
  BY ExtType, BmeAssumption, ThresholdAssumption DEF Rack
<1>4. 20 * (e - ext) + 8 <= Scaled(Rise)
  BY DEF TypeOK, SlowWeather
<1> QED BY <1>1, <1>2, <1>3, <1>4 DEF Close, Scaled, WINDOW_SIZE

\* The end of the process resets what QuietInv says of it.
LEMMA QuietExit ==
    ASSUME TypeOK, QuietInv, NEW status, Exit(status) PROVE QuietInv'
<1> USE DEF environment, redis
<1>1. /\ pc' = "down" /\ i' = 1 /\ pressure_delta' = 0 /\ UNCHANGED <<world, door, ext, broken, opened, db>>
      /\ sensor' = [s \in Sensor |-> FreshSensor(Filled(0), 0)]
  BY DEF Exit
<1>2. ASSUME NEW s \in Working PROVE Quiet(s)'
  <2>1. Quiet(s) /\ s \in Sensor
    BY DEF QuietInv, Working
  <2>2. /\ sensor'[s].average = 0 /\ sensor'[s].strikes_closed = 0
        /\ ~sensor'[s].is_open /\ sensor'[s].open_average = 0
    BY <1>1, <2>1 DEF FreshSensor
  <2>3. Ahead(s)'
    BY <1>1 DEF Ahead
  <2> QED BY <1>1, <2>1, <2>2, <2>3 DEF Quiet, ShutInv, StoredClose, UntouchedInv, SteadyInv, HandInv
<1> QED BY <1>1, <1>2 DEF QuietInv, DriftInv, Working

\* The start of a run, up to its first sensor.
LEMMA QuietStart ==
    ASSUME TypeOK, QuietInv, Start \/ PressureDelta \/ DelValidSensors PROVE QuietInv'
<1> USE DEF environment, redis, connections, counters, readings
<1>0. UNCHANGED <<world, door, ext, broken, opened, db, i>> /\ i = 1
  BY DEF Start, PressureDelta, DelValidSensors, QuietInv
<1>1. DriftInv'
  <2>1. CASE Start \/ DelValidSensors
    BY <1>0, <2>1 DEF Start, DelValidSensors, QuietInv, DriftInv
  <2>2. CASE PressureDelta
    BY <1>0, <2>2 DEF PressureDelta, DriftInv, ExternalDrift, TypeOK
  <2> QED BY <2>1, <2>2
<1>2. /\ pc \in {"down", "delta", "del"} /\ pc' \in {"delta", "del", "avg"}
      /\ \A s \in Sensor : Ahead(s) /\ Ahead(s)'
  <2>1. pc \in {"down", "delta", "del"} /\ pc' \in {"delta", "del", "avg"} /\ i' = 1
    BY <1>0 DEF Start, PressureDelta, DelValidSensors
  <2>2. \A s \in Sensor : s >= 1
    BY BmeAssumption DEF Sensor
  <2> QED BY <2>1, <2>2 DEF Ahead
<1>3. ASSUME NEW s \in Working PROVE Quiet(s)'
  <2>1. Quiet(s) /\ s \in Sensor
    BY DEF QuietInv, Working
  <2>2. /\ sensor'[s].average = 0 /\ sensor'[s].strikes_closed = 0
        /\ ~sensor'[s].is_open /\ sensor'[s].open_average = 0
    <3>1. CASE Start
      BY <2>1, <3>1 DEF Start, FreshSensor
    <3>2. CASE PressureDelta \/ DelValidSensors
      BY <1>2, <2>1, <3>2 DEF PressureDelta, DelValidSensors, Quiet, ShutInv, UntouchedInv
    <3> QED BY <3>1, <3>2
  <2> QED BY <1>0, <1>2, <2>1, <2>2 DEF Quiet, ShutInv, StoredClose, UntouchedInv, SteadyInv, HandInv
<1> QED BY <1>0, <1>1, <1>3 DEF QuietInv, Working

\* The readings of the calibration.
LEMMA QuietCalibration ==
    ASSUME TypeInv, QuietInv, SlowWeather,
           HgetAvg \/ FirstReading \/ FirstReadingFails \/ ResumeReading \/ Retry \/ HgetOpen
    PROVE  QuietInv'
<1> USE DEF environment, redis, connections, counters, readings
<1>0. /\ UNCHANGED <<world, door, ext, broken, opened, db, i, pressure_delta>>
      /\ pc \in {"avg", "first", "resume", "open"} /\ pc' \in {"first", "resume", "open", "push"}
  BY DEF HgetAvg, FirstReading, FirstReadingFails, ResumeReading, Retry, HgetOpen, NextSlot
<1>1. \A s \in Sensor : Ahead(s)' = Ahead(s) /\ Rack(s)' = Rack(s) /\ Rack(s) \in Int
  BY <1>0, RackType DEF Ahead, Rack, TypeInv
<1>2. /\ i \in Sensor /\ sensor \in [Sensor -> SensorData] /\ j \in Slot /\ Slot = 1..5
      /\ sensor[i].window \in [Slot -> Int] /\ Rise \in Nat
  BY ThresholdAssumption DEF TypeInv, TypeOK, SensorData, Slot, WINDOW_SIZE
<1>3. ASSUME NEW s \in Working, s # i PROVE Quiet(s)'
  <2>1. Quiet(s) /\ s \in Sensor
    BY DEF QuietInv, Working
  <2>2. sensor'[s] = sensor[s]
    BY <1>2, <1>3, <2>1 DEF HgetAvg, FirstReading, FirstReadingFails, ResumeReading, Retry, HgetOpen,
                       Measured, Spoiled, Disturbed
  <2> QED BY <1>0, <1>1, <1>3, <2>1, <2>2 DEF Quiet, ShutInv, StoredClose, UntouchedInv, SteadyInv
<1>4. ASSUME i \in Working PROVE Quiet(i)'
  <2>1. Quiet(i) /\ i \in Sensor /\ Ahead(i) /\ Ahead(i)' /\ (CanFail(i) => broken[i])
    <3>1. i \in Int
      BY <1>2, BmeAssumption DEF Sensor
    <3>2. Ahead(i)
      BY <1>0, <3>1 DEF Ahead
    <3>3. Quiet(i) /\ (CanFail(i) => broken[i])
      BY <1>4 DEF QuietInv, Working, CanFail
    <3> QED BY <1>0, <1>2, <3>1, <3>2, <3>3 DEF Ahead
  <2>2. CASE HgetAvg
    <3>1. pc' \in {"first", "resume"} /\ sensor' = sensor /\ j' = 1
      BY <2>2 DEF HgetAvg
    <3>2. \A m \in Slot : ~(m < 1)
      BY <1>2
    <3>3. HandInv(i)'
      BY <3>1, <3>2 DEF HandInv
    <3> QED BY <1>0, <1>1, <2>1, <3>1, <3>3 DEF Quiet, ShutInv, StoredClose, UntouchedInv, SteadyInv
  <2>3. CASE FirstReading
    <3>1. /\ sensor'[i].window = [sensor[i].window EXCEPT ![j] = Rack(i)]
          /\ sensor'[i].pressure = Rack(i)
          /\ sensor'[i].average = sensor[i].average
          /\ sensor'[i].open_average = sensor[i].open_average
          /\ sensor'[i].strikes_closed = sensor[i].strikes_closed
          /\ sensor'[i].is_open = sensor[i].is_open
      <4>1. sensor' = [sensor EXCEPT ![i] = [[sensor[i] EXCEPT !.pressure = Rack(i)]
                                                EXCEPT !.window[j] = Rack(i)]]
        BY <1>2, <2>3 DEF FirstReading, Measured
      <4> QED BY <1>2, <4>1 DEF SensorData
    <3>2. pc = "first" /\ ~broken[i] /\ (j = 5 => pc' = "push") /\ (j # 5 => pc' = "first" /\ j' = j + 1)
      BY <2>3 DEF FirstReading, NextSlot, WINDOW_SIZE
    <3>3. \A m \in Slot : m <= j => sensor'[i].window[m] = Rack(i)
      BY <1>2, <2>1, <3>1, <3>2 DEF Quiet, HandInv
    <3>4. pc' = "push" => \A m \in Slot : Close(Rack(i), sensor'[i].window[m])
      <4>1. pc' = "push" => j = 5
        BY <1>2, <3>2
      <4>2. Close(Rack(i), Rack(i))
        BY <1>1, <1>2 DEF Close, Scaled, WINDOW_SIZE
      <4> QED BY <1>2, <3>3, <4>1, <4>2
    <3>5. pc' = "first" => \A m \in Slot : m < j' => sensor'[i].window[m] = Rack(i)
      BY <1>2, <3>2, <3>3
    <3>6. HandInv(i)'
      BY <1>0, <1>1, <1>2, <3>1, <3>2, <3>4, <3>5 DEF HandInv
    <3> QED BY <1>0, <1>1, <2>1, <3>1, <3>6 DEF Quiet, ShutInv, StoredClose, UntouchedInv, SteadyInv
  <2>4. CASE FirstReadingFails \/ Retry
    <3>1. /\ sensor'[i].average = sensor[i].average
          /\ sensor'[i].open_average = sensor[i].open_average
          /\ sensor'[i].strikes_closed = sensor[i].strikes_closed
          /\ sensor'[i].is_open = sensor[i].is_open
      <4>1. PICK p : sensor' = [sensor EXCEPT ![i].pressure = p]
        BY <2>4 DEF FirstReadingFails, Retry, Spoiled, Disturbed
      <4> QED BY <1>2, <4>1 DEF SensorData
    <3>2. broken[i] /\ pc' \in {"first", "push", "resume"}
      BY <2>1, <2>4 DEF FirstReadingFails, Retry, NextSlot
    <3> QED BY <1>0, <1>1, <2>1, <3>1, <3>2 DEF Quiet, ShutInv, StoredClose, UntouchedInv, SteadyInv, HandInv
  <2>5. CASE ResumeReading
    <3>1. /\ sensor'[i].average = sensor[i].average
          /\ sensor'[i].open_average = sensor[i].open_average
          /\ sensor'[i].strikes_closed = sensor[i].strikes_closed
          /\ sensor'[i].is_open = sensor[i].is_open
          /\ sensor'[i].pressure = Rack(i)
      BY <1>2, <2>5 DEF ResumeReading, Measured, SensorData
    <3>2. pc' = "open"
      BY <2>5 DEF ResumeReading
    <3> QED BY <1>0, <1>1, <2>1, <3>1, <3>2 DEF Quiet, ShutInv, StoredClose, UntouchedInv, SteadyInv, HandInv
  <2>6. CASE HgetOpen
    <3>1. pc = "open" /\ pc' = "push" /\ db[i].open = 0 /\ db[i].avg # None
      <4>1. db[i].open # 1 /\ db[i].open # None /\ db[i].open \in {None, 0, 1}
        BY <2>1, <2>6 DEF HgetOpen, Quiet, ShutInv, TypeInv, TypeOK, Hash
      <4> QED BY <2>6, <4>1 DEF HgetOpen, TypeInv, Resumable
    <3> DEFINE v == db[i].avg + pressure_delta
    <3>2. sensor' = [sensor EXCEPT ![i] = [sensor[i] EXCEPT !.window = Filled(v)]]
      BY <2>6, <3>1 DEF HgetOpen, ReclosedSensor
    <3>3. /\ sensor'[i].window = Filled(v)
          /\ sensor'[i].pressure = sensor[i].pressure
          /\ sensor'[i].average = sensor[i].average
          /\ sensor'[i].open_average = sensor[i].open_average
          /\ sensor'[i].strikes_closed = sensor[i].strikes_closed
          /\ sensor'[i].is_open = sensor[i].is_open
      <4> HIDE DEF v
      <4> QED BY <1>2, <3>2 DEF SensorData
    <3>4. Close(Rack(i), v)
      <4>1. db[i].avg \in Int /\ Base \in Int /\ ext \in Int /\ ext \in world.ext
        BY <3>1, <2>1, ExtType, BmeAssumption DEF TypeInv, TypeOK, Hash, Stored
      <4>2. Rack(i) = Base + ext
        BY <4>1, <2>1 DEF Rack, Quiet, ShutInv
      <4>3. \A e \in world.ext : Close(Base + e, db[i].avg) /\ e \in Int
        BY <2>1, <3>1, ExtType DEF Quiet, StoredClose, TypeInv
      <4>4. CASE pressure_delta = 0
        BY <4>1, <4>2, <4>3, <4>4 DEF Close
      <4>5. CASE \E e \in world.ext : pressure_delta = ext - e
        <5>1. PICK e \in world.ext : pressure_delta = ext - e
          BY <4>5
        <5> QED BY <4>1, <4>2, <4>3, <5>1 DEF Close
      <4> QED BY <4>4, <4>5 DEF QuietInv, DriftInv
    <3>5. \A m \in Slot : Close(Rack(i), sensor'[i].window[m])
      <4> HIDE DEF v
      <4> QED BY <3>3, <3>4 DEF Filled
    <3>6. ~broken[i] => sensor'[i].pressure = Rack(i)
      BY <2>1, <3>1, <3>3 DEF Quiet, HandInv
    <3> HIDE DEF v
    <3>7. HandInv(i)'
      BY <1>0, <1>1, <1>2, <3>1, <3>5, <3>6 DEF HandInv, Close
    <3> QED BY <1>0, <1>1, <2>1, <3>3, <3>7 DEF Quiet, ShutInv, StoredClose, UntouchedInv, SteadyInv
  <2> QED BY <2>2, <2>3, <2>4, <2>5, <2>6
<1>5. DriftInv'
  BY <1>0 DEF QuietInv, DriftInv
<1>6. Working' = Working
  BY <1>0 DEF Working
<1> QED BY <1>0, <1>3, <1>4, <1>5, <1>6 DEF QuietInv

\* RPUSH and the first update.
LEMMA QuietPush ==
    ASSUME TypeOK, QuietInv, Push PROVE QuietInv'
<1> USE DEF environment, redis, connections, counters, readings
<1>0. /\ UNCHANGED <<world, door, ext, broken, opened, db, pressure_delta>> /\ pc = "push"
      /\ sensor' = [sensor EXCEPT ![i] = update_open(sensor[i])]
      /\ pc' \in {"avg", "read"}
  BY DEF Push
<1>1. /\ i \in Sensor /\ i \in Int /\ N \in Int /\ Sensor \subseteq Int /\ \A s \in Sensor : s <= N
      /\ sensor \in [Sensor -> SensorData]
  <2>1. N \in Nat /\ Sensor = 1..N /\ i \in Sensor /\ sensor \in [Sensor -> SensorData]
    BY BmeAssumption DEF TypeOK, Sensor
  <2> QED BY <2>1
<1>2. \A s \in Sensor : Ahead(s)' <=> Ahead(s) /\ s # i
  BY <1>1 DEF Push, Ahead
<1>3. \A s \in Sensor : Rack(s)' = Rack(s) /\ HandInv(s)'
  BY <1>0 DEF Rack, HandInv
<1>4. ASSUME NEW s \in Working, s # i PROVE Quiet(s)'
  <2>1. Quiet(s) /\ s \in Sensor /\ sensor'[s] = sensor[s]
    BY <1>0, <1>1, <1>4 DEF QuietInv, Working
  <2> QED BY <1>0, <1>2, <1>3, <1>4, <2>1 DEF Quiet, ShutInv, StoredClose, UntouchedInv, SteadyInv
<1>5. ASSUME NEW k \in Working, k = i PROVE Quiet(k)'
  <2> USE <1>5
  <2>1. Quiet(k) /\ Ahead(k) /\ ~Ahead(k)' /\ sensor[k] \in SensorData
    BY <1>0, <1>1, <1>2, <1>5 DEF QuietInv, Ahead
  <2>2. /\ ~sensor[k].is_open /\ sensor[k].open_average = 0 /\ sensor[k].strikes_closed = 0
        /\ sensor[k].average = 0
    BY <2>1 DEF Quiet, ShutInv, UntouchedInv
  <2>3. sensor'[k] = update_open(sensor[k])
    BY <1>0, <1>1
  <2>4. ~sensor'[k].is_open /\ sensor'[k].open_average = 0
    BY <2>1, <2>2, <2>3, FirstUpdate
  <2>5. ~broken[k] => Steady(sensor'[k], Rack(k))
    <3> SUFFICES ASSUME ~broken[k] PROVE Steady(sensor'[k], Rack(k))
      OBVIOUS
    <3>1. sensor[k].pressure = Rack(k) /\ \A m \in Slot : Close(sensor[k].pressure, sensor[k].window[m])
      BY <1>0, <2>1 DEF Quiet, HandInv
    <3> QED BY <2>1, <2>2, <2>3, <3>1, SteadyUpdate
  <2>6. ShutInv(k)' /\ StoredClose(k)'
    BY <1>0, <2>1, <2>4 DEF Quiet, ShutInv, StoredClose
  <2>7. SteadyInv(k)'
    <3>1. Rack(k)' = Rack(k) /\ broken' = broken
      BY <1>0, <1>1, <1>3
    <3> QED BY <2>5, <3>1 DEF SteadyInv, Steady
  <2> QED BY <1>1, <1>3, <2>1, <2>6, <2>7 DEF Quiet, UntouchedInv
<1>6. QuietInv!1' /\ DriftInv' /\ Working' = Working
  BY <1>0 DEF QuietInv, DriftInv, Working
<1> QED BY <1>4, <1>5, <1>6 DEF QuietInv

\* An accepted reading of a steady sensor.
LEMMA QuietAccept ==
    ASSUME TypeOK, QuietInv, Accept PROVE QuietInv'
<1> USE DEF environment, redis, connections, counters, readings
<1>1. CASE ~c
  <2>1. Exit("DB_FAIL")
    BY <1>1 DEF Accept
  <2> QED BY <2>1, QuietExit
<1>2. CASE c
  <2>0. /\ UNCHANGED <<world, door, ext, broken, opened, db, pressure_delta, i>>
        /\ pc = "read" /\ pc' = "set open" /\ ~broken[i]
        /\ sensor' = [sensor EXCEPT ![i] = update_open(Measured(i)[i])]
    BY <1>2 DEF Accept
  <2>1. i \in Sensor /\ sensor \in [Sensor -> SensorData]
    BY DEF TypeOK
  <2>2. \A s \in Sensor : ~Ahead(s)' /\ ~Ahead(s) /\ Rack(s)' = Rack(s)
    BY <2>0 DEF Ahead, Rack
  <2>3. ASSUME NEW s \in Working, s # i PROVE Quiet(s)'
    <3>1. Quiet(s) /\ s \in Sensor /\ sensor'[s] = sensor[s]
      BY <2>0, <2>1, <2>3 DEF QuietInv, Working
    <3> QED BY <2>0, <2>2, <2>3, <3>1 DEF Quiet, ShutInv, StoredClose, UntouchedInv, SteadyInv
  <2>4. ASSUME NEW k \in Working, k = i PROVE Quiet(k)'
    <3> USE <2>4
    <3> DEFINE t == [sensor[k] EXCEPT !.pressure = Rack(k)]
    <3>1. Quiet(k) /\ Steady(sensor[k], Rack(k))
      BY <2>0, <2>1, <2>2, <2>4 DEF QuietInv, Quiet, SteadyInv
    <3>2. t \in SensorData
      BY <2>1, RackType DEF SensorData
    <3>3. /\ ~t.is_open /\ t.open_average = 0 /\ t.strikes_closed = 0 /\ t.pressure = Rack(k)
          /\ t.average = sensor[k].average /\ t.window = sensor[k].window
      BY <2>1, <3>1 DEF SensorData, Quiet, ShutInv, Steady
    <3>4. sensor'[k] = update_open(t)
      BY <2>0, <2>1 DEF Measured
    <3> HIDE DEF t
    <3>5. /\ ~update_open(t).is_open /\ update_open(t).open_average = 0
          /\ Steady(update_open(t), t.pressure)
      BY <3>1, <3>2, <3>3, SteadyUpdate DEF Steady
    <3>6. ~sensor'[k].is_open /\ sensor'[k].open_average = 0 /\ Steady(sensor'[k], Rack(k))
      BY <3>3, <3>4, <3>5
    <3>7. ShutInv(k)' /\ StoredClose(k)'
      BY <2>0, <3>1, <3>6 DEF Quiet, ShutInv, StoredClose
    <3>8. Steady(sensor[k], Rack(k))'
      BY <2>0, <2>1, <2>2, <3>6 DEF Steady
    <3>9. HandInv(k)'
      BY <2>0, <3>8 DEF HandInv
    <3> QED BY <2>0, <2>1, <2>2, <3>7, <3>8, <3>9 DEF Quiet, UntouchedInv, SteadyInv
  <2>5. QuietInv!1' /\ DriftInv' /\ Working' = Working
    BY <2>0 DEF QuietInv, DriftInv, Working
  <2> QED BY <2>3, <2>4, <2>5 DEF QuietInv
<1> QED BY <1>1, <1>2

\* The three HSET.
LEMMA QuietStores ==
    ASSUME TypeOK, QuietInv, SlowWeather, Stores PROVE QuietInv'
<1> USE DEF environment, redis, connections, counters, readings
<1>0. /\ UNCHANGED <<world, door, ext, broken, opened, sensor, pressure_delta>>
      /\ pc \in {"set open", "set avg", "set openavg"}
      /\ pc' \in {"set avg", "set openavg", "read", "remote"}
      /\ pc' \in {"set avg", "set openavg"} => i' = i
  BY DEF Stores, HsetOpen, HsetAvg, HsetOpenavg, NextSensor
<1>1. i \in Sensor /\ sensor[i] \in SensorData /\ db \in [Sensor -> Hash]
  BY DEF TypeOK
<1>2. \A s \in Sensor : ~Ahead(s)' /\ ~Ahead(s) /\ Rack(s)' = Rack(s)
  BY <1>0 DEF Ahead, Rack
<1>3. \A s \in Sensor : s # i => db'[s] = db[s]
  BY <1>1 DEF Stores, HsetOpen, HsetAvg, HsetOpenavg, Hset
<1>4. ASSUME NEW s \in Working, s # i PROVE Quiet(s)'
  <2>1. Quiet(s) /\ s \in Sensor /\ db'[s] = db[s]
    BY <1>3, <1>4 DEF QuietInv, Working
  <2>2. s = i' => HandInv(s)'
    BY <1>0, <1>4 DEF HandInv
  <2> QED BY <1>0, <1>2, <2>1, <2>2 DEF Quiet, ShutInv, StoredClose, UntouchedInv, SteadyInv
<1>5. ASSUME NEW k \in Working, k = i PROVE Quiet(k)'
  <2> USE <1>5
  <2>1. Quiet(k) /\ Steady(sensor[k], Rack(k))
    BY <1>0, <1>5 DEF QuietInv, Quiet, HandInv
  <2>2. db'[k].open # 1
    <3>1. db[k].open # 1 /\ ~sensor[k].is_open /\ db[k] \in Hash
      BY <1>1, <2>1 DEF Quiet, ShutInv
    <3>2. CASE HsetOpen
      <4>1. db' = IF c THEN [db EXCEPT ![k].open = 0] ELSE db
        BY <3>1, <3>2 DEF HsetOpen, Hset
      <4>2. c => db'[k] = [db[k] EXCEPT !.open = 0]
        BY <1>1, <4>1
      <4>3. c => db'[k].open = 0
        BY <3>1, <4>2 DEF Hash
      <4> QED BY <3>1, <4>1, <4>3
    <3>3. CASE HsetAvg \/ HsetOpenavg
      BY <1>1, <3>1, <3>3 DEF HsetAvg, HsetOpenavg, Hset, Hash
    <3> QED BY <3>2, <3>3 DEF Stores
  <2>3. StoredClose(k)'
    <3>1. db'[k].avg = db[k].avg \/ db'[k].avg = Printed(sensor[k].average)
      BY <1>1 DEF Stores, HsetOpen, HsetAvg, HsetOpenavg, Hset, Hash
    <3>2. \A e \in world.ext : Close(Base + e, Printed(sensor[k].average))
      BY <1>1, <2>1, PrintedClose DEF Quiet, ShutInv, Steady, SensorData
    <3>3. \A e \in world.ext : db[k].avg # None => Close(Base + e, db[k].avg)
      BY <2>1 DEF Quiet, StoredClose
    <3> QED BY <1>0, <3>1, <3>2, <3>3 DEF StoredClose, Close
  <2>4. Steady(sensor[k], Rack(k))'  \/ i' # k
    BY <1>0, <1>1, <1>2, <2>1 DEF Steady
  <2>5. (k = i' => HandInv(k)') /\ SteadyInv(k)' /\ ShutInv(k)'
    BY <1>0, <1>1, <1>2, <2>1, <2>2, <2>4 DEF HandInv, SteadyInv, Quiet, ShutInv, Steady
  <2> QED BY <1>1, <1>2, <2>3, <2>5 DEF Quiet, UntouchedInv
<1>6. QuietInv!1' /\ DriftInv' /\ Working' = Working
  BY <1>0 DEF QuietInv, DriftInv, Working
<1> QED BY <1>4, <1>5, <1>6 DEF QuietInv

\* A rejected reading changes no more than data.pressure.
LEMMA QuietReject ==
    ASSUME TypeOK, QuietInv, Reject \/ RecordExternal PROVE QuietInv'
<1> USE DEF environment, redis, connections, counters, readings
<1>0. /\ UNCHANGED <<world, door, ext, broken, opened, db, pressure_delta>>
      /\ pc \in {"read", "remote"} /\ pc' \in {"read", "remote"}
  BY DEF Reject, RecordExternal, NextSensor
<1>1. i \in Sensor /\ sensor \in [Sensor -> SensorData]
  BY DEF TypeOK
<1>2. \A s \in Sensor : /\ sensor'[s].is_open = sensor[s].is_open
                         /\ sensor'[s].average = sensor[s].average
                         /\ sensor'[s].open_average = sensor[s].open_average
                         /\ sensor'[s].strikes_closed = sensor[s].strikes_closed
                         /\ sensor'[s].window = sensor[s].window
  <2>1. \E p : sensor' = [sensor EXCEPT ![i].pressure = p] \/ sensor' = sensor
    BY DEF Reject, RecordExternal, Measured, Spoiled, Disturbed
  <2>2. PICK p : sensor' = [sensor EXCEPT ![i].pressure = p] \/ sensor' = sensor
    BY <2>1
  <2> QED BY <1>1, <2>2 DEF SensorData
<1>3. \A s \in Sensor : ~Ahead(s)' /\ ~Ahead(s) /\ Rack(s)' = Rack(s) /\ HandInv(s)'
  BY <1>0 DEF Ahead, Rack, HandInv
<1>4. ASSUME NEW s \in Working PROVE Quiet(s)'
  <2>1. Quiet(s) /\ s \in Sensor
    BY DEF QuietInv, Working
  <2> QED BY <1>0, <1>2, <1>3, <2>1 DEF Quiet, ShutInv, StoredClose, UntouchedInv, SteadyInv, Steady
<1>5. QuietInv!1' /\ DriftInv' /\ Working' = Working
  BY <1>0 DEF QuietInv, DriftInv, Working
<1> QED BY <1>4, <1>5 DEF QuietInv

\* The doors, the weather, the sensors that break, the connection.
LEMMA QuietEnvironment ==
    ASSUME TypeOK, QuietInv,
           \/ LoseConnection \/ Drift \/ UNCHANGED vars
           \/ \E s \in Sensor : DoorOpens(s) \/ DoorCloses(s) \/ Break(s)
    PROVE  QuietInv'
<1> USE DEF environment, redis, connections, counters, readings
<1>0. UNCHANGED <<world, db, pressure_delta, pc, i, j, sensor>>
  BY DEF LoseConnection, Drift, vars, DoorOpens, DoorCloses, Break
<1>1. \A s \in Sensor : Ahead(s)' = Ahead(s)
  BY <1>0 DEF Ahead
<1>2. \A s \in Sensor : broken[s] => broken'[s]
  BY DEF TypeOK, LoseConnection, Drift, vars, DoorOpens, DoorCloses, Break
<1>3. Working' \subseteq Working /\ \A s \in Working' : door'[s] = door[s]
  <2>1. ASSUME NEW s \in Sensor, DoorOpens(s) PROVE <1>3
    BY <2>1 DEF Working, DoorOpens, TypeOK
  <2>2. ASSUME NEW s \in Sensor, DoorCloses(s) PROVE <1>3
    <3>1. s \notin Working /\ Working' = Working
      BY <2>2 DEF Working, DoorCloses, QuietInv, Quiet, ShutInv
    <3> QED BY <2>2, <3>1 DEF DoorCloses, TypeOK, Working
  <2>3. CASE LoseConnection \/ Drift \/ UNCHANGED vars \/ \E s \in Sensor : Break(s)
    BY <2>3 DEF Working, LoseConnection, Drift, vars, Break
  <2> QED BY <2>1, <2>2, <2>3
<1>4. ext' = ext \/ pc = "down"
  BY DEF LoseConnection, Drift, vars, DoorOpens, DoorCloses, Break
<1>5. ASSUME NEW s \in Working' PROVE Quiet(s)'
  <2>1. Quiet(s) /\ s \in Sensor /\ door'[s] = door[s]
    BY <1>3 DEF QuietInv, Working
  <2>2. CASE ext' = ext
    <3>1. Rack(s)' = Rack(s)
      BY <2>1, <2>2 DEF Rack
    <3> QED BY <1>0, <1>1, <1>2, <2>1, <3>1
            DEF Quiet, ShutInv, StoredClose, UntouchedInv, SteadyInv, HandInv
  <2>3. CASE pc = "down"
    BY <1>0, <1>1, <2>1, <2>3 DEF Quiet, ShutInv, StoredClose, UntouchedInv, SteadyInv, HandInv, Ahead
  <2> QED BY <1>4, <2>2, <2>3
<1>6. DriftInv'
  <2>1. CASE ext' = ext
    BY <1>0, <2>1 DEF QuietInv, DriftInv
  <2>2. CASE Drift
    BY <1>0, <2>2 DEF QuietInv, DriftInv, Drift
  <2> QED BY <2>1, <2>2 DEF LoseConnection, vars, DoorOpens, DoorCloses, Break
<1>7. QuietInv!1'
  BY <1>0 DEF QuietInv
<1> QED BY <1>5, <1>6, <1>7 DEF QuietInv

\* Every step keeps the sensors quiet.
LEMMA QuietStep ==
    ASSUME TypeInv, QuietInv, SlowWeather, [Next]_vars PROVE QuietInv'
<1>1. TypeOK
  BY DEF TypeInv
<1>2. CASE Crash \/ Ends
  BY <1>1, <1>2, QuietExit DEF Crash, Ends, TooManyRetries, NullReply, TooManyErrors
<1>3. CASE Start \/ PressureDelta \/ DelValidSensors
  BY <1>1, <1>3, QuietStart
<1>4. CASE HgetAvg \/ FirstReading \/ FirstReadingFails \/ ResumeReading \/ Retry \/ HgetOpen
  BY <1>4, QuietCalibration
<1>5. CASE Push
  BY <1>1, <1>5, QuietPush
<1>6. CASE Accept
  BY <1>1, <1>6, QuietAccept
<1>7. CASE Stores
  BY <1>1, <1>7, QuietStores
<1>8. CASE Reject \/ RecordExternal
  BY <1>1, <1>8, QuietReject
<1>9. CASE \/ LoseConnection \/ Drift \/ UNCHANGED vars
           \/ \E s \in Sensor : DoorOpens(s) \/ DoorCloses(s) \/ Break(s)
  BY <1>1, <1>9, QuietEnvironment
<1> QED BY <1>2, <1>3, <1>4, <1>5, <1>6, <1>7, <1>8, <1>9
        DEF Next, Service, Environment, Ends, Stores

\* Where the weather is slow, a door that was never opened is never reported open
\* (bme.c:80-113, 360-404, 441-447) by a sensor no reading of which fails now and
\* then, over all restarts and lost connections, whatever the window of a new
\* process held and whenever a sensor breaks for good.
THEOREM ShutIsNotOpened ==
    ASSUME SlowWeather
    PROVE  Spec => []NoFalseOpening
<1>1. Init => QuietInv
  <2> SUFFICES ASSUME Init PROVE QuietInv
    OBVIOUS
  <2>1. /\ pc = "down" /\ i = 1 /\ pressure_delta = 0
        /\ \A s \in Sensor : /\ ~door[s] /\ db[s].open = None /\ db[s].avg = None
                             /\ sensor[s] = FreshSensor(Filled(0), 0)
    BY DEF Init
  <2>2. /\ ~FreshSensor(Filled(0), 0).is_open /\ FreshSensor(Filled(0), 0).open_average = 0
        /\ FreshSensor(Filled(0), 0).average = 0 /\ FreshSensor(Filled(0), 0).strikes_closed = 0
    BY DEF FreshSensor
  <2>3. None # 1
    BY BmeAssumption
  <2> HIDE DEF Init
  <2> QED BY <2>1, <2>2, <2>3
          DEF QuietInv, DriftInv, Working, Quiet, ShutInv, StoredClose, UntouchedInv, SteadyInv,
              HandInv, Ahead
<1>2. TypeInv /\ QuietInv /\ [Next]_vars => QuietInv'
  BY QuietStep
<1>3. TypeOK /\ QuietInv => NoFalseOpening
  BY DEF QuietInv, Quiet, ShutInv, Working, NoFalseOpening
<1>4. TypeInv => TypeOK
  BY DEF TypeInv
<1> QED BY <1>1, <1>2, <1>3, <1>4, TypeInvariant, PTL DEF Spec
===============================================================================
