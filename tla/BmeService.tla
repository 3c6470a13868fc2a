------------------------------ MODULE BmeService ------------------------------
(***************************************************************************)
(* The bme service: main of src/main/bme.c, from the Redis connection on,  *)
(* with what it keeps in the local Redis and with systemd restarting it.   *)
(* One step is one Redis command or one sensor reading, so that a crash or *)
(* a lost connection may fall between any two of them.                     *)
(***************************************************************************)
EXTENDS DoorStatus, Sequences

CONSTANTS
    None,               \* a field or key that Redis does not hold
    N,                  \* number of BME sensors found by the scan, valid_bme
    ERROR_THRESHOLD,    \* failed readings forgiven by the main loop (5)
    MAX_RETRIES,        \* unrealistic readings forgiven by the calibration (10)
    Base,               \* pressure behind a closed door, external pressure 0
    Wild,               \* an unrealistic pressure, as a disturbed sensor reports it
    Gain,               \* what opening the door adds to it
    Garbage,            \* what an uninitialised double may hold
    Worlds              \* the places it may run in, one of which is picked

Sensor == 1..N

\* What may happen around the service.
World ==
    [ext    : SUBSET Int,       \* external pressures, relative to the first one
     faulty : SUBSET Sensor,    \* the sensors that may break for good
     flaky  : SUBSET Sensor,    \* the sensors a single reading of which may fail
     doors  : SUBSET Sensor,    \* the sensors whose doors move
     remote_fails : BOOLEAN]    \* the remote Redis server may be unavailable

ASSUME BmeAssumption ==
    /\ None \notin Int /\ N \in Nat \ {0} /\ ERROR_THRESHOLD \in Nat /\ MAX_RETRIES \in Nat
    /\ Base \in Nat /\ Gain \in Nat /\ Wild \in Nat /\ Garbage \subseteq Int /\ Garbage # {}
    /\ Worlds \subseteq World /\ \A w \in Worlds : 0 \in w.ext

\* What the calibration takes for a pressure, from scratch and when it resumes.
Plausible(p) == 850000 < p /\ p < 1000000
Realistic(p) == 900000 < p /\ p < 1000000

ASSUME RackAssumption ==
    \A w \in Worlds : \A e \in w.ext : Realistic(Base + e) /\ Realistic(Base + e + Gain)

VARIABLES
    \* the environment
    world,          \* where the service runs
    door,           \* door[s]: the door of sensor s is open
    ext,            \* external pressure, published remotely as wgen2_pressure
    broken,         \* broken[s]: every reading of s fails from now on
    \* the local Redis
    db,             \* db[s]: the hash of sensor s: open, avg, openavg
    valid_sensors,  \* the list of the sensors in use
    last_ext,       \* last_ext_pressure
    \* the process
    exit,           \* how the last process ended, while none runs
    pc, i, j,       \* where main is, the sensor and the window slot at hand
    c,              \* the local connection works
    c_remote,       \* the remote server answers and holds wgen2_pressure
    pressure_delta, retries, bme_errors,
    sensor,         \* sensor[s]: bme_sensors[s - 1]
    past_pres,      \* past_pres[s]: its past_pres
    \* history
    opened,         \* the sensors whose door has ever been open
    accepted        \* accepted[s]: the last reading accepted from s in this run

environment == <<world, door, ext, broken, opened>>
redis       == <<db, valid_sensors, last_ext>>
connections == <<c, c_remote>>
counters    == <<pressure_delta, retries, bme_errors>>
readings    == <<sensor, past_pres, accepted>>
vars        == <<environment, redis, exit, pc, i, j, connections, counters, readings>>

Rack(s) == Base + ext + IF door[s] THEN Gain ELSE 0

\* "%.3f" of the average whose window sums to a: the nearest 0.001 hPa.
Printed(a) == (2 * a + WINDOW_SIZE) \div (2 * WINDOW_SIZE)

\* Mutant: a disturbed reading moves the average.
Disturbed_Averaged(s) ==
    [sensor EXCEPT ![s] = update_open([sensor[s] EXCEPT !.pressure = Wild])]

\* What bme_read leaves in data.pressure: the rack's pressure; on a failure, the
\* value it held, scaled to hPa once more; or nonsense that was read correctly.
Measured(s)  == [sensor EXCEPT ![s].pressure = Rack(s)]
Spoiled(s)   == [sensor EXCEPT ![s].pressure = @ \div 100]
Disturbed(s) == [sensor EXCEPT ![s].pressure = Wild]

CanFail(s) == broken[s] \/ s \in world.flaky

\* saturated: the humidity read with the pressure is 100 %.
check_alteration(p, past, saturated) ==
    /\ 800000 < p /\ p < 1000000
    /\ past = 0 \/ (7 * (past - p) < past /\ 7 * (p - past) < past /\ ~saturated)

-------------------------------------------------------------------------------
Init ==
    /\ world \in Worlds /\ door = [s \in Sensor |-> FALSE] /\ ext = 0 /\ opened = {}
    /\ broken = [s \in Sensor |-> FALSE]
    /\ db = [s \in Sensor |-> [open |-> None, avg |-> None, openavg |-> None]]
    /\ valid_sensors = <<>> /\ last_ext = None
    /\ exit = "none" /\ pc = "down" /\ i = 1 /\ j = 1 /\ c = FALSE /\ c_remote = FALSE
    /\ pressure_delta = 0 /\ retries = 0 /\ bme_errors = 0
    /\ sensor = [s \in Sensor |-> FreshSensor(Filled(0), 0)]
    /\ past_pres = [s \in Sensor |-> 0]
    /\ accepted = [s \in Sensor |-> None]

\* The process ends, by a return of main or by a fault: its memory is gone.
Exit(status) ==
    /\ exit' = status /\ pc' = "down" /\ i' = 1 /\ j' = 1 /\ c' = FALSE /\ c_remote' = FALSE
    /\ pressure_delta' = 0 /\ retries' = 0 /\ bme_errors' = 0
    /\ sensor' = [s \in Sensor |-> FreshSensor(Filled(0), 0)]
    /\ past_pres' = [s \in Sensor |-> 0]
    /\ accepted' = [s \in Sensor |-> None]
    /\ UNCHANGED <<environment, redis>>

\* A crash, a power cut or a kill, at any point.
Crash == pc # "down" /\ Exit("killed")

-------------------------------------------------------------------------------
(* Start and calibration. *)

\* systemd starts the service again (Restart=always).  The scan leaves the
\* windows, past_pres and the readings of bme_sensors uninitialised, and the
\* connection loop ends with a local server; without a remote one, c_remote
\* becomes c, where nothing writes wgen2_pressure.
Start ==
    /\ pc = "down"
    /\ \E g \in Garbage :
          /\ sensor' = [s \in Sensor |-> FreshSensor(Filled(g), g)]
          /\ past_pres' = [s \in Sensor |-> g]
    /\ c' = TRUE /\ c_remote' \in (IF world.remote_fails THEN BOOLEAN ELSE {TRUE})
    /\ exit' = "none" /\ pc' = "delta"
    /\ UNCHANGED <<environment, redis, i, j, counters, accepted>>

\* The drift of the external pressure since it was last recorded.
ExternalDrift == IF c_remote /\ last_ext # None THEN ext - last_ext ELSE 0

PressureDelta ==
    /\ pc = "delta"
    /\ c                                  \* else reply->str of a NULL reply
    /\ pressure_delta' = ExternalDrift
    /\ pc' = "del"
    /\ UNCHANGED <<environment, redis, exit, i, j, connections, retries, bme_errors, readings>>

\* Mutant: the list of the last run is kept.
EmptiedList_Kept == valid_sensors

\* DEL valid_sensors.
EmptiedList == IF c THEN <<>> ELSE valid_sensors

DelValidSensors ==
    /\ pc = "del"
    /\ valid_sensors' = EmptiedList
    /\ pc' = "avg"
    /\ UNCHANGED <<environment, db, last_ext, exit, i, j, connections, counters, readings>>

\* HGET avg: a sensor without a stored average is calibrated from scratch,
\* the others resume from it, shifted by the drift.  The three readings discarded before
\* a calibration are left out: the pressure they leave is overwritten by the first of
\* the five that succeeds, and scaled to nothing when none does.
HgetAvg ==
    /\ pc = "avg" /\ c
    /\ \/ /\ db[i].avg = None
          /\ past_pres' = [past_pres EXCEPT ![i] = 0]
          /\ pc' = "first"
       \/ /\ db[i].avg # None
          /\ past_pres' = [past_pres EXCEPT ![i] = db[i].avg + pressure_delta]
          /\ pc' = "resume"
    /\ j' = 1
    /\ UNCHANGED <<environment, redis, exit, i, connections, counters, sensor, accepted>>

\* The next slot of the window, and the end of the calibration after the last.
NextSlot ==
    /\ j' = IF j = WINDOW_SIZE THEN 1 ELSE j + 1
    /\ pc' = IF j = WINDOW_SIZE THEN "push" ELSE "first"

\* A reading for window slot j: a failed one leaves the slot as it was.
FirstReading ==
    /\ pc = "first" /\ ~broken[i]
    /\ Plausible(Rack(i))
    /\ sensor' = [Measured(i) EXCEPT ![i].window[j] = Rack(i)]
    /\ past_pres' = [past_pres EXCEPT ![i] = Rack(i)]
    /\ NextSlot
    /\ UNCHANGED <<environment, redis, exit, i, connections, counters, accepted>>

FirstReadingFails ==
    /\ pc = "first" /\ CanFail(i)
    /\ sensor' = Spoiled(i)
    /\ NextSlot
    /\ UNCHANGED <<environment, redis, exit, i, connections, counters, past_pres, accepted>>

\* Reading until the pressure is realistic; a failed reading is not.
ResumeReading ==
    /\ pc = "resume" /\ ~broken[i]
    /\ Realistic(Rack(i))
    /\ sensor' = Measured(i)
    /\ pc' = "open"
    /\ UNCHANGED <<environment, redis, exit, i, j, connections, counters, past_pres, accepted>>

CountRetry == retries < MAX_RETRIES /\ retries' = retries + 1

\* An unrealistic reading is repeated, MAX_RETRIES times for all the sensors
\* together; a resuming sensor's failed reading counts as unrealistic.
Retry ==
    /\ CanFail(i)
    /\ \/ pc \in {"first", "resume"} /\ sensor' = Disturbed(i)
       \/ pc = "resume" /\ sensor' = Spoiled(i)
    /\ CountRetry
    /\ UNCHANGED <<environment, redis, exit, pc, i, j, connections, pressure_delta,
                   bme_errors, past_pres, accepted>>

TooManyRetries ==
    /\ pc \in {"first", "resume"} /\ CanFail(i)
    /\ retries >= MAX_RETRIES
    /\ Exit("SENSOR_FAIL")

\* Mutant: a window of nothing.
ReclosedSensor_Empty(s, avg) == [sensor[s] EXCEPT !.window = Filled(0)]

\* An open door comes back with its open average, a closed average 0.3 below it
\* and full strikes; a closed one with a window of the stored average.
ReopenedSensor(s, openavg) ==
    [sensor[s] EXCEPT !.open_average = Scaled(openavg), !.average = Scaled(openavg - 300),
                      !.strikes_closed = WINDOW_SIZE, !.window = Filled(openavg)]

ReclosedSensor(s, avg) == [sensor[s] EXCEPT !.window = Filled(avg)]

\* HGET open, then openavg.  Open without an open average restores nothing.
HgetOpen ==
    /\ pc = "open" /\ c
    /\ db[i].open # None                  \* else strcmp of a null pointer
    /\ \/ /\ db[i].open = 1 /\ db[i].openavg \notin {None, 0}
          /\ sensor' = [sensor EXCEPT ![i] = ReopenedSensor(i, db[i].openavg + pressure_delta)]
       \/ /\ db[i].open = 1 /\ db[i].openavg \in {None, 0}
          /\ UNCHANGED sensor
       \/ /\ db[i].open = 0
          /\ sensor' = [sensor EXCEPT ![i] = ReclosedSensor(i, db[i].avg + pressure_delta)]
    /\ pc' = "push"
    /\ UNCHANGED <<environment, redis, exit, i, j, connections, counters, past_pres, accepted>>

\* RPUSH valid_sensors, and the first update_open of the sensor.
Push ==
    /\ pc = "push"
    /\ valid_sensors' = IF c THEN Append(valid_sensors, i) ELSE valid_sensors
    /\ sensor' = [sensor EXCEPT ![i] = update_open(sensor[i])]
    /\ \/ i < N /\ i' = i + 1 /\ pc' = "avg"
       \/ i = N /\ i' = 1 /\ pc' = "read"
    /\ UNCHANGED <<environment, db, last_ext, exit, j, connections, counters, past_pres, accepted>>

\* A command whose reply is used although the connection, the local or the
\* remote one, is gone.
NullReply ==
    /\ \/ ~c /\ pc \in {"delta", "avg", "open"}
       \/ ~c /\ pc = "remote" /\ ~c_remote
       \/ world.remote_fails /\ c_remote /\ pc \in {"delta", "remote"}
    /\ Exit("fault")

-------------------------------------------------------------------------------
(* The main loop. *)

\* The next sensor, or the end of the round.
NextSensor ==
    \/ i < N /\ i' = i + 1 /\ pc' = "read"
    \/ i = N /\ i' = 1 /\ pc' = "remote"

\* An accepted reading: temperature, pressure and humidity are stored, and the
\* door status updated.  A missing reply to the first HSET ends the service.
Accept ==
    /\ pc = "read" /\ ~broken[i] /\ check_alteration(Rack(i), past_pres[i], FALSE)
    /\ \/ /\ c
          /\ bme_errors' = 0
          /\ sensor' = [sensor EXCEPT ![i] = update_open(Measured(i)[i])]
          /\ accepted' = [accepted EXCEPT ![i] = Rack(i)]
          /\ pc' = "set open"
          /\ UNCHANGED <<environment, redis, exit, i, j, connections, pressure_delta,
                         retries, past_pres>>
       \/ ~c /\ Exit("DB_FAIL")

\* HSET of a field of the sensor at hand.
Hset(field, value) ==
    /\ db' = IF c THEN [db EXCEPT ![i][field] = value] ELSE db
    /\ UNCHANGED <<valid_sensors, last_ext>>

\* Mutant: the average is stored before the status.
HsetOpen_AvgFirst ==
    /\ pc = "set open" /\ pc' = "set avg"
    /\ Hset("avg", Printed(sensor[i].average))
    /\ UNCHANGED <<environment, exit, i, j, connections, counters, readings>>

HsetOpen ==
    /\ pc = "set open" /\ pc' = "set avg"
    /\ Hset("open", IF sensor[i].is_open THEN 1 ELSE 0)
    /\ UNCHANGED <<environment, exit, i, j, connections, counters, readings>>

HsetAvg ==
    /\ pc = "set avg" /\ pc' = "set openavg"
    /\ Hset("avg", Printed(sensor[i].average))
    /\ UNCHANGED <<environment, exit, i, j, connections, counters, readings>>

\* Mutant: errors are not counted.
CountError_Never == bme_errors <= ERROR_THRESHOLD /\ UNCHANGED bme_errors

\* bme_sensors->past_pres is that of the first sensor, whatever i is.
HsetOpenavg ==
    /\ pc = "set openavg" /\ NextSensor
    /\ Hset("openavg", Printed(sensor[i].open_average))
    /\ past_pres' = [past_pres EXCEPT ![1] = sensor[i].pressure]
    /\ UNCHANGED <<environment, exit, j, connections, counters, sensor, accepted>>

CountError == bme_errors <= ERROR_THRESHOLD /\ bme_errors' = bme_errors + 1

\* A failed or unrealistic reading: one counter serves all the sensors.
Reject ==
    /\ pc = "read"
    /\ \/ CanFail(i) /\ sensor' \in {Spoiled(i), Disturbed(i)}
       \/ /\ ~broken[i] /\ sensor' = Measured(i)
          /\ \E saturated \in {FALSE, (i \in world.flaky)} :
                ~check_alteration(Rack(i), past_pres[i], saturated)
    /\ CountError
    /\ NextSensor
    /\ UNCHANGED <<environment, redis, exit, j, connections, pressure_delta, retries,
                   past_pres, accepted>>

TooManyErrors ==
    /\ pc = "read"
    /\ CanFail(i) \/ ~check_alteration(Rack(i), past_pres[i], FALSE)
    /\ bme_errors > ERROR_THRESHOLD
    /\ Exit("SENSOR_FAIL")

\* The end of a round: the external pressure is recorded.
RecordExternal ==
    /\ pc = "remote"
    /\ last_ext' = IF c /\ c_remote THEN ext ELSE last_ext
    /\ pc' = "read"
    /\ UNCHANGED <<environment, db, valid_sensors, exit, i, j, connections, counters, readings>>

-------------------------------------------------------------------------------
(* The environment. *)

DoorOpens(s) ==
    /\ s \in world.doors /\ ~door[s]
    /\ door' = [door EXCEPT ![s] = TRUE]
    /\ opened' = opened \cup {s}
    /\ UNCHANGED <<world, ext, broken, redis, exit, pc, i, j, connections, counters, readings>>

DoorCloses(s) ==
    /\ door[s]
    /\ door' = [door EXCEPT ![s] = FALSE]
    /\ UNCHANGED <<world, ext, broken, opened, redis, exit, pc, i, j, connections, counters, readings>>

\* The weather: too slow to matter between two readings, not between two runs.
Drift ==
    /\ pc = "down"
    /\ ext' \in world.ext \ {ext}
    /\ UNCHANGED <<world, door, broken, opened, redis, exit, pc, i, j, connections, counters, readings>>

Break(s) ==
    /\ s \in world.faulty /\ ~broken[s]
    /\ broken' = [broken EXCEPT ![s] = TRUE]
    /\ UNCHANGED <<world, door, ext, opened, redis, exit, pc, i, j, connections, counters, readings>>

\* The connection to the local Redis is lost; hiredis keeps the error.
LoseConnection ==
    /\ c /\ c' = FALSE
    /\ UNCHANGED <<environment, redis, exit, pc, i, j, c_remote, counters, readings>>

Service ==
    \/ Start \/ PressureDelta \/ DelValidSensors \/ HgetAvg
    \/ FirstReading \/ FirstReadingFails \/ ResumeReading \/ Retry \/ TooManyRetries
    \/ HgetOpen \/ Push \/ NullReply
    \/ Accept \/ HsetOpen \/ HsetAvg \/ HsetOpenavg \/ Reject \/ TooManyErrors
    \/ RecordExternal

Environment ==
    \/ Crash \/ LoseConnection \/ Drift
    \/ \E s \in Sensor : DoorOpens(s) \/ DoorCloses(s) \/ Break(s)

Next == Service \/ Environment

Spec == Init /\ [][Next]_vars

\* The process runs whenever it can, and systemd starts it whenever it is down.
FairSpec == Spec /\ WF_vars(Service)

-------------------------------------------------------------------------------
(* What the service promises. *)

Stored == Int \cup {None}

Hash == [open : {None, 0, 1}, avg : Stored, openavg : Stored]

\* struct bme_sensor_data, as far as it is modelled.
SensorData ==
    [window : [Slot -> Int], average : Int, open_average : Int,
     strikes_closed : 0..WINDOW_SIZE, is_open : BOOLEAN, pressure : Int]

TypeOK ==
    /\ world \in Worlds /\ ext \in world.ext /\ opened \subseteq Sensor
    /\ door \in [Sensor -> BOOLEAN]
    /\ broken \in [Sensor -> BOOLEAN] /\ db \in [Sensor -> Hash]
    /\ valid_sensors \in Seq(Sensor) /\ last_ext \in world.ext \cup {None}
    /\ exit \in {"none", "killed", "fault", "DB_FAIL", "SENSOR_FAIL"}
    /\ pc \in {"down", "delta", "del", "avg", "first", "resume", "open", "push",
              "read", "set open", "set avg", "set openavg", "remote"}
    /\ i \in Sensor /\ j \in Slot /\ c \in BOOLEAN /\ c_remote \in BOOLEAN
    /\ pressure_delta \in Int /\ retries \in 0..MAX_RETRIES
    /\ bme_errors \in 0..ERROR_THRESHOLD + 1
    /\ sensor \in [Sensor -> SensorData]
    /\ past_pres \in [Sensor -> Int] /\ accepted \in [Sensor -> Stored]

MainLoop == pc \in {"read", "set open", "set avg", "set openavg", "remote"}

\* A stored average is never without a stored status, whatever crash or lost
\* connection cut a round short: the next start compares that status unchecked,
\* so the service would never come up again.
RestorableHash == \A s \in Sensor : db[s].avg # None => db[s].open # None

\* In the main loop, each sensor is listed in valid_sensors once and in order,
\* after any number of restarts.
ValidSensorsListed ==
    MainLoop /\ c => valid_sensors = [s \in Sensor |-> s]

\* Between two rounds Redis holds what the service computed from the last
\* reading it accepted from each sensor.
StoredStatusIsCurrent ==
    pc = "remote" /\ c =>
        \A s \in Sensor : accepted[s] # None =>
            db[s] = [open    |-> IF sensor[s].is_open THEN 1 ELSE 0,
                     avg     |-> Printed(sensor[s].average),
                     openavg |-> Printed(sensor[s].open_average)]

\* A door that was never opened is never reported open, over all restarts, by a
\* sensor that works.
NoFalseOpening == \A s \in Sensor \ world.flaky : db[s].open = 1 => s \in opened

\* When every sensor is broken, the service ends and is started again.
AllBrokenRestarts == (\A s \in Sensor : broken[s]) ~> pc = "down"

\* Calibration ends, in the main loop or with the service: it never hangs.
CalibrationEnds == pc = "delta" ~> MainLoop \/ pc = "down"

\* Once nothing kills it or its connection any more, the service gets to its
\* main loop and stays there, unless a sensor fails.
Recovers ==
    <>[](exit # "killed") /\ <>[][~LoseConnection]_vars
        => <>[](MainLoop \/ \E s \in Sensor : CanFail(s))
===============================================================================
