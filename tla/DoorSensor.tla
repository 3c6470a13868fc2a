------------------------------ MODULE DoorSensor ------------------------------
(***************************************************************************)
(* One sensor of the bme service, from the end of a first calibration on:  *)
(* main's loop passes every accepted reading to update_open.  The pressure *)
(* in the rack is the environment's: it may change before every reading.   *)
(***************************************************************************)
EXTENDS DoorStatus

CONSTANTS
    Pressure,   \* the pressures the sensor can report
    MaxSince    \* bound of the history counter since

ASSUME PressureAssumption ==
    /\ Pressure \subseteq Nat \ {0}
    /\ MaxSince \in Nat /\ MaxSince >= WINDOW_SIZE

VARIABLES
    rack,       \* the pressure in the rack, as the sensor would measure it
    sensor,     \* the sensor's struct bme_sensor_data
    since       \* history: updates since is_open last changed (or the start), up to MaxSince

vars == <<rack, sensor, since>>

\* main, the readings of a sensor with no stored average: the window holds
\* WINDOW_SIZE realistic readings, the last one is passed to update_open.
Init ==
    /\ \E w \in [Slot -> Pressure] :
          /\ sensor = update_open(FreshSensor(w, w[WINDOW_SIZE]))
          /\ rack = w[WINDOW_SIZE]
    /\ since = 1

\* One accepted reading in main's loop.
Reading ==
    /\ sensor' = update_open([sensor EXCEPT !.pressure = rack])
    /\ since' = IF sensor'.is_open # sensor.is_open THEN 0
                ELSE IF since < MaxSince THEN since + 1 ELSE since
    /\ UNCHANGED rack

\* A door moves, or the weather changes.
RackChanges ==
    /\ rack' \in Pressure
    /\ UNCHANGED <<sensor, since>>

Next == Reading \/ RackChanges

Spec == Init /\ [][Next]_vars

\* The service reads about once a second; nothing makes the pressure change.
FairSpec == Spec /\ WF_vars(Reading)

-------------------------------------------------------------------------------
SensorState ==
    [window : [Slot -> Pressure], average : Nat, open_average : Nat,
     strikes_closed : 0..WINDOW_SIZE, is_open : BOOLEAN, pressure : Pressure]

\* The window is full of readings from the start, and strikes stay in range.
TypeOK ==
    /\ rack \in Pressure
    /\ sensor \in SensorState
    /\ since \in 0..MaxSince

\* An average is never outside the pressures that were read: bounds Lo and Hi
\* hold for it whenever they hold for every pressure, with 0 for "no average".
WithinReadings(a) ==
    \A lo, hi \in Pressure :
        (\A p \in Pressure : lo <= p /\ p <= hi) =>
            a = 0 \/ (Scaled(lo) <= a /\ a <= Scaled(hi))

\* Once calibrated, both averages lie between the lowest and the highest
\* pressure, whatever mix of open and closed readings the shared window holds
\* (update_open keeps one window for both averages and refills it on a change).
AveragesRealistic ==
    /\ WithinReadings(sensor.average)
    /\ WithinReadings(sensor.open_average)
    /\ sensor.average # 0

\* The open-door average exists only while the door is reported open: closing
\* must clear it, or the next opening starts from the last one's pressure.
OpenAverageOnlyWhileOpen == sensor.open_average # 0 => sensor.is_open

\* The strikes already counted took that many updates since the last change.
StrikesAreEarned ==
    since < WINDOW_SIZE =>
        IF sensor.is_open THEN sensor.strikes_closed >= WINDOW_SIZE - since
                          ELSE sensor.strikes_closed <= since

\* A reported door movement is never sooner than WINDOW_SIZE + 1 updates after
\* the one before it: short pressure spikes, in any pattern, change nothing.
Debounced ==
    [][sensor'.is_open # sensor.is_open => since >= WINDOW_SIZE]_vars

\* While the door is reported open the closed average stands still, so that it
\* is still there to recognise the closing by.
ClosedAverageHeldWhileOpen ==
    [][sensor.is_open => sensor'.average = sensor.average]_vars
===============================================================================
