----------------------------- MODULE MCDoorSensor -----------------------------
(* DoorSensor with the program's thresholds, in units of 0.001 hPa. *)
EXTENDS DoorSensor

CONSTANTS Closed, Opened   \* two pressure levels, for the liveness properties

CalibratedClosed == sensor.average = Scaled(Closed)

\* A sensor calibrated behind a closed door, whatever the door did since: once
\* the rack stays at its closed pressure, the door is reported closed for good.
SettlesClosed == CalibratedClosed /\ <>[](rack = Closed) => <>[]~sensor.is_open

\* And once the rack stays at its open pressure, the door is reported open.
SettlesOpen == CalibratedClosed /\ <>[](rack = Opened) => <>[]sensor.is_open
===============================================================================
