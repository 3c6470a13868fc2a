----------------------------- MODULE MCWirelessSensor -----------------------------
(***************************************************************************)
(* Two devices: id 1 is looked for, 3 is a preassigned one that is not     *)
(* looked for, and 4 is out of range, so that main treats it as none.      *)
(***************************************************************************)
EXTENDS WirelessSensor

TheStored == {3, 4}
===================================================================================
