------------------------------ MODULE DoorStatus ------------------------------
(***************************************************************************)
(* The door-status algorithm of src/main/bme.c: update_open and            *)
(* get_open_iter, as functions of the state kept for one sensor (struct    *)
(* bme_sensor_data in src/bme280/common/common.h).                         *)
(*                                                                         *)
(* A pressure is an integer number of 0.001 hPa, the resolution at which   *)
(* the program stores it.  An average is kept as the SUM of the window,    *)
(* that is WINDOW_SIZE times the C value, so that no division is needed;   *)
(* a pressure compared with it is scaled by WINDOW_SIZE.                   *)
(***************************************************************************)
EXTENDS Integers

CONSTANTS
    Rise,   \* 0.23: the rise over the closed average that counts as a strike
    Near,   \* 0.08: an average follows a change against its own drift this far
    Far     \* 0.1:  and a change along its own drift this far

ASSUME ThresholdAssumption == Rise \in Nat /\ Near \in Nat /\ Far \in Nat

WINDOW_SIZE == 5

Slot == 1..WINDOW_SIZE

Scaled(p) == WINDOW_SIZE * p

Filled(p) == [i \in Slot |-> p]

\* The window moved one position to the left, with p in the last one.
Pushed(w, p) == [i \in Slot |-> IF i = WINDOW_SIZE THEN p ELSE w[i + 1]]

\* Mutant: the oldest slot is not summed.
Sum_Short(w) == w[2] + w[3] + w[4] + w[5]

Sum(w) == w[1] + w[2] + w[3] + w[4] + w[5]

\* A sensor as the base-board scan leaves it, with a given window.
FreshSensor(w, p) ==
    [window |-> w, average |-> 0, open_average |-> 0,
     strikes_closed |-> 0, is_open |-> FALSE, pressure |-> p]

-------------------------------------------------------------------------------
(* update_open, first half: which of the two averages takes the reading. *)

\* No door movement is being counted: the averages may follow the pressure.
Settled(s) == s.strikes_closed = IF s.is_open THEN WINDOW_SIZE ELSE 0

FollowsClosed(s) ==
    \/ s.average = 0
    \/ /\ ~s.is_open
       /\ -Scaled(Near) < s.average - Scaled(s.pressure)
       /\ s.average - Scaled(s.pressure) < Scaled(Far)

FollowsOpen(s) ==
    /\ s.is_open
    /\ \/ s.open_average = 0
       \/ /\ -Scaled(Far) < s.open_average - Scaled(s.pressure)
          /\ s.open_average - Scaled(s.pressure) < Scaled(Near)

MovingAverage(s) ==
    LET w == Pushed(s.window, s.pressure) IN
    CASE ~Settled(s)                       -> s
      [] Settled(s) /\ FollowsClosed(s)    -> [s EXCEPT !.window = w, !.average = Sum(w)]
      [] Settled(s) /\ ~FollowsClosed(s) /\ FollowsOpen(s)
                                           -> [s EXCEPT !.window = w, !.open_average = Sum(w)]
      [] OTHER                             -> s

-------------------------------------------------------------------------------
(* get_open_iter: count the strikes for and against an open door. *)

\* Mutant: only the open average is looked at.
IsHigh_OpenOnly(s) ==
    s.open_average # 0 /\ s.open_average - Scaled(s.pressure) < Scaled(Rise)

IsHigh(s) ==
    \/ s.average - Scaled(s.pressure) < -Scaled(Rise)
    \/ s.open_average # 0 /\ s.open_average - Scaled(s.pressure) < Scaled(Rise)

\* Mutant: the fourth strike opens.
get_open_iter_OpensEarly(s) ==
    CASE IsHigh(s) /\ s.strikes_closed > WINDOW_SIZE - 2 -> [s EXCEPT !.is_open = TRUE]
      [] IsHigh(s) /\ s.strikes_closed <= WINDOW_SIZE - 2 -> [s EXCEPT !.strikes_closed = @ + 1]
      [] ~IsHigh(s) /\ s.strikes_closed < 1 -> [s EXCEPT !.is_open = FALSE, !.open_average = 0]
      [] ~IsHigh(s) /\ s.strikes_closed >= 1 -> [s EXCEPT !.strikes_closed = @ - 1]

get_open_iter(s) ==
    CASE IsHigh(s) /\ s.strikes_closed > WINDOW_SIZE - 1 -> [s EXCEPT !.is_open = TRUE]
      [] IsHigh(s) /\ s.strikes_closed <= WINDOW_SIZE - 1 -> [s EXCEPT !.strikes_closed = @ + 1]
      [] ~IsHigh(s) /\ s.strikes_closed < 1 -> [s EXCEPT !.is_open = FALSE, !.open_average = 0]
      [] ~IsHigh(s) /\ s.strikes_closed >= 1 -> [s EXCEPT !.strikes_closed = @ - 1]

\* Mutant: the window is not refilled.
update_open_KeepsWindow(s) == get_open_iter(MovingAverage(s))

\* The whole call: the averages, the strikes, and a fresh window on a change.
update_open(s) ==
    LET t == get_open_iter(MovingAverage(s)) IN
    [t EXCEPT !.window = IF t.is_open # s.is_open THEN Filled(s.pressure) ELSE @]
===============================================================================
