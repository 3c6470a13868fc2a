----------------------------- MODULE MCBmeService -----------------------------
(* BmeService for TLC, and what the repository's notes say of the service. *)
EXTENDS BmeService

\* Nothing happens.
Calm == [ext |-> {0}, faulty |-> {}, flaky |-> {}, doors |-> {}, remote_fails |-> FALSE]

\* The sensor works and its door moves; it works behind a shut door, while the weather
\* changes between two runs; or any reading may fail, and so may the remote server.
Restarts ==
    {[Calm EXCEPT !.doors = {1}],
     [Calm EXCEPT !.ext = {0, 50}],
     [Calm EXCEPT !.ext = {0, 50}, !.flaky = {1}, !.remote_fails = TRUE]}

BothBreak   == {[Calm EXCEPT !.faulty = {1, 2}]}
SecondMoves == {[Calm EXCEPT !.doors = {2}]}
FirstFails  == {[Calm EXCEPT !.flaky = {1}]}
Drifting    == {[Calm EXCEPT !.ext = {0, 100}]}

\* "Checks if the alteration in pressure over one measurement is realistic"
\* (bme280/common/common.h): a sensor's reading is compared with its last one.
ComparedWithOwnReading ==
    \A s \in Sensor : pc = "read" /\ accepted[s] # None => past_pres[s] = accepted[s]

AnyReadingFails ==
    FirstReadingFails \/ Retry \/ (Reject /\ sensor'[i].pressure # Rack(i))

\* "Fixes deadlock for invalid sensor readings on calibration" (CHANGELOG.md,
\* 1.6.1): once nothing fails any more, the service stays in its main loop.
RecoversFromInvalidReadings ==
    <>[](exit # "killed") /\ <>[][~LoseConnection /\ ~AnyReadingFails]_vars => <>[]MainLoop
===============================================================================
