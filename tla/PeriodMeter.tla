------------------------------ MODULE PeriodMeter ------------------------------
(***************************************************************************)
(* What the glitch counter of src/main/volt.c promises: a meter that is    *)
(* armed, waits for one whole period and reports the count of this very    *)
(* period, never an older one's.  Stopped at any time, it begins anew.     *)
(***************************************************************************)

CONSTANTS
    Rounds,     \* names of periods
    Nothing     \* no report yet

VARIABLES
    armed,      \* a period is being waited for
    round,      \* the last one waited for
    report      \* what was reported last

meterVars == <<armed, round, report>>

MeterInit == armed = FALSE /\ round \in Rounds /\ report = Nothing

Arm == ~armed /\ armed' = TRUE /\ round' \in Rounds \ {round} /\ UNCHANGED report

Report == armed /\ armed' = FALSE /\ report' = round /\ UNCHANGED round

\* Stopped, while armed or not: what was reported is forgotten.
Stop == armed' = FALSE /\ report' = Nothing /\ UNCHANGED round

MeterNext == Arm \/ Report \/ Stop

MeterSpec == MeterInit /\ [][MeterNext]_meterVars
===============================================================================
