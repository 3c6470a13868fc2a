------------------------------ MODULE MCBmeDriver ------------------------------
(* BmeDriver for TLC: one mishap per call, of every kind and at every transfer. *)
EXTENDS BmeDriver

Settings(p, t, h, f, s) == [osr_p |-> p, osr_t |-> t, osr_h |-> h, filter |-> f, standby_time |-> s]

\* Every field differs from what a reset leaves.
TheDesired == {Settings(5, 3, 3, 4, 2)}
TheSelections == {{"osr_h"}, {"osr_p"}, {"osr_t", "filter"}, {"standby_time"}, Setting}
TheTrims == {[dig_t1 |-> 65535, dig_p2 |-> -2, dig_h4 |-> -1, dig_h5 |-> 2047]}

Mishap(errors, lost, junk, busy) == [errors |-> errors, lost |-> lost, junk |-> junk, busy |-> busy]

\* No call makes more than 18 transfers, or 23 with a reset that takes long.
TheLuck ==
    {Mishap({}, 0, 0, b) : b \in {0, 5, 6}}
        \cup {Mishap({k}, 0, 0, 0) : k \in 1..18} \cup {Mishap({k}, 0, 0, 1) : k \in 3..5}
        \cup {Mishap(1..5, 0, 0, 0)}
        \cup {Mishap({}, k, 255, 0) : k \in {1, 3, 4, 5, 7}}

\* What one would like to hold of a sensor that bme_init reports as started, and
\* does not.  The settings it measures with are those asked for: the failure of
\* setting them is replaced with the success of setting the mode
\* (bme280/common/common.c:56-58).
StartedAsAsked ==
    call.name = "bme_init" /\ ready /\ call.lost = {} =>
        \A s \in Setting \ {"standby_time"} : InForce(chip)[s] = dev.settings[s]

\* And its calibration is its own, whatever register a read got instead of the one
\* asked for (i2c/common.c:58-61).
CalibratedWhateverIsLost == call.name = "bme_init" /\ ready => dev.calib_data = chip.trim
===============================================================================
