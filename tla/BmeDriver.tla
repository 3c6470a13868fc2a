------------------------------- MODULE BmeDriver -------------------------------
(***************************************************************************)
(* Bosch's BME280 driver (src/bme280/bme2.c) and what the program builds   *)
(* on it (bme_init of src/bme280/common/common.c), with one sensor on a    *)
(* bus any transfer of which may fail.  Only the process at hand talks to  *)
(* the sensor, so that a call is one step; a call is made of               *)
(* transfers, and which of them fail is chosen with the call.  A function  *)
(* of the driver is an operator from worlds to worlds, named like it.      *)
(***************************************************************************)
EXTENDS Integers, Sequences

CONSTANTS
    Trims,      \* the calibrations a sensor may leave the factory with
    ChipIds,    \* what the sensor's chip id register may hold
    Desired,    \* settings a caller may ask for, dev->settings
    Selections, \* sets of settings a caller may want to change
    Luck        \* what may go wrong in a call

BME280_OK == 0
BME280_E_DEV_NOT_FOUND == -2
BME280_E_COMM_FAIL == -4
BME280_E_NVM_COPY_FAILED == -6
BME280_W_INVALID_OSR_MACRO == 1
BME280_CHIP_ID == 96
BMP280_CHIP_ID == 88
Sleep == 0
Forced == 1
Normal == 3

Setting == {"osr_p", "osr_t", "osr_h", "filter", "standby_time"}
Byte == 0..255
Unsigned(size) == {x \in Int : 0 <= x /\ x < size}
TwosComplement(size) == {x \in Int : -size <= 2 * x /\ 2 * x < size}
Trim == [dig_t1 : Unsigned(65536), dig_p2 : TwosComplement(65536),
         dig_h4 : TwosComplement(4096), dig_h5 : TwosComplement(4096)]

\* A call's luck: the numbers of its transfers that fail; the number of the
\* transfer (0: none) whose register pointer is lost, if it is a read, with what is
\* read instead; how many status reads after a reset still find it unfinished.
ASSUME DriverAssumption ==
    /\ Desired \subseteq [Setting -> 0..7] /\ Selections \subseteq SUBSET Setting
    /\ \A l \in Luck : l.errors \subseteq Nat /\ l.lost \in Nat /\ l.junk \in Byte /\ l.busy \in Nat
    /\ ChipIds \subseteq Byte /\ Trims \subseteq Trim

VARIABLES
    chip,       \* the sensor: its registers, and what tells it from another one
    dev,        \* struct bme280_dev: chip_id, settings, calib_data
    ready,      \* the last bme_init returned BME280_OK
    call        \* the last call, its result, whether a transfer failed in it, and
                \* the registers of which it read another one instead

vars == <<chip, dev, ready, call>>

-------------------------------------------------------------------------------
(* Bits and bytes. *)

\* BME280_SET_BITS and BME280_GET_BITS, for a field of size values whose lowest
\* bit is worth unit.
SetBits(reg, unit, size, data) ==
    (reg \div (unit * size)) * (unit * size) + (data % size) * unit + (reg % unit)
GetBits(reg, unit, size) == (reg \div unit) % size

\* The two's complement of one of size values.
Signed(x, size) == IF 2 * x >= size THEN x - size ELSE x
BME280_CONCAT_BYTES(msb, lsb) == 256 * msb + lsb
Low(x)  == x % 256
High(x) == (x \div 256) % 256

Mode(ctrl_meas) == GetBits(ctrl_meas, 1, 4)

parse_device_settings(bytes) ==
    [osr_h |-> GetBits(bytes[0], 1, 8), osr_p |-> GetBits(bytes[2], 4, 8),
     osr_t |-> GetBits(bytes[2], 32, 8), filter |-> GetBits(bytes[3], 4, 8),
     standby_time |-> GetBits(bytes[3], 32, 8)]

parse_temp_press_calib_data(bytes, calib) ==
    [dig_t1 |-> BME280_CONCAT_BYTES(bytes[1], bytes[0]),
     dig_p2 |-> Signed(BME280_CONCAT_BYTES(bytes[9], bytes[8]), 65536),
     dig_h4 |-> calib.dig_h4, dig_h5 |-> calib.dig_h5]

\* The low nibble of byte 4 belongs to dig_h4, its high nibble to dig_h5.
parse_humidity_calib_data(bytes, calib) ==
    [dig_t1 |-> calib.dig_t1, dig_p2 |-> calib.dig_p2,
     dig_h4 |-> Signed(bytes[3], 256) * 16 + (bytes[4] % 16),
     dig_h5 |-> Signed(bytes[5], 256) * 16 + (bytes[4] \div 16)]

-------------------------------------------------------------------------------
(* The sensor, as its data sheet and the driver's comments have it:        *)
(* ctrl_hum takes effect, as osr_h, with a write to ctrl_meas, and config  *)
(* cannot be written while the sensor measures.                            *)

\* The bytes from a register on.
Contents(c, reg) ==
    CASE reg = "CHIP_ID"   -> [b \in {0} |-> c.id]
      [] reg = "CTRL_HUM"  -> [b \in 0..3 |-> <<c.ctrl_hum, 0, c.ctrl_meas, c.config>>[b + 1]]
      [] reg = "CTRL_MEAS" -> [b \in {0} |-> c.ctrl_meas]
      [] reg = "CONFIG"    -> [b \in {0} |-> c.config]
      [] reg = "TEMP_PRESS_CALIB" ->
            [b \in 0..25 |-> CASE b = 0 -> Low(c.trim.dig_t1) [] b = 1 -> High(c.trim.dig_t1)
                               [] b = 8 -> Low(c.trim.dig_p2) [] b = 9 -> High(c.trim.dig_p2)
                               [] OTHER -> 0]
      [] reg = "HUMIDITY_CALIB" ->
            [b \in 0..6 |-> CASE b = 3 -> Low(c.trim.dig_h4 \div 16)
                              [] b = 4 -> (c.trim.dig_h5 % 16) * 16 + (c.trim.dig_h4 % 16)
                              [] b = 5 -> Low(c.trim.dig_h5 \div 16) [] OTHER -> 0]

WithRegisters(c, hum, meas, config, osr_h) ==
    [c EXCEPT !.ctrl_hum = hum, !.ctrl_meas = meas, !.config = config, !.osr_h = osr_h]

Reset(c) == WithRegisters(c, 0, 0, 0, 0)

Written(c, reg, byte) ==
    CASE reg = "RESET"     -> Reset(c)
      [] reg = "CTRL_HUM"  -> [c EXCEPT !.ctrl_hum = byte]
      [] reg = "CTRL_MEAS" -> [c EXCEPT !.ctrl_meas = byte, !.osr_h = c.ctrl_hum]
      [] reg = "CONFIG"    -> IF Mode(c.ctrl_meas) = Sleep THEN [c EXCEPT !.config = byte] ELSE c

-------------------------------------------------------------------------------
(* Transfers.  A world w is what a call has to work with: the sensor, the  *)
(* device structure, the last result and the bytes last read, the number   *)
(* of transfers made so far, the registers whose pointer was lost in a     *)
(* read, and the luck of the call.                                         *)

World(luck, d) ==
    [chip |-> chip, dev |-> d, rslt |-> BME280_OK,
     bytes |-> <<>>, n |-> 0, lost |-> {}, luck |-> luck]

Then(w, Op(_)) == IF w.rslt = BME280_OK THEN Op(w) ELSE w

Outcome(w) == IF w.n + 1 \in w.luck.errors THEN BME280_E_COMM_FAIL ELSE BME280_OK

\* The registers lost, with reg if its pointer is lost in one of the next k transfers.
Lost(w, k, reg) == IF w.luck.lost \in (w.n + 1)..(w.n + k) THEN w.lost \cup {reg} ELSE w.lost

\* i2c_read sends the register's address without looking at the result: the
\* bytes may be another register's.
bme280_get_regs(w, reg) ==
    [w EXCEPT !.n = w.n + 1, !.rslt = Outcome(w), !.lost = Lost(w, 1, reg),
              !.bytes = IF Outcome(w) # BME280_OK THEN @
                        ELSE IF w.n + 1 = w.luck.lost THEN [b \in 0..25 |-> w.luck.junk]
                        ELSE Contents(w.chip, reg)]

bme280_set_regs(w, reg, byte) ==
    [w EXCEPT !.n = w.n + 1, !.rslt = Outcome(w),
              !.chip = IF Outcome(w) = BME280_OK THEN Written(@, reg, byte) ELSE @]

-------------------------------------------------------------------------------
(* The driver. *)

\* The k-th status read: it fails, or it finds the reset unfinished.  The loop
\* ends with the sixth, and a failed read leaves what the one before it found.
bme280_soft_reset(w) ==
    LET sent == bme280_set_regs(w, "RESET", 182)
        Fails(k) == sent.n + k \in w.luck.errors
        Updating(k) == IF sent.n + k = w.luck.lost THEN w.luck.junk % 2 = 1 ELSE k <= w.luck.busy
        last == CHOOSE k \in 1..6 : /\ k = 6 \/ Fails(k) \/ ~Updating(k)
                                    /\ \A m \in 1..(k - 1) : ~Fails(m) /\ Updating(m)
        im_update == IF Fails(last) THEN last > 1 ELSE Updating(last)
    IN  IF sent.rslt # BME280_OK THEN sent
        ELSE [sent EXCEPT !.n = @ + last, !.lost = Lost(sent, last, "STATUS"),
                          !.rslt = IF im_update THEN BME280_E_NVM_COPY_FAILED
                                   ELSE IF Fails(last) THEN BME280_E_COMM_FAIL ELSE BME280_OK]

\* Mutant: the result of the second read is not looked at.
get_calib_data_HalfChecked(w) ==
    Then(bme280_get_regs(w, "TEMP_PRESS_CALIB"), LAMBDA tp :
        LET half == [tp EXCEPT !.dev.calib_data = parse_temp_press_calib_data(tp.bytes, tp.dev.calib_data)]
            h == bme280_get_regs(half, "HUMIDITY_CALIB")
        IN  IF h.rslt = BME280_OK
            THEN [h EXCEPT !.dev.calib_data = parse_humidity_calib_data(h.bytes, h.dev.calib_data)]
            ELSE half)

get_calib_data(w) ==
    Then(bme280_get_regs(w, "TEMP_PRESS_CALIB"), LAMBDA tp :
        LET half == [tp EXCEPT !.dev.calib_data = parse_temp_press_calib_data(tp.bytes, tp.dev.calib_data)]
        IN  Then(bme280_get_regs(half, "HUMIDITY_CALIB"), LAMBDA h :
                [h EXCEPT !.dev.calib_data = parse_humidity_calib_data(h.bytes, h.dev.calib_data)]))

\* Five tries to read the id of one of the two chips the driver knows.
bme280_init(w) ==
    LET Id(k) == IF w.n + k = w.luck.lost THEN w.luck.junk ELSE w.chip.id
        known == {k \in 1..5 : w.n + k \notin w.luck.errors /\ Id(k) \in {BME280_CHIP_ID, BMP280_CHIP_ID}}
        first == CHOOSE k \in known : \A m \in known : k <= m
    IN  IF known = {}
        THEN [w EXCEPT !.n = @ + 5, !.lost = Lost(w, 5, "CHIP_ID"), !.rslt = BME280_E_DEV_NOT_FOUND]
        ELSE Then(bme280_soft_reset([w EXCEPT !.n = @ + first, !.lost = Lost(w, first, "CHIP_ID"),
                                              !.dev.chip_id = Id(first)]),
                  get_calib_data)

set_osr_humidity_settings(w, settings) ==
    Then(bme280_set_regs(w, "CTRL_HUM", settings.osr_h % 8), LAMBDA v :
        Then(bme280_get_regs(v, "CTRL_MEAS"), LAMBDA u :
            bme280_set_regs(u, "CTRL_MEAS", u.bytes[0])))

\* A register's byte with a setting filled in, if it is among the desired ones.
Fill(desired, setting, reg, unit, data) ==
    IF setting \in desired THEN SetBits(reg, unit, 8, data) ELSE reg

set_osr_press_temp_settings(w, desired, settings) ==
    Then(bme280_get_regs(w, "CTRL_MEAS"), LAMBDA v :
        LET p == Fill(desired, "osr_p", v.bytes[0], 4, settings.osr_p)
            t == Fill(desired, "osr_t", p, 32, settings.osr_t)
        IN  bme280_set_regs(v, "CTRL_MEAS", t))

\* The second result replaces the first.
set_osr_settings(w, desired, settings) ==
    LET h == IF "osr_h" \in desired THEN set_osr_humidity_settings(w, settings)
             ELSE [w EXCEPT !.rslt = BME280_W_INVALID_OSR_MACRO]
    IN  IF desired \cap {"osr_p", "osr_t"} # {}
        THEN set_osr_press_temp_settings(h, desired, settings) ELSE h

\* Mutant: one selection bit stands for both fields.
set_filter_standby_settings_Both(w, desired, settings) ==
    Then(bme280_get_regs(w, "CONFIG"), LAMBDA v :
        bme280_set_regs(v, "CONFIG",
            SetBits(SetBits(v.bytes[0], 4, 8, settings.filter), 32, 8, settings.standby_time)))

set_filter_standby_settings(w, desired, settings) ==
    Then(bme280_get_regs(w, "CONFIG"), LAMBDA v :
        LET f == Fill(desired, "filter", v.bytes[0], 4, settings.filter)
            s == Fill(desired, "standby_time", f, 32, settings.standby_time)
        IN  bme280_set_regs(v, "CONFIG", s))

\* Mutant: only the oversampling is put back after the reset.
reload_device_settings_NoFilter(w, settings) == set_osr_settings(w, Setting, settings)

reload_device_settings(w, settings) ==
    Then(set_osr_settings(w, Setting, settings), LAMBDA v :
        set_filter_standby_settings(v, Setting, settings))

put_device_to_sleep(w) ==
    Then(bme280_get_regs(w, "CTRL_HUM"), LAMBDA v :
        Then(bme280_soft_reset(v), LAMBDA u :
            reload_device_settings(u, parse_device_settings(v.bytes))))

\* A sensor that measures is put to sleep first.
Asleep(w) ==
    Then(bme280_get_regs(w, "CTRL_MEAS"), LAMBDA v :
        IF Mode(v.bytes[0]) # Sleep THEN put_device_to_sleep(v) ELSE v)

\* Mutant: a sensor that measures is not put to sleep first.
bme280_set_sensor_settings_Awake(w, desired) ==
    LET o == IF desired \cap {"osr_p", "osr_t", "osr_h"} # {}
             THEN set_osr_settings(w, desired, w.dev.settings) ELSE w
    IN  IF desired \cap {"filter", "standby_time"} # {}
        THEN Then(o, LAMBDA u : set_filter_standby_settings(u, desired, u.dev.settings)) ELSE o

bme280_set_sensor_settings(w, desired) ==
    Then(Asleep(w), LAMBDA v :
        LET o == IF desired \cap {"osr_p", "osr_t", "osr_h"} # {}
                 THEN set_osr_settings(v, desired, v.dev.settings) ELSE v
        IN  IF desired \cap {"filter", "standby_time"} # {}
            THEN Then(o, LAMBDA u : set_filter_standby_settings(u, desired, u.dev.settings)) ELSE o)

write_power_mode(w, mode) ==
    Then(bme280_get_regs(w, "CTRL_MEAS"), LAMBDA v :
        bme280_set_regs(v, "CTRL_MEAS", SetBits(v.bytes[0], 1, 4, mode)))

bme280_set_sensor_mode(w, mode) == Then(Asleep(w), LAMBDA v : write_power_mode(v, mode))

-------------------------------------------------------------------------------
(* What the program calls. *)

\* Mutant: the mode is set before the settings.
bme_init_ModeFirst(w) ==
    Then(bme280_init(w), LAMBDA v :
        bme280_set_sensor_settings([bme280_set_sensor_mode(v, Normal) EXCEPT !.rslt = BME280_OK],
                                   Setting \ {"standby_time"}))

\* The result of setting the settings is replaced with that of setting the mode.
bme_init(w) ==
    Then(bme280_init(w), LAMBDA v :
        bme280_set_sensor_mode([bme280_set_sensor_settings(v, Setting \ {"standby_time"})
                                EXCEPT !.rslt = BME280_OK], Normal))

-------------------------------------------------------------------------------
Uncalibrated == [dig_t1 |-> 0, dig_p2 |-> 0, dig_h4 |-> 0, dig_h5 |-> 0]

Init ==
    /\ \E id \in ChipIds, trim \in Trims :
        chip = [id |-> id, trim |-> trim, ctrl_hum |-> 0, ctrl_meas |-> 0, config |-> 0, osr_h |-> 0]
    /\ \E settings \in Desired :
        dev = [chip_id |-> 0, settings |-> settings, calib_data |-> Uncalibrated]
    /\ ready = FALSE
    /\ call = [name |-> "none", arg |-> {}, rslt |-> BME280_OK, failed |-> FALSE, lost |-> {}]

\* The call of that name has made of the world what w says.
Returns(name, arg, w) ==
    /\ chip' = w.chip /\ dev' = w.dev
    /\ call' = [name |-> name, arg |-> arg, rslt |-> w.rslt,
                failed |-> w.luck.errors \cap 1..w.n # {} \/ w.luck.busy > 5,
                lost |-> w.lost]

InitCall ==
    \E luck \in Luck :
        /\ Returns("bme_init", {}, bme_init(World(luck, dev)))
        /\ ready' = (call'.rslt = BME280_OK)

SettingsCall ==
    \E luck \in Luck, settings \in Desired, desired \in Selections :
        /\ ready
        /\ Returns("set_settings", desired,
                   bme280_set_sensor_settings(World(luck, [dev EXCEPT !.settings = settings]), desired))
        /\ UNCHANGED ready

ModeCall ==
    \E luck \in Luck, mode \in {Sleep, Forced, Normal} :
        /\ ready
        /\ Returns("set_mode", {mode}, bme280_set_sensor_mode(World(luck, dev), mode))
        /\ UNCHANGED ready

\* A forced measurement is over: the sensor goes back to sleep by itself.
ForcedDone ==
    /\ Mode(chip.ctrl_meas) \in {1, 2}
    /\ chip' = [chip EXCEPT !.ctrl_meas = SetBits(@, 1, 4, Sleep)]
    /\ call' = [call EXCEPT !.name = "none"]
    /\ UNCHANGED <<dev, ready>>

\* The sensor loses its supply for a moment.
PowerLost ==
    /\ chip # Reset(chip)
    /\ chip' = Reset(chip)
    /\ call' = [call EXCEPT !.name = "none"]
    /\ UNCHANGED <<dev, ready>>

Next == InitCall \/ SettingsCall \/ ModeCall \/ ForcedDone \/ PowerLost

Spec == Init /\ [][Next]_vars

-------------------------------------------------------------------------------
TypeOK ==
    /\ chip \in [id : Byte, trim : Trim, ctrl_hum : 0..7, ctrl_meas : Byte, config : Byte, osr_h : 0..7]
    /\ dev \in [chip_id : Byte, settings : [Setting -> 0..7], calib_data : Trim]
    /\ ready \in BOOLEAN
    /\ call.rslt \in {BME280_OK, BME280_E_DEV_NOT_FOUND, BME280_E_COMM_FAIL,
                      BME280_E_NVM_COPY_FAILED, BME280_W_INVALID_OSR_MACRO}

\* The settings the sensor measures with.
InForce(c) ==
    [osr_h |-> c.osr_h, osr_p |-> GetBits(c.ctrl_meas, 4, 8), osr_t |-> GetBits(c.ctrl_meas, 32, 8),
     filter |-> GetBits(c.config, 4, 8), standby_time |-> GetBits(c.config, 32, 8)]

\* Started without a mishap, a known sensor measures with the settings asked
\* for: reset, calibration, settings and mode come in an order that leaves none
\* of them undone (bme_init, bme280/common/common.c).
InitConfigures ==
    call.name = "bme_init" /\ ~call.failed /\ call.lost = {}
        /\ chip.id \in {BME280_CHIP_ID, BMP280_CHIP_ID} =>
        /\ ready /\ Mode(chip.ctrl_meas) = Normal
        /\ \A s \in Setting \ {"standby_time"} : InForce(chip)[s] = dev.settings[s]

\* However bme_init succeeded, the sensor measures; and its own calibration is
\* what its readings are going to be compensated with (get_calib_data), even if
\* transfers failed or other reads got another register's bytes, but not if those
\* of the calibration did, or of the status that says it may be read: nothing in
\* the code notices that (i2c_read).
StartedSensorIsCalibrated ==
    call.name = "bme_init" /\ ready =>
        /\ Mode(chip.ctrl_meas) = Normal
        /\ call.lost \cap {"STATUS", "TEMP_PRESS_CALIB", "HUMIDITY_CALIB"} = {} =>
                dev.calib_data = chip.trim

\* A setting is as it was; a humidity's oversampling written before without taking
\* effect may have taken it.
Kept(s) ==
    InForce(chip')[s] = InForce(chip)[s] \/ (s = "osr_h" /\ chip'.osr_h = chip.ctrl_hum)

\* Setting some settings, and the reset and reload it takes on a sensor that
\* measures, change these and no others, unless an error is reported.  The
\* humidity's oversampling is left out where a transfer failed: set_osr_settings
\* loses that error.
SelectedSettingsAreSet ==
    [][call'.name = "set_settings" /\ call'.rslt = BME280_OK /\ call'.lost = {} =>
        \A s \in Setting \ (IF call'.failed THEN {"osr_h"} ELSE {}) :
            IF s \in call'.arg THEN InForce(chip')[s] = dev'.settings[s] ELSE Kept(s)]_vars

\* Changing the mode keeps the settings over the reset in between, unless an
\* error is reported (put_device_to_sleep, reload_device_settings).
ModeKeepsSettings ==
    [][call'.name = "set_mode" /\ call'.rslt = BME280_OK /\ call'.lost = {} =>
        /\ {Mode(chip'.ctrl_meas)} = call'.arg
        /\ \A s \in Setting \ (IF call'.failed THEN {"osr_h"} ELSE {}) : Kept(s)]_vars

\* A call that reports that it failed half-way leaves the sensor as it was or
\* asleep.  bme_init loses the failure of setting the settings and starts the
\* sensor all the same, half configured: each setting is then the one asked for or
\* the one a reset leaves, never one from before or a mixture of their bits.
NeverHalfMeasuring ==
    [][call'.name # "none" /\ call'.lost = {} =>
        IF call'.rslt # BME280_OK THEN chip' = chip \/ Mode(chip'.ctrl_meas) = Sleep
        ELSE call'.name = "bme_init" =>
            \A s \in Setting : InForce(chip')[s] \in {dev'.settings[s], InForce(Reset(chip'))[s]}]_vars
===============================================================================
