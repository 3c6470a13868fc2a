# simar-sw: a verification project

TLA+ modules, TLC configurations and TLAPS proofs about the programs in `src/`:
the services that run on a BeagleBone in a server rack, watch its environment
and its power, and switch its outlets, with the drivers and the JSON library
they are built on.

## 1. The system

Every program is a process of its own, started by systemd with `Restart=always`
(`start/services`); all of them meet in Redis (one server on the board, others
in the network) and some of them on the same SPI device.

| component | source | state | operations | interacts through |
|---|---|---|---|---|
| door-status algorithm | `main/bme.c` 39-113 | per sensor: window of 5 pressures, closed average, open average, strikes, status | `update_open`, `get_open_iter` | called by bme |
| bme service | `main/bme.c` 306-490, `bme280/common` | sensors, `past_pres`, `bme_errors`, `retries`, two Redis connections; in Redis one hash per sensor, `valid_sensors`, `last_ext_pressure` | calibration or resumption, the reading loop | Redis; restart by systemd |
| start of bme | `main/bme.c` 115-304, `i2c/common.c` | device.json, arrays of 16 sensors, multiplexer pins, `ext_addr`, `server_i` | probe of each channel and address; connection loop | I2C, SPI (extension board), Redis |
| JSON library | `utils/json/cJSON.c` | linked items, print buffers | parse, build, edit, print, minify, compare | called by bme |
| BME280 driver | `bme280/bme2.c`, `bme280/common` | the chip's registers and mode; `dev` | init, reset, settings, mode | I2C |
| SHT3x driver | `sht3x` | a measurement on the bus | measure, read, checksum, limits | I2C |
| AC board, measurement | `main/volt.c` main, `spi/common.c` | mode, word size, select pin, selected module; `spi_mutex`, `read_fails` | ADC rounds | SPI, Redis |
| AC board, outlets | `main/volt.c` `command_listener` | command byte; remote hashes `name` and `name:RB` | read commands, acknowledge, switch | SPI, remote Redis |
| AC board, mains quality | `main/volt.c` `glitch_counter`, `pru` | `glitch`, `frequency`, `duty`; the PRU's registers; two queues of messages | boot of the PRU (`start/simar_volt.sh`), kick, read, publish | rpmsg device, Redis |
| leak service | `main/leak.c` | last byte read | read, publish | SPI (no lock), Redis |
| wireless sensor | `main/wireless.c` | `sensor_number`; `simar_gia` in a local Redis; keys that expire in a remote one | choose an id, publish, go offline | remote Redis |
| fan service | `main/fan.c` | none between rounds | `get_rpm` | Redis |
| `utils`, `python`, `start` | | | prototypes, a manual check, shell scripts | |

What is hard in them:

* *Crashes and restarts.* A service is killed, loses its local Redis or ends on
  purpose (`SENSOR_FAIL`, `DB_FAIL`) between any two commands, and its successor
  resumes from what is in Redis, on the bus, in a queue of the kernel.
* *Sharing the SPI device.* spidev keeps mode and word size for all who have
  the device open; the boards remember the selected module; a mutex orders the
  two threads of volt only, and neither leak nor bme, which selects the extension
  board's channels over the same device, knows of it.
* *A hysteresis with memory.* The door status depends on averages that stop
  while it is being decided, over one window shared by two averages.
* *Transfers and readings that fail*, one of several: retries, error counters
  shared by sensors, results overwritten by the next one's, values that survive.
* *Expiring keys and remote users* (wireless ids, outlet commands), and two
  processors that count the same period by messages.
* *Memory*: linked lists whose ends are kept in unusual places, allocations that
  fail half-way, buffers of an estimated size, text without its end.

What makes each component correct: a door's status is neither flickering nor
stuck, and a restart never invents one; what is stored can always be resumed
from; a broken sensor ends the service and nothing else does; device.json is
understood, a reading reaches the sensor it is named after, while no other program
uses the bus in between; a driver's call that reports success has done what it says,
or the error it loses does no more harm than is said here; every SPI transfer of volt
finds the device as it needs it, while volt has the bus for itself; a command reaches the outlet it names, and the read-back tells the
truth; what is published as a count of a period is one; an id that is alive is
left alone; a list of items is the sequence its header promises, and no memory
is lost.

## 2. Modules

| module | models | composed of |
|---|---|---|
| `DoorStatus` | `update_open`, `get_open_iter` as operators on a sensor's record | |
| `DoorSensor` | one sensor under any sequence of pressures | `DoorStatus` |
| `DoorSensorProofs` | theorems about `DoorSensor` | `DoorSensor` |
| `BmeService` | bme's calibration, main loop, Redis contents, restarts | `DoorStatus` |
| `BmeServiceProofs` | theorems about `BmeService` | `BmeService` |
| `CJson` | cJSON's parser on a document of symbols, look-up | |
| `Sht3x` | the SHT3x driver as operators | |
| `SensorScan` | bme from its start to the readings of a round | `Sht3x` |
| `SensorScanProofs` | theorems about `SensorScan` | `SensorScan` |
| `DeviceJson` | what device.json comes to | `SensorScan`, `CJson` |
| `BmeDriver` | the BME280 driver on the chip's registers | |
| `BmeDriverProofs` | theorems about `BmeDriver` | `BmeDriver` |
| `VoltSpi` | the SPI device under volt's two threads and the leak service | |
| `VoltSpiProofs` | theorems about `VoltSpi` | `VoltSpi` |
| `VoltCommand` | the outlets: commands, acknowledgements, users, crashes of volt | |
| `VoltCommandProofs` | theorems about `VoltCommand` | `VoltCommand` |
| `PruCounter` | `glitch_counter`, the PRU's firmware, the queues between them | refines `PeriodMeter` |
| `PruCounterProofs` | theorems about `PruCounter`, with the refinement | `PruCounter` |
| `PeriodMeter` | abstract: a meter that reports counts of whole periods | |
| `WirelessSensor` | several devices, ids, leases, servers | |
| `WirelessSensorProofs` | theorems about `WirelessSensor` | `WirelessSensor` |
| `CJsonItems` | cJSON's items in memory | refines `JsonTree` |
| `JsonTree` | abstract: items with sequences of children | |
| `CJsonText` | cJSON's printer, `cJSON_Minify`, `cJSON_Compare` | `CJson` |
| `MC*` | constants for TLC, claims of the repository's notes and comments | |

**DoorStatus / DoorSensor.** A pressure is an integer number of 0.001 hPa, the
resolution at which the program stores it. An average is kept as the sum of the
window, so that there is no division and no rounding: a pressure compared with
it is multiplied by `WINDOW_SIZE`. The three thresholds (0.23, 0.08, 0.1 hPa) are
the constants `Rise`, `Near`, `Far`. Floating-point rounding is not modelled: the
program compares differences of 0.08 hPa at about 900 hPa, and a double is exact
to 1e-13 there; only a pressure exactly on a threshold could be decided
otherwise. `Init` is the state after a first calibration, `Reading` one pass of
main's loop for this sensor, `RackChanges` the door or the weather.

**BmeService.** One step is one Redis command or one sensor reading; the
commands whose effect no property tells apart (temperature, pressure, humidity)
are part of the step before or after them. `pc` names the place in `main`, `i`
and `j` its loop variables. Memory that C leaves uninitialised starts with a
value of `Garbage`; a failed `bme_read` scales the old pressure by 0.01, as the
code does. `c` and `c_remote` are the two connections: hiredis keeps an error,
so that every later reply is NULL; where the code looks into that reply the
process faults (`NullReply`), elsewhere the command is without effect. `Exit`
forgets the memory and keeps Redis; `Start` is systemd's restart. The weather
(`Drift`) moves between runs only: within a run it is slow against the readings.
`None` is a model value for what Redis does not hold.

**SensorScan / DeviceJson.** What a device.json comes to, the number of base channels
and the extension board's address, is a constant of `SensorScan`, `Configurations`, about
which its theorems assume little; `DeviceJson` says what it is, `FileConfigurations`: the
file's text is parsed with what follows it in memory, and the address is taken from it as
a byte. The run uses the latter. `ReadConfig` picks the file's configuration; `ProbeBme` and `ProbeSht`
are one address of one channel each, with the multiplexers `mux` and `ext` set on
the way, which outlive the process. A rack (`Racks`) says which device answers on
which channel; an entry remembers, as history, the device that it was found on, so
that a later reading can be compared with it. `RackAssumption` says how racks are wired: channel 3
leads to the extension board, if there is one, and nothing is where that one parks, as a
comment of the scan has it (`bme.c`:222). `Connect` is one turn of the
connection loop, `Segfault` what reading `servers` beyond its end may do (at any
index beyond it, and at `LastIndex` at the latest). In a round only the way to the
sensors and the SHT3x's values are kept: `BmeService` has the rest. `BusFails`,
`BmeSilent` and `ShtBusFails` are failing transfers, `Faults` their bound. The extension
board's channel is set by two SPI transfers, of `select_module` and of the channel, whose
results `direct_ext_mux` drops and between which leak and volt, on the same device and
without a common lock, may put theirs: `Stray` is all that can come of it, the multiplexers
staying where they are or led by another program's byte. `own` records, of an entry and of
a reading, that its way was not such a one; `Way` is either.

**CJson.** A document is a sequence of symbols: each character that the parser looks
at, and one symbol for a run of letters, a literal or four hexadecimal digits,
since cJSON treats those alike. Parsing functions are operators named as in the
code, from a buffer and an offset to the item, the offset they leave and the number
of blocks that they hold. A number is a mantissa and an exponent of ten, with the
saturated `valueint` beside it.

**CJsonItems / JsonTree.** The heap maps addresses to items with `next`, `prev`
(the last item, in a first child), `child` and names; every call takes the number of
its allocations that succeed. `strings` counts the blocks that hold names or values.
The client behaves as `cJSON.h` asks: it adds only items that it holds, and changes
no list that a reference of its own shows. A call on NULL is not modelled: it returns
at once. `JsonTree` knows sequences only; the refinement maps every item that the
client can reach to its list of children, by following `next`, and a list whose end
is lost would fail to take its next item.

**CJsonText.** A print buffer carries its text, its length and how far a write has
gone beyond it. `ensure` grows it or fails; `print_number` writes 15 digits, reads
them back and writes 17 if they differ (`Precision15`, `Precision17`). `compare_double` is the code's, with its tolerance relative to the
larger number: `InverseEpsilon` is to the instance's 2 and 3 digits what 1/`DBL_EPSILON`
is to 15 and 17. Both the printer and `cJSON_Compare` use it. `Minify` is
given what was printed with white space and comments put in, as a person would edit
device.json.

**Sht3x.** Operators from what is on the bus to what the driver returns: the
checksum bit by bit, frames of a word and its checksum, the conversions in the
integer arithmetic of the code, the alert limits with their seven and nine bits.

**BmeDriver.** A function of the driver is an operator from worlds to worlds (chip,
`dev`, luck), named as in the code; a call is one step, for only one process talks to
the sensor. The luck of a call says which of its transfers fail, whether a read goes to
the wrong register (an unfinished write leaves the pointer elsewhere) and how long a
reset takes; `lost` of a world collects the registers whose read it was. `i2c_read` and
`bme_init` lose errors as the code does. Settings of humidity take effect with the next write of the mode, as the
chip's do.

**VoltSpi.** `mode` and `bits` are the device's, `ds` the level of the pin that
routes a transfer to the board's selector, `selected` what the selector holds.
Each ioctl, pin write and transfer is a step. `pc[t]` is the place of a thread,
and `spi_mod_comm`'s seven steps are shared by all three users; `OwnMode` and
`OwnBits` are `_mode` and `_bits` of the process. The two threads of volt start
and end together; the bus outlives them. A data transfer does not change the
bus. `main`'s eight conversions are a counter, `step`. The leak service starts at
any time or never; the properties about the bus itself hold until it does (`Alone`),
for nothing protects the bus from it. Nor does anything protect it from a bme with an
extension board, a further user without the lock, which is not in this module: what it
suffers from the others is in `SensorScan`, and the same properties suppose that it is
not there.

**VoltCommand.** One step of the listener is one Redis command, the check of one
outlet or one `write_data` (whose own steps are in `VoltSpi`). A field of a hash is
`None`, 0, 1 or `Bad`, whatever else a user may write. `commands` and `rb` have two
keys: the board's own, and the one the listener uses while `main` has not filled in
`name` yet (`Unnamed`; a name half written is no user's key either). `Crash` stands
for a kill, for a lost connection, whose NULL replies the listener looks into, for an
error instead of the acknowledgements, and for `connect_remote` finding no server;
`ReplyIsError` for a reply of type error to the HMGET of the commands, a disjunct of
`ExistsName` for one to EXISTS, which is taken for a board without commands, `Refused` for
one to an HSET, which nobody looks at. `Write` may fail unnoticed, for the listener drops
`write_data`'s result. `NullReadback` is the program's own fault: a malformed command
that was never acknowledged. `failed` is history: something of this round failed unnoticed.
`asked` and `from` are history: which outlets were ever commanded on under the
board's key, and which key `reply` came from.

**PruCounter / PeriodMeter.** A count is abstracted to the time that it covers: nothing,
one period, or more; periods are named in turns, `odd` and `even`, so that an answer of the
round before is told from this one's. The kick bit, the messages for the PRU and the answers
for the host are separate, as in the hardware. The PRU settles in microseconds, the host
sleeps for milliseconds at least: `Settled` guards the ends of its sleeps. volt may end
anywhere, and the PRU goes on until `Reboot`, the start script's stop and start of
remoteproc2, which makes both queues anew; the kick bit survives it and is cleared by the
firmware's `Boot`. `OpenFails` is a volt that comes before the PRU's channel is there.

**WirelessSensor.** Each device runs `main` with one Redis command or reading a step;
a key has ticks to live and, as history, its writer. `Exit` makes the device wait
`RestartSec`. `check_alteration`'s result is taken for a truth value by `main`, so
that an accepted reading ends the service (`Accepted`); the module follows the code.
`held` remembers the keys of others that have been alive ever since a device started.
The local HSET of the id (`wireless.c`:137), whose reply nobody looks at, is supposed to
succeed.

## 3. Runs

All runs use the program's own thresholds and window size.

| run | question | bounds | result |
|---|---|---|---|
| `door` | safety of the algorithm; does the status settle, from everywhere | 3 pressures: closed, +0.09 (between `Near` and `Far`), +0.3; `MaxSince` = window | holds |
| `bme_restart` | crashes, lost connections, with a moving door; with weather of 0.05 hPa between runs behind a shut one; with failed and disturbed readings, a remote server that is down and that weather | 1 sensor in one of these three worlds; `ERROR_THRESHOLD` and `MAX_RETRIES` 1 | holds |
| `bme_errors` | sensors that break for good | 2 sensors, threshold 2, 1 retry | holds |
| `startup` | device.json, scan, multiplexers, connection loop, rounds; selections that fail or are another program's | 8 files, 3 racks, 2 faults, `servers` read up to index 4 | holds |
| `driver` | a BME280's calls in any order | one mishap per call, of every kind, at every transfer | holds |
| `volt_spi` | mutual exclusion and release; the bus while volt has it alone: no leak, and no bme with an extension board | 8 conversions, 10 forgiven failures: the program's numbers; leak | holds |
| `volt_leak` | the outlets' write, with leak | the same | **violated** |
| `volt_command` | do acknowledgements tell the truth; do things settle, and volt's own faults end | 2 outlets; crashes, refused commands and lost writes at any time | holds |
| `pru` | does glitch_counter implement a meter; does it ever hang | none but two names of periods | holds |
| `wireless` | ids, leases, servers that stop | 2 devices, 2 servers, 1 outage, lease 1 and restart 2 ticks, id 1 looked for, 3 preassigned, 4 out of range | holds |
| `json_items` | lists and memory under failing allocations | 4 addresses, 2 trees, 3 items when some have names or are references | holds |
| `json_text` | printed and read back, minified, compared | items of every type, depth 3, buffers of 14 sizes, one part in 300 for `DBL_EPSILON` | holds |

Why the bounds are enough.

* *door, bme*: the algorithm compares a pressure with averages only, so that three
  levels, one of them inside and one outside each threshold, reach every branch and
  every mix of them in the window; one sensor shows all there is of storing and
  resuming, for hashes are independent, and two sensors show the error counter, which
  they share; small thresholds only shorten the way to `SENSOR_FAIL`. `bme_restart`
  chooses one of three worlds in `Init`: a failing sensor behind a moving door would
  only multiply the two. In the second a working sensor, whose door stays shut, meets the
  weather, over restarts at any point: this is where `NoFalseOpening` says something
  about drifts that are applied twice.
* *startup*: the files have the cases that parser and scan tell apart: nothing, text
  around the boards, several boards, numbers that are no byte, text cut short, nesting
  beyond the limit (4 instead of 1000), half of a surrogate. The racks have no board, a
  board where the file says and elsewhere. Two faults let a transfer fail in a run after
  one that was cut short, or a selection go astray when a sensor is found and again when
  it is read.
* *driver*: a call forgets the one before but for the chip and `dev`, so that one
  mishap per call and any number of calls reach what several in one call would, short of
  two failures that undo each other.
* *volt_command*: the outlets are independent but for the byte that sets them all and
  the order of the checks, which two of them show.
* *pru*: the state is finite as it is, but for the names of periods, and a round leaves
  nothing that outlives the next. *wireless*: the second
  device is whoever else there is; a lease shorter than the restart is what the
  program's 5 and 10 seconds have in common with 1 and 2 ticks.
* *json_items*: three items make a list with a first, a middle and a last one, or a
  chain; the fourth is for what is added, and for references. At most one reference is
  lost at a time. Addresses are symmetric: the allocator's `CHOOSE` takes one of those
  that are free, and no state tells which.
* *json_text*: the trees hold each type alone, in an array and in an object, objects
  in two orders, with names that differ in case or not at all; precisions of 2 and 3
  digits make most numbers of the instance differ between the two formats.

Deadlock is checked in every run. The type invariants (`TypeOK` of each module) hold in
TLC too, and those of `DoorSensor`, `BmeService`, `BmeDriver`, `VoltCommand`, `PruCounter`
and `WirelessSensor` are proved; the listed properties say more, so that the runs check these.

What the violated run shows is in `PROJECT.json`, "findings": the leak service changes
the module between volt's selection and its write.

Fairness. `bme_errors` uses weak fairness of the service's next step, which is one
sequential process and its restart by systemd; `startup` likewise, with the
connection loop's turns. `door` assumes that readings go on (main's loop has no exit
while readings succeed). `volt_spi` assumes that the kernel runs each thread that can
run; the mutex is not assumed to be fair. `volt_command` assumes the same of the
listener and of `main` until it has the name, and of systemd; `Converges` supposes
that from some time on no user sends a command, nothing fails and nothing kills volt
(`Quiet`), which does not exclude that volt faults by itself (`NullReadback`), and either
that each malformed command has an acknowledged one to go back to (`Answerable`) or that
`main` fills in the name before the listener's first command (`NameInTime`): without
either, volt may fault at every start (`MCVoltFaults`). `pru` assumes that
the PRU, each of volt's threads and systemd go on, `wireless` that the devices and time
do; that servers return is not assumed, but where `BackOnline` says so.

Environment bounds: `MaxSince` caps a history counter; `Faults`, `Outages`, `MaxRoom`,
`MaxHeld` and `MaxMixed` bound what goes wrong or is held at once; `Channels`,
`MaxReadFails` are the program's numbers; `ERROR_THRESHOLD` and `MAX_RETRIES` are 5 and
10 in the program and 1 or 2 in the runs; the theorems are for any.

## 4. Further counterexamples

These configurations are not among the runs; each checks one property that a comment,
a note of `CHANGELOG.md` or the code's intent suggests and that the code does not have.
`tlc -config X.cfg M` prints the behaviour.

| configuration | module | what it shows |
|---|---|---|
| `MCDoorLock` | `MCDoorSensor` | `SettlesClosed` for a rise of 0.25 hPa: a door closed right after it was reported open spoils the first open average (four readings of 0.25 and one of 0 average 0.2), and is reported open for good, for any rise between 0.23 and 0.2875 hPa; `CHANGELOG.md`:83 has the "permanent lock" fixed |
| `MCBmeDrift` | `MCBmeService` | `NoFalseOpening` with weather of 0.1 hPa: `avg` is stored in every round before `last_ext_pressure` is (`bme.c`:445, 483), and each restart in between applies the same drift again; section 5 has the exact bound |
| `MCBmePastPres` | `MCBmeService` | `ComparedWithOwnReading`: `bme_sensors->past_pres` is the first sensor's, whatever sensor was read (`bme.c`:453) |
| `MCBmeLivelock` | `MCBmeService` | `RecoversFromInvalidReadings`: a failed reading of the first calibration leaves its slot unset (`bme.c`:350), and every later start resumes from the wrong average |
| `MCBmeHalf` | `MCBmeDriver` | `StartedAsAsked`: `bme_init` replaces the failure of setting the settings with the success of starting the sensor (`bme280/common/common.c`:56-58), which then measures with some of those asked for |
| `MCBmeLost` | `MCBmeDriver` | `CalibratedWhateverIsLost`: `i2c_read` drops the failure of writing the register's address (`i2c/common.c`:59), and the sensor is started with another register's bytes for a calibration |
| `MCScanShared` | `MCSensorScan` | `EveryReadingReachesItsDevice`: when leak or volt uses the bus between `select_module` and the transfer of the channel (`i2c/common.c`:41), the device of the channel before is read under another's name |
| `MCVoltFaults` | `MCVoltCommand` | `FaultsEnd`: with `name` filled in after the listener's first command at every start, a malformed command that was never acknowledged makes volt fault for ever (`volt.c`:143) |
| `MCVoltLost` | `MCVoltCommand` | `CommandsAreKept`: a user's command that comes between the HMGET of a malformed one and its repair (`volt.c`:131, 143) is overwritten |
| `MCVoltName` | `MCVoltCommand` | `OnlyCommandedOutlets`: the listener may run before `main` has filled in `name` (`volt.c`:242, 266), and then switches every outlet on |
| `MCJsonNames` | `MCCJsonItems` | `ObjectsAreNamed`: `cJSON_ReplaceItemInObject` does not look whether the copy of the name succeeded (`cJSON.c`:2051), and a later search with case ends at that child |
| `MCJsonDigits` | `MCCJsonText` | `PrintsBackExactly`: the comment "Check whether the original double can be recovered" (`cJSON.c`:497) is more than `compare_double` checks: 3.9999999999999996 is printed as 4, and comes back with another `valueint` |
| `MCJsonMinify` | `MCCJsonText` | `MinifyKeepsAll`: a string that ends in a backslash is taken to go on (`cJSON.c`:2440) |

## 5. Proofs

`DoorSensorProofs` proves, for every set of positive pressures, all thresholds
and every bound of `since`: the type invariant, that both averages lie within the
pressures read, that there is an open average only while the door is open, that
two changes of status are at least `WINDOW_SIZE` updates apart, that the
closed average stands still while the door is open, and that strikes are earned one
per update. The inductive invariant
`IInv` adds to these that the strikes counted since the last change are no more
than the updates since then. The proof goes through the effect of each operator
(`MovingAverageEffect`, `OpenIterEffect`, `UpdateEffect`) and never expands the
algorithm again. It rests on `ThresholdAssumption` and `PressureAssumption`.

`ReportSettles` is what `SettlesOpen` and `SettlesClosed` need besides fairness: with two
pressures, of a closed and of an open door, a reading of the open one brings the report
a reading nearer to "open" and a reading of the closed one nearer to "closed", and six
in a row make it right, whatever the door did before. `Levels` is the invariant: while the
door is reported open, the window and the open average hold at most one reading of it
closed. That reading costs the open average a fifth of the difference, so that the hypothesis, `Apart`, asks for 1.25 times `Rise`
and not for a little more than `Rise`. The factor is the program's, not the proof's: in
steps of 0.001 hPa, and with 0.23 hPa as `Rise`, TLC finds the report settling with two
pressures 0.288 hPa apart and locked with 0.287 (`MCDoorLock` has 0.25).

`BmeServiceProofs` proves, for any number of sensors, any numbers of retries and of
errors and every world, that a stored average is never without a stored status, that
`valid_sensors` lists every sensor once, and that Redis is current between two rounds.
The type invariant needs `Resumable`: at the places of a resumption the sensor at hand
has a stored average. `RestorableInv` says why the order of the two HSETs matters: before
the one of `avg` the status is there. `ListedInv` counts the list along the calibration,
from the DEL that empties it. `StoredInv` says of each sensor which of its three fields
are stored already, by the place in the round. The algorithm is
used through `UpdateType` only, which says that `update_open` keeps the types. These rest on
`BmeAssumption`; `RackAssumption`, that the weather is a realistic one, is not needed.

`ShutIsNotOpened` proves that a door which stays shut is never reported open, whatever
crashes and restarts there are, for weather that is slow enough: `SlowWeather`, the
theorem's hypothesis, bounds the spread of the outside pressure by a quarter of `Rise`
(0.057 hPa for the program's 0.23). The bound is not the proof's but the program's: a
restart between the averages' storing and that of `last_ext_pressure` applies a drift
twice, over many restarts the averages come to lag four times the spread behind, and TLC
finds the false opening at 0.060 hPa, after some sixteen restarts, and none at 0.057.
`QuietInv` says of a sensor whose readings are not disturbed and whose door was never
opened: what is stored of it is so close (`Close`) to any pressure that a later run may
find that a window filled with it and with new readings averages within `Rise` of these
(`StoredClose`, `HandInv`), and once it is calibrated the sensor is `Steady`: all its
window is that close, and no strike is counted. `SteadyUpdate` is the one fact about
the algorithm that it needs. It rests on `BmeAssumption` and `ThresholdAssumption`.

`BmeDriverProofs` proves what the driver's calls promise, for any settings, any calibration,
any number of failing transfers in a call, and any one read that went to another register.
A sensor that `bme_init` reports as started measures, always; its calibration is its own
unless the lost read was one of the calibration's or of the status before it
(`CalibrationIsItsOwn`): the code cannot tell, and `MCBmeLost` shows it. A call that reports
a failure leaves the sensor as it was or asleep, and a `bme_init` that reports success over
failed settings leaves each setting as asked for or as after a reset (`FailureIsHarmless`);
that they are all as asked for is false (`MCBmeHalf`).
Each function of the driver has a lemma that says what it makes of a world, in terms of
three conditions on the luck so far: `Told`, that no read was another register's; `Well`,
that nothing failed either; and whether it reports success. `After` orders the worlds of
one call, so that the luck of a call's end covers its parts (`Earlier`). `TwoFields` is
the arithmetic of settings that share a register, `ParseTempPress` and `ParseHumidity`
that of the calibration: words with a sign and nibbles of one register put back together
are what the sensor has (`CalibData`). The lemmas follow the calls upwards, from
`GetRegs`, `SetRegs` and `SoftReset` to `SettingsEffect`, `ModeEffect` and
`BmeInitEffect`; the invariant is then the type invariant and the two properties of
`bme_init`, since a call begins with whatever the chip has become. It rests on
`DriverAssumption`.

`SensorScanProofs` proves that a reading whose way is the service's own reaches its device
and no other, and that entries found on such a way are devices, for any rack, any
device.json, any number of failures and any number of selections that failed or were
another program's. Such a selection (`Stray`) may lead the extension board's multiplexers
to any of its channels, but only if the board is the one that the file names, so that
`Parked` stands, and the next own one leads them back: that is what the theorem says, and `MCScanShared` shows what it
cannot say, that the reading in between is right. `EntryOk`
is the heart of it: an entry's channels are those of its device, either on the base board
with the extension board out of the way (`BaseId`) or behind the extension board, and then
that one is the board device.json names (`BackId`). `Parked` is what makes the scan find
nothing else: the extension board leaves its parking channels only if it is the one that
the file names, and it survives restarts because the file does. `Selection` has the parity:
one board answers an address, and none answers 255, the address that the program starts
with. `FoundInv` follows a scan without failures: the entries are the devices at the
places `Before` the current one, one each; `NextPasses` says that the scan's order of
places misses none, `OnBusIsHere` that what answers at a place is what is there. It rests
on `RackAssumption` and on `ConfigurationAssumption`: a file has one configuration, with
an address of four bits or 255. `DeviceJsonIsUnderstood` checks the files of the run for
the rest; that what follows a file in memory makes no difference to a file that is not cut
short depends on the parser, which is model-checked only.

`EntriesHaveRoom` bounds the two arrays of the scan: `RoomInv` counts the places passed,
8 on a base board and 18 with an extension board, and at each of them one sensor is entered
at most; `OnceInv` says that no BME280 is entered twice, failures or not, unless one was
met on a way that was not the service's own, so that otherwise
`bme_sensors`, of 16, holds any rack with at most 16 BME280s. `ScanComesToItsEnd` has the
rank of the scan, `ProbesLeft`, at most 36.

The checksum is treated as what it is, a linear function: `ChecksumOfDisturbed` says that
the checksum of a disturbed word is that of the word, disturbed by a `Syndrome` that does
not depend on the word. So a disturbance is `Hidden` for all words or for none
(`ChecksumSeesDisturbances`), and none of one or two bits, of an odd number of bits or
within a byte is hidden (`ChecksumIsEffective`). `StoredValuesAreMeasured` is then
`StoredIsMeasured` for any signals, under the hypothesis that every disturbance of a word
is `Visible`. Without it the property is false, for eight bits cannot tell all
disturbances of sixteen apart; `SmallDisturbancesAreSafe` has the hypothesis in terms of
bits. These rest on `SignalAssumption`, that signals are words and disturbances bytes.
`LimitsAreReadBack` follows an alert limit through both conversions, the seven and
nine bits kept, the frame and its checksum, for every value in range, where the run's
`LimitsAreKept` has samples.

`VoltSpiProofs` proves that the two threads of volt exclude each other, for any
number of channels, with or without the leak service, and that until that service is
started every transfer finds the device as it needs it. `MutexInv`: each thread is
at a place of its own program, both are off or neither is, and a thread is at a
place that uses the bus exactly if it owns the mutex. `BusInv`: mode, word size,
select pin and selected module are those that belong to the place of the owner, and
those of `spi_open` while there is none. It needs `MutexInv`, for only the owner
changes the bus. `TypesAreKept` adds the types of the rest. `OwnersGetOn` is what the release
of the mutex needs besides fairness: `StepsToUnlock` counts what its owner still has to
do, at most `2 * Channels + 8` steps for main and 13 for the listener, a step of the owner
lessens it or frees the mutex, and no step of another thread changes it. All rest on
`VoltSpiAssumption`.

`VoltCommandProofs` proves, for any number of outlets, the type invariant and that
acknowledgements and outlets agree after every round in which nothing failed, whatever
acknowledgements and writes were lost in earlier ones. `RoundInv` follows a round
from outlet to outlet: those before `i` are in the byte and acknowledged, the others'
acknowledgements are still the ones that were read, since nobody else writes
`name:RB`, all this as long as nothing in the round has failed (`failed`); `NameStays` is why one round is over one hash. `OnlyCommandedUnderItsName`
says how far the counterexample of `MCVoltName` goes: a round over the board's own hash
switches on only what was commanded on there some time (`AskedInv`), so that an outlet
which nobody asked for is switched only by a round that began before `name` was filled
in. Both rest on `CommandAssumption`.

`PruCounterProofs` proves that glitch_counter, the firmware, the two queues and the script
implement `PeriodMeter`, over any kills and restarts. `PeriodInv` is one invariant for all of
it: `At` says, for each place of the host, where the PRU may be and exactly which answers
wait; `Lockstep`, that this holds for the place the host is at, or for one that it was at when
it ended; `ReadInv`, that what was read is this round's and what is stored covers a period.
A step of the PRU keeps every `At(p)` (`PruKeepsPlace`), which is why the host may end at any
moment; a step of the host goes from one place to the next (`GlitchCounterKeeps`), and the
script leads back to the first (`StartKeeps`). `NobodyWaitsForever` says that the host and
the PRU never wait for each other, and follows from `At`. No assumption is needed. The proof
shows what the reboot is for: without it (`Reboot_Running`) a kill between the two kicks
leaves a PRU that ends its next count with the first kick of a round, and every period from
then on is the wrong one.

`WirelessSensorProofs` proves four properties, for any devices, servers, ids and numbers of
outages. `SafeInv` follows a device from the server that it chose to the id: what it
has found free was not kept alive by others ever since. `TimeInv` follows the leases: a
device that is down has no key alive that outlasts its wait, so that one which is starting
has none; this is where `Lease < RestartSec` of `WirelessAssumption` is needed, which the
program's 5 and 10 seconds satisfy. Two devices that look for an id at the same time
may take the same one: nothing in the code prevents it, and nothing here says that it does.

Only model-checked: everything about `DeviceJson`, `CJson`, `CJsonItems` and `CJsonText`,
whose recursive operators are out of the prover's reach (with `JsonTree`'s refinement);
and all liveness under fairness, which is out of the prover's reach as well: that the
outlets settle (`Converges`), that the mutex is released, that the door status settles,
that the service recovers and starts, that counts keep coming and devices come back. Of
some of these the part without fairness is proved: `OwnersGetOn`, `ReportSettles`,
`ScanComesToItsEnd`, `NobodyWaitsForever`.

## 6. Not modelled, and the plan

Left out, with the reason:

* `utils` but for cJSON, and `python`: prototypes and examples that no service uses;
  the shell scripts but for the PRU's restart: sequential.
* `fan.c`: one process without state between rounds, a count and a floating-point
  quotient.
* Formatting and logging, delays, the floating-point formulae of the BME280's
  compensation and of volt's measurements, register access through `/dev/mem`.
* Of cJSON: `cJSON_InitHooks` (one allocator is assumed), `cJSON_SetValuestring` and
  `cJSON_SetNumberHelper` (they change a value and no list), infinities and NaN, the text
  of string references, which may dangle.
* The ends of the arrays `bme_sensors[16]` and `sht_sensors[16]`: with an extension board
  the scan may find up to 18 sensors (`EntriesHaveRoom`), and what lies behind them is not
  modelled.

Next: a composition of `BmeDriver` with `SensorScan`, whose probes are single steps now;
`connect_remote`'s loop over the servers; of `CJsonItems`, lemmas about the lists that do
not depend on their length.
