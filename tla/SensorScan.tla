------------------------------- MODULE SensorScan -------------------------------
(***************************************************************************)
(* The start of the bme service, src/main/bme.c up to its main loop: what  *)
(* device.json comes to (module DeviceJson), the scan of the base board    *)
(* and of the extension board over two multiplexers, and the loop that     *)
(* connects to Redis; then rounds of readings, of which only the way to    *)
(* the sensors and the SHT3x's values are kept (module BmeService has the  *)
(* rest).  Multiplexers outlive the process, as does what is on the bus.   *)
(* The extension board is on the SPI bus, which the services leak and volt *)
(* use too, without a lock: a selection may come to nothing or be theirs.  *)
(***************************************************************************)
EXTENDS FiniteSets, Sht3x

CONSTANTS
    Files,          \* what device.json may be
    Configurations, \* what that comes to: file, iface_board_len and ext_addr
    Racks,          \* what is on the bus: board, the address set on the extension
                    \* board or 0 for none, and devices, each with its channel, the
                    \* channel behind the extension board and its address
    Signals,        \* what an SHT3x measures: two words
    Noise,          \* disturbances of a measurement: masks of six bytes
    Faults,         \* bound: failures and crashes
    LastIndex       \* bound: an index into servers at which reading it is a segmentation fault

None == -1

VARIABLES
    pc, file,
    iface_board_len, ext_addr,
    i, k,           \* the scan's place: loop variable, second address
    extension,      \* the scan is at the extension board
    pins, fd,       \* pins_configured; the file descriptors, by address
    bmes, shts,     \* bme_sensors and sht_sensors
    server_i, n,
    mux, ext,       \* where the multiplexers lead
    board, devices, \* the rack
    local,          \* the local Redis answers
    data,           \* history: the SHT3x values just stored, and what was measured
    reached,        \* history: the device wanted and the devices reached last, and
                    \* whether the way to it was the service's own, then and at the scan
    faults, clean   \* how many so far; none in this run

config  == <<iface_board_len, ext_addr>>
place   == <<i, k, extension>>
bus     == <<pins, fd>>
found   == <<bmes, shts>>
outside == <<file, board, devices, local>>
history == <<data, reached>>
vars == <<pc, config, place, bus, found, server_i, n, mux, ext, outside, history, faults, clean>>

PRIM == 118     \* 0x76
SEC  == 119
DFLT == 68      \* 0x44
ALT  == 69
BmeAddresses == {PRIM, SEC}
Addresses == BmeAddresses \cup {DFLT, ALT}

DefaultLen == 4     \* iface_board_len
ExtEnd     == 8     \* EXT_BOARD_I2C_LEN + 2
Channels   == {1, 2, 3, 4, 8, 12}   \* of the extension board, those that park it apart

\* Only channel 3 leads to the extension board, and nothing is where that parks.
ASSUME RackAssumption ==
    \A rack \in Racks :
        /\ rack.board \in 0..15
        /\ rack.devices \subseteq [mux : 0..3, ext : {0} \cup Channels, address : Addresses]
        /\ \A d \in rack.devices : (d.ext # 0) <=> (d.mux = 3 /\ rack.board # 0)

\* Module DeviceJson has device.json: other addresses are refused (set_ext_addr), and
\* what follows the text in memory makes no difference, unless it should happen to
\* complete a file that is cut short.
ASSUME ConfigurationAssumption ==
    \A c \in Configurations :
        /\ c.iface_board_len \in {3, DefaultLen} /\ c.ext_addr \in 1..15 \cup {255}
        /\ \A d \in Configurations : c.file = d.file => c = d

\* Two words of 16 bits; a mask for the two words with their checksums.
ASSUME SignalAssumption ==
    Signals \subseteq Word \X Word /\ Noise \subseteq [1..6 -> Byte]

-------------------------------------------------------------------------------
(* The boards. *)

\* Of a byte: bit b of it is what is left of x \div 2^b, modulo 2.
calculate_parity(x) ==
    (x + (x \div 2) + (x \div 4) + (x \div 8) + (x \div 16) + (x \div 32) + (x \div 64)
        + (x \div 128)) % 2

\* select_module: one byte, of the parity, the address and the module.  The parity
\* of an address that takes more than four bits, 255, is zero.
Message(address, module) == ((calculate_parity(address) * 16 + address) * 8 + module) % 256

\* The boards compare address and parity.
Selects(message, address) == message \div 8 = calculate_parity(address) * 16 + address

\* direct_ext_mux: where the multiplexers of the extension board lead then.
direct_ext_mux(id, at) == IF board # 0 /\ Selects(Message(ext_addr, 2), board) THEN id ELSE at

\* direct_mux sets the two pins; direct_ext_mux follows when there is a channel.
Direct(id) ==
    /\ mux' = id.mux
    /\ ext' = IF id.ext = None THEN ext ELSE direct_ext_mux(id.ext, ext)

\* direct_ext_mux is select_module and a transfer, and drops what both return.  When
\* one fails, or leak's or volt's selection comes between them, the multiplexers stay;
\* when a byte of theirs follows, it is the one that directs them (leak.c:81).
Stray(id) ==
    /\ id.ext # None /\ mux' = id.mux
    /\ ext' \in {ext} \cup {direct_ext_mux(byte, ext) : byte \in {0} \cup Channels}

\* What answers at an address; channel 3 leads on to the extension board, if any.
OnBus(address) ==
    {d \in devices : d.address = address /\ d.mux = mux' /\ (mux' = 3 /\ board # 0 => d.ext = ext')}

-------------------------------------------------------------------------------
(* Processes. *)

Fault == faults < Faults /\ faults' = faults + 1 /\ clean' = FALSE
NoFault == UNCHANGED <<faults, clean>>

\* The way to a sensor, the service's own or not.
Way(id, own) ==
    \/ own /\ Direct(id) /\ NoFault
    \/ ~own /\ Stray(id) /\ Fault

Fresh ==
    /\ iface_board_len' = DefaultLen /\ ext_addr' = 255
    /\ i' = 0 /\ k' = 0 /\ extension' = FALSE
    /\ pins' = FALSE /\ fd' = [a \in Addresses |-> "none"]
    /\ bmes' = <<>> /\ shts' = <<>> /\ server_i' = 0 /\ n' = 0

Exit == pc' = "down" /\ Fresh /\ UNCHANGED <<outside, history>>

Init ==
    /\ pc = "down" /\ file \in Files
    /\ iface_board_len = DefaultLen /\ ext_addr = 255
    /\ i = 0 /\ k = 0 /\ extension = FALSE
    /\ pins = FALSE /\ fd = [a \in Addresses |-> "none"]
    /\ bmes = <<>> /\ shts = <<>> /\ server_i = 0 /\ n = 0
    /\ mux \in {0, 3} /\ ext = 0 /\ local = TRUE
    /\ \E rack \in Racks : board = rack.board /\ devices = rack.devices
    /\ data = {} /\ reached = [wanted |-> {}, hit |-> {}, own |-> TRUE]
    /\ faults = 0 /\ clean = TRUE

Start ==
    /\ pc = "down" /\ pc' = "config" /\ clean' = TRUE
    /\ UNCHANGED <<config, place, bus, found, server_i, n, mux, ext, outside, history, faults>>

Crash == pc # "down" /\ Exit /\ Fault /\ UNCHANGED <<mux, ext>>

-------------------------------------------------------------------------------
(* device.json. *)

ReadConfig ==
    /\ pc = "config" /\ pc' = "bme"
    /\ \E c \in Configurations :
         c.file = file /\ iface_board_len' = c.iface_board_len /\ ext_addr' = c.ext_addr
    /\ NoFault
    /\ UNCHANGED <<place, bus, found, server_i, n, mux, ext, outside, history>>

-------------------------------------------------------------------------------
(* The scan. *)

\* The extension board has two multiplexers of four channels, the first of which
\* parks it: bits 0 and 1, bits 2 and 3.
ExtChannel == IF i < 4 THEN i % 4 ELSE (i % 4) * 4

BmeId == IF extension THEN [mux |-> 3, ext |-> ExtChannel] ELSE [mux |-> i % iface_board_len, ext |-> None]
ShtId == [mux |-> i % iface_board_len, ext |-> None]

Second == IF extension THEN k = 1 ELSE i >= iface_board_len
BmeAddress == IF Second THEN SEC ELSE PRIM
ShtAddress == IF Second THEN ALT ELSE DFLT

\* Mutant: the extension board's numbers follow the base board's without a gap.
BmeNumber_Low == IF extension THEN i ELSE i % iface_board_len

BmeNumber == IF extension THEN i + iface_board_len + 1 ELSE i % iface_board_len

\* What is kept of a sensor; device and own are history.
Entry(number, address, id, device, own) ==
    [name |-> <<number, address>>, id |-> id, address |-> address, device |-> device, own |-> own]

\* The next place: on the base board both addresses of all the channels, one after
\* the other; on the extension board channel by channel, without those that park.
NextPlace ==
    \/ /\ ~extension /\ i + 1 < 2 * iface_board_len
       /\ i' = i + 1 /\ pc' = "bme" /\ UNCHANGED <<k, extension>>
    \/ /\ ~extension /\ i + 1 = 2 * iface_board_len
       /\ IF iface_board_len = 3
            THEN i' = 1 /\ k' = 0 /\ extension' = TRUE /\ pc' = "bme"
            ELSE pc' = "check" /\ UNCHANGED place
    \/ /\ extension /\ k = 0
       /\ k' = 1 /\ pc' = "bme" /\ UNCHANGED <<i, extension>>
    \/ /\ extension /\ k = 1
       /\ k' = 0 /\ i' = IF (i + 1) % 4 = 0 THEN i + 2 ELSE i + 1
       /\ pc' = IF i' < ExtEnd THEN "bme" ELSE "unselect"
       /\ UNCHANGED extension

\* configure_mux and i2c_open, the first of which is done once for all and the
\* second once for every address.
OpenBus(address) ==
    /\ pins' = TRUE
    /\ fd' = IF fd[address] = "none" THEN [fd EXCEPT ![address] = "open"] ELSE fd

BusUnopened(address) ==
    \/ ~pins /\ UNCHANGED bus
    \/ fd[address] = "none" /\ pins' = TRUE /\ fd' = [fd EXCEPT ![address] = "bad"]

\* bme_init succeeds when a sensor answers.  A bus failure, too, goes on to the
\* SHT3x: BUS_FAIL is negative and sensor_status is not.
ProbeBme(own) ==
    /\ pc = "bme" /\ OpenBus(BmeAddress)
    /\ Way(BmeId, own)
    /\ IF fd'[BmeAddress] = "open" /\ OnBus(BmeAddress) # {}
         THEN /\ \E d \in OnBus(BmeAddress) :
                    bmes' = Append(bmes, Entry(BmeNumber, BmeAddress, BmeId, d, own))
              /\ NextPlace
         ELSE UNCHANGED <<bmes, place>> /\ pc' = "sht"
    /\ UNCHANGED <<config, shts, server_i, n, outside, history>>

BusFails ==
    /\ pc = "bme" /\ pc' = "sht" /\ BusUnopened(BmeAddress) /\ Fault
    /\ UNCHANGED <<config, place, found, server_i, n, mux, ext, outside, history>>

\* The sensor does not answer this time.
BmeSilent ==
    /\ pc = "bme" /\ pc' = "sht" /\ OpenBus(BmeAddress) /\ Fault
    /\ Direct(BmeId) \/ Stray(BmeId)
    /\ UNCHANGED <<config, place, found, server_i, n, outside, history>>

\* sht3x_init, on the extension board too at a channel of the base board.
ProbeSht ==
    /\ pc = "sht" /\ OpenBus(ShtAddress)
    /\ Direct(ShtId) /\ NoFault
    /\ IF fd'[ShtAddress] = "open" /\ OnBus(ShtAddress) # {}
         THEN \E d \in OnBus(ShtAddress) : shts' = Append(shts, Entry(i % iface_board_len, ShtAddress, ShtId, d, TRUE))
         ELSE UNCHANGED shts
    /\ NextPlace
    /\ UNCHANGED <<config, bmes, server_i, n, outside, history>>

\* exit(1), exit(SENSOR_FAIL)
ShtBusFails ==
    /\ pc = "sht" /\ (~pins \/ fd[ShtAddress] = "none") /\ Fault /\ Exit /\ UNCHANGED <<mux, ext>>

\* unselect_i2c_extender: no board is selected; whether its multiplexers park is
\* the board's affair.
Park == ext' \in {ext, 0}

Unselect ==
    /\ pc = "unselect" /\ pc' = "check" /\ Park /\ NoFault
    /\ UNCHANGED <<config, place, bus, found, server_i, n, mux, outside, history>>

\* SENSOR_FAIL without a sensor.
Check ==
    /\ pc = "check" /\ NoFault
    /\ IF bmes = <<>> /\ shts = <<>> THEN Exit
       ELSE pc' = "connect" /\ UNCHANGED <<config, place, bus, found, server_i, n, outside, history>>
    /\ UNCHANGED <<mux, ext>>

-------------------------------------------------------------------------------
(* The connection loop. *)

\* Mutant: without the first server there is no mirror.
Mirror_Never == FALSE

\* The local Redis stands in for the first server only.
Mirror == server_i = 0

\* One turn, in which the remote server answers or not; servers ends at three, and
\* what is beyond it does not answer.
Connect(answers) ==
    /\ pc = "connect" /\ server_i <= LastIndex /\ (answers => server_i < 3)
    /\ LET up == IF answers THEN TRUE ELSE Mirror /\ local
       IN  pc' = IF local /\ up THEN "round" ELSE "connect"
    /\ server_i' = IF answers THEN server_i ELSE server_i + 1
    /\ NoFault
    /\ UNCHANGED <<config, place, bus, found, n, mux, ext, outside, history>>

\* servers is read far beyond its end.
Segfault == pc = "connect" /\ server_i >= 3 /\ Exit /\ NoFault /\ UNCHANGED <<mux, ext>>

-------------------------------------------------------------------------------
(* The main loop. *)

\* Mutant: the multiplexer of the base board is left where it is.
ReadBme_Undirected(own) ==
    /\ pc = "round" /\ n < Len(bmes) /\ n' = n + 1
    /\ mux' = mux /\ ext' = IF bmes[n'].id.ext = None THEN ext ELSE direct_ext_mux(bmes[n'].id.ext, ext)
    /\ reached' = [wanted |-> {bmes[n'].device}, hit |-> OnBus(bmes[n'].address), own |-> own /\ bmes[n'].own]
    /\ data' = {} /\ NoFault
    /\ UNCHANGED <<pc, config, place, bus, found, server_i, outside>>

\* bme_read
ReadBme(own) ==
    /\ pc = "round" /\ n < Len(bmes) /\ n' = n + 1
    /\ Way(bmes[n'].id, own)
    /\ reached' = [wanted |-> {bmes[n'].device}, hit |-> OnBus(bmes[n'].address), own |-> own /\ bmes[n'].own]
    /\ data' = {}
    /\ UNCHANGED <<pc, config, place, bus, found, server_i, outside>>

\* What a read of an SHT3x finds on the bus.
Disturbed(words, mask) ==
    LET sent == Framed(words[1]) \o Framed(words[2])
    IN  [write |-> OK, bytes |-> [b \in 1..6 |-> Xor(sent[b], mask[b])]]

Quiet == <<0, 0, 0, 0, 0, 0>>

Measurements ==
    {[measured |-> words, quiet |-> mask = Quiet,
      read |-> sht3x_measure_blocking_read(Disturbed(words, mask), None, <<0, 0>>)] : words \in Signals, mask \in Noise}

\* sht3x_measure_blocking_read, and the values stored; SENSOR_FAIL when it fails.
ReadSht ==
    /\ pc = "round" /\ n >= Len(bmes) /\ n < Len(bmes) + Len(shts)
    /\ Direct(shts[n + 1 - Len(bmes)].id)
    /\ \E m \in Measurements :
         /\ IF m.quiet THEN NoFault ELSE Fault
         /\ IF m.read.ret # OK THEN Exit
            ELSE /\ n' = n + 1
                 /\ data' = {[stored |-> m.read.data, measured |-> m.measured]}
                 /\ LET sensor == shts[n + 1 - Len(bmes)]
                    IN  reached' = [wanted |-> {sensor.device}, hit |-> OnBus(sensor.address), own |-> TRUE]
                 /\ UNCHANGED <<pc, config, place, bus, found, server_i, outside>>

EndRound ==
    /\ pc = "round" /\ n = Len(bmes) + Len(shts) /\ n' = 0
    /\ IF iface_board_len = 3 THEN Park ELSE UNCHANGED ext
    /\ data' = {} /\ NoFault
    /\ UNCHANGED <<pc, config, place, bus, found, server_i, mux, outside, reached>>

StartUp ==
    \/ Start \/ ProbeBme(TRUE) \/ ProbeSht \/ Unselect \/ Check
    \/ \E answers \in BOOLEAN : Connect(answers)
    \/ Segfault

\* The local Redis comes and goes while the service looks for it.
Redis == pc = "connect" /\ local' = ~local
         /\ UNCHANGED <<pc, config, place, bus, found, server_i, n, mux, ext, file, board, devices, history, faults, clean>>

Next ==
    \/ StartUp \/ ReadConfig \/ ProbeBme(FALSE)
    \/ \E own \in BOOLEAN : ReadBme(own)
    \/ ReadSht \/ EndRound
    \/ BusFails \/ BmeSilent \/ ShtBusFails \/ Crash \/ Redis

Spec == Init /\ [][Next]_vars

\* The service starts and is restarted (Restart=always).  Fairness of ReadConfig is
\* stated by its effect on pc, which no other action has.
FairSpec == Spec /\ WF_vars(StartUp) /\ WF_pc(pc = "config" /\ pc' = "bme")

-------------------------------------------------------------------------------
Entries == Range(bmes) \cup Range(shts)

\* With an extension board wherever device.json names one: of the entries that the
\* scan found on its own way, whatever else went astray, two have the same name if
\* and only if they are the same device, and a scan without failures finds every
\* BME280 that it passes, once (lines 163-267).  An SHT3x may have several entries,
\* all of one name.
EntriesAreDevices ==
    /\ iface_board_len = 4 \/ board # 0 =>
         \A e, f \in Entries : e.own /\ f.own => ((e.name = f.name) <=> (e.device = f.device))
    /\ pc = "connect" /\ clean /\ (iface_board_len = 4 \/ board # 0) =>
         LET seen == IF iface_board_len = 4 THEN {d \in devices : d.mux < 4 /\ d.ext = 0}
                     ELSE {d \in devices : d.mux < 3 \/ (ext_addr = board /\ d.ext # 0)}
             sensors == {d \in seen : d.address \in BmeAddresses}
         IN  Len(bmes) = Cardinality(sensors) /\ {e.device : e \in Range(bmes)} = sensors

\* A reading whose way is the service's own reaches the device that was found by
\* that name, and no other one, wherever the multiplexers were left: by another
\* sensor, by a process that crashed, by a selection that failed or by leak and volt
\* (direct_mux, direct_ext_mux).  On the base board the way is always its own.
ReadingsReachTheirDevice == reached.own => reached.hit = reached.wanted

\* Not so, in a setting of its own: every reading reaches its device.  Where leak or
\* volt uses the bus between select_module, the transfer and the reading (i2c/common.c:41),
\* the sensor of the channel before answers, and its values go under another's name.
EveryReadingReachesItsDevice == reached.hit \subseteq reached.wanted

\* What is stored of an SHT3x is what it has measured, whatever of what a checksum
\* shows happened to the bytes on the bus: a reading that fails it is not used (line 461).
StoredIsMeasured ==
    \A r \in data :
        r.stored = [temperature |-> tick_to_temperature(r.measured[1]),
                    humidity |-> tick_to_humidity(r.measured[2])]

\* With a sensor to find and the local Redis up for good, the service gets to its
\* main loop, whatever the remote servers do (lines 276-304).
StartsWhenLocalIsUp ==
    (\E d \in devices : d.mux < 3 /\ d.address \in Addresses) /\ <>[]local => <>[](pc = "round")
===============================================================================
