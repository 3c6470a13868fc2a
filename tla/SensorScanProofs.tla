----------------------------- MODULE SensorScanProofs -----------------------------
(***************************************************************************)
(* Proofs about module SensorScan, for any rack, any device.json and any   *)
(* number of failures and of selections that come to nothing or to another *)
(* channel: an entry whose way is its own names one device and leads to it *)
(* alone, whatever was left on the multiplexers; a scan without failures   *)
(* finds every BME280 it passes, once, and any scan ends, with no more     *)
(* entries than it has places; and what is stored of an SHT3x is what it   *)
(* measured, whatever the bus did to it that its checksum can show.        *)
(***************************************************************************)
EXTENDS SensorScan, FiniteSetTheorems, SequenceTheorems, TLAPS

\* The number of a channel of the extension board, in the order of the scan.
Slot(channel) == IF channel < 4 THEN channel ELSE channel \div 4 + 4
Slots == {1, 2, 3, 5, 6, 7}

Ids == [mux : 0..3, ext : {None} \cup Channels]

EntrySet ==
    [name : Nat \X Addresses, id : Ids, address : Addresses, device : devices, own : BOOLEAN]

TypeInv ==
    /\ pc \in {"down", "config", "bme", "sht", "unselect", "check", "connect", "round"}
    /\ file \in Files
    /\ \E rack \in Racks : board = rack.board /\ devices = rack.devices
    /\ iface_board_len \in {3, DefaultLen} /\ ext_addr \in 1..15 \cup {255}
    /\ fd \in [Addresses -> {"none", "open", "bad"}]
    /\ bmes \in Seq(EntrySet) /\ shts \in Seq(EntrySet) /\ n \in Nat
    /\ mux \in 0..3 /\ ext \in {0} \cup Channels
    /\ extension \in BOOLEAN /\ clean \in BOOLEAN /\ pins \in BOOLEAN

\* Before device.json is read there is nothing; after that, what it says.
Idle ==
    /\ iface_board_len = DefaultLen /\ ext_addr = 255 /\ i = 0 /\ k = 0 /\ extension = FALSE
    /\ fd = [a \in Addresses |-> "none"] /\ bmes = <<>> /\ shts = <<>> /\ n = 0

Configured ==
    IF pc \in {"down", "config"} THEN Idle
    ELSE \E c \in Configurations :
            c.file = file /\ c.iface_board_len = iface_board_len /\ c.ext_addr = ext_addr

\* The extension board parks unless it is the one that device.json names.
Parked ==
    \A c \in Configurations :
        c.file = file /\ ext # 0 => c.iface_board_len = 3 /\ c.ext_addr = board /\ board # 0

\* Where the scan is.
Placed ==
    /\ i \in Nat /\ k \in 0..1
    /\ IF extension THEN iface_board_len = 3 ELSE k = 0
    /\ pc \in {"bme", "sht"} => IF extension THEN i \in Slots ELSE i < 2 * iface_board_len
    /\ pc \in {"unselect", "check", "connect", "round"} =>
            IF iface_board_len = 3 THEN extension /\ i = 9 /\ k = 0 ELSE i = 7

\* A place on the base board, with the extension board apart; one behind that.
BaseId(id) == id.ext = None /\ id.mux < iface_board_len /\ ~(id.mux = 3 /\ board # 0)
BackId(id) ==
    iface_board_len = 3 /\ id.mux = 3 /\ id.ext \in Channels /\ (board # 0 => ext_addr = board)

\* An entry names the place it leads to, and its device is there, unless it was found
\* on a way that was not the service's own.
EntryOk(e) ==
    /\ e.device.address = e.address /\ e.device.mux = e.id.mux
    /\ \/ BaseId(e.id) /\ e.name = <<e.id.mux, e.address>>
       \/ /\ BackId(e.id) /\ e.name = <<Slot(e.id.ext) + 4, e.address>>
          /\ board # 0 /\ e.own => e.device.ext = e.id.ext

EntriesOk ==
    /\ \A m \in 1..Len(bmes) : EntryOk(bmes[m]) /\ bmes[m].address \in BmeAddresses
    /\ \A m \in 1..Len(shts) :
            EntryOk(shts[m]) /\ BaseId(shts[m].id) /\ shts[m].address \notin BmeAddresses

ScanInv == TypeInv /\ Configured /\ Parked /\ Placed /\ EntriesOk /\ ReadingsReachTheirDevice

-------------------------------------------------------------------------------
(* The boards. *)

LEMMA ParityIsABit == ASSUME NEW x \in Nat PROVE calculate_parity(x) \in {0, 1}
<1> DEFINE s == x + (x \div 2) + (x \div 4) + (x \div 8) + (x \div 16) + (x \div 32) + (x \div 64)
                  + (x \div 128)
<1>1. s \in Int
  OBVIOUS
<1> HIDE DEF s
<1>2. s % 2 \in {0, 1}
  BY <1>1
<1> QED
  BY <1>2 DEF calculate_parity, s

\* A board with an address is selected by that address alone, and the address the
\* program starts with selects none.
LEMMA Selection ==
    ASSUME NEW a \in 1..15 \cup {255}, NEW b \in 0..15
    PROVE  Selects(Message(a, 2), b) <=> a = b
<1>1. calculate_parity(255) = 0 /\ calculate_parity(15) = 0
  BY DEF calculate_parity
<1>2. calculate_parity(a) \in {0, 1} /\ calculate_parity(b) \in {0, 1}
  BY ParityIsABit
<1> DEFINE p == calculate_parity(a)
           q == calculate_parity(b)
<1>3. CASE a = 255
  BY <1>1, <1>2, <1>3 DEF Selects, Message
<1>4. CASE a \in 1..15
  <2>1. Message(a, 2) \div 8 = p * 16 + a
    BY <1>2, <1>4 DEF Message
  <2>2. CASE a = b
    BY <2>1, <2>2 DEF Selects
  <2>3. CASE a # b
    <3> HIDE DEF p, q
    <3>1. p * 16 + a # q * 16 + b
      BY <1>2, <1>4, <2>3 DEF p, q
    <3> QED
      BY <2>1, <2>3, <3>1 DEF Selects, p, q
  <2> QED
    BY <2>2, <2>3
<1> QED
  BY <1>3, <1>4

\* Nothing but the addressed extension board moves.
LEMMA ExtensionMoves ==
    ASSUME TypeInv, NEW id \in Ids, Direct(id)
    PROVE  /\ mux' = id.mux
           /\ ext' = IF id.ext # None /\ board # 0 /\ ext_addr = board THEN id.ext ELSE ext
           /\ mux' \in 0..3 /\ ext' \in {0} \cup Channels
<1>1. board \in 0..15 /\ ext_addr \in 1..15 \cup {255}
  BY RackAssumption DEF TypeInv
<1>2. Selects(Message(ext_addr, 2), board) <=> ext_addr = board
  BY <1>1, Selection
<1>3. id.mux \in 0..3 /\ id.ext \in {None} \cup Channels
  BY DEF Ids
<1>4. ext \in {0} \cup Channels
  BY DEF TypeInv
<1> QED
  BY <1>2, <1>3, <1>4 DEF Direct, direct_ext_mux

\* Nor by a selection that comes to nothing, or to another channel.
LEMMA StrayMoves ==
    ASSUME TypeInv, NEW id \in Ids, Stray(id)
    PROVE  /\ mux' = id.mux /\ id.ext # None
           /\ ext' # ext => board # 0 /\ ext_addr = board
           /\ mux' \in 0..3 /\ ext' \in {0} \cup Channels
<1>1. board \in 0..15 /\ ext_addr \in 1..15 \cup {255} /\ ext \in {0} \cup Channels
  BY RackAssumption DEF TypeInv
<1>2. Selects(Message(ext_addr, 2), board) <=> ext_addr = board
  BY <1>1, Selection
<1>3. id.mux \in 0..3
  BY DEF Ids
<1> QED
  BY <1>1, <1>2, <1>3 DEF Stray, direct_ext_mux

\* What RackAssumption says of the devices on the bus.
LEMMA OnTheRack ==
    ASSUME TypeInv, NEW d \in devices
    PROVE  /\ d \in [mux : 0..3, ext : {0} \cup Channels, address : Addresses]
           /\ (d.ext # 0) <=> (d.mux = 3 /\ board # 0)
BY RackAssumption DEF TypeInv

\* Where an entry leads there is its device and no other.
LEMMA EntryLeadsToDevice ==
    ASSUME TypeInv, NEW e \in EntrySet, EntryOk(e), Direct(e.id), e.own \/ BaseId(e.id)
    PROVE  OnBus(e.address) = {e.device}
<1>1. e.id \in Ids /\ e.device \in devices
  BY DEF EntrySet
<1>2. /\ mux' = e.id.mux
      /\ ext' = IF e.id.ext # None /\ board # 0 /\ ext_addr = board THEN e.id.ext ELSE ext
  BY <1>1, ExtensionMoves
<1>3. None \notin Channels
  BY DEF None, Channels
<1>4. e.device \in OnBus(e.address)
  BY <1>1, <1>2, <1>3 DEF OnBus, EntryOk, BaseId, BackId
<1>5. ASSUME NEW d \in OnBus(e.address) PROVE d = e.device
  <2>1. /\ d \in devices /\ d.address = e.device.address /\ d.mux = e.device.mux
        /\ mux' = 3 /\ board # 0 => d.ext = ext'
    BY <1>2 DEF OnBus, EntryOk
  <2>2. d.ext = e.device.ext
    BY <1>1, <1>2, <1>3, <2>1, OnTheRack DEF EntryOk, BaseId, BackId
  <2>3. /\ d \in [mux : 0..3, ext : {0} \cup Channels, address : Addresses]
        /\ e.device \in [mux : 0..3, ext : {0} \cup Channels, address : Addresses]
    BY <1>1, <2>1, OnTheRack
  <2> QED
    BY <2>1, <2>2, <2>3
<1> QED
  BY <1>4, <1>5

-------------------------------------------------------------------------------
(* What a step leaves as it was. *)

\* Beyond ReadConfig the configuration is the one that the file comes to.
LEMMA ParkedNow ==
    ASSUME Configured, Parked, pc \notin {"down", "config"}
    PROVE  ext # 0 => iface_board_len = 3 /\ ext_addr = board /\ board # 0
BY DEF Configured, Parked

LEMMA ParkedAfter ==
    ASSUME Configured, Parked, UNCHANGED <<file, board>>,
           ext' # ext => /\ pc \notin {"down", "config"} /\ iface_board_len = 3
                         /\ ext_addr = board /\ board # 0
    PROVE  Parked'
<1>1. CASE ext' = ext
  BY <1>1 DEF Parked
<1>2. CASE ext' # ext
  <2>1. PICK c \in Configurations :
            c.file = file /\ c.iface_board_len = iface_board_len /\ c.ext_addr = ext_addr
    BY <1>2 DEF Configured
  <2>2. \A d \in Configurations : d.file = file => d = c
    BY <2>1, ConfigurationAssumption
  <2> QED
    BY <1>2, <2>1, <2>2 DEF Parked
<1> QED
  BY <1>1, <1>2

\* Parking the extension board leaves it where it was, or parked.
LEMMA ParkedByPark ==
    ASSUME Parked, UNCHANGED <<file, board>>, ext' \in {ext, 0}
    PROVE  Parked'
BY DEF Parked

\* Directing the multiplexers, too, when the channel is one that BackId allows.
LEMMA ParkedByDirect ==
    ASSUME TypeInv, Configured, Parked, UNCHANGED <<file, board>>, NEW id \in Ids,
           Direct(id) \/ Stray(id),
           id.ext # None => pc \notin {"down", "config"} /\ iface_board_len = 3
    PROVE  Parked' /\ mux' \in 0..3 /\ ext' \in {0} \cup Channels
<1>1. /\ ext' # ext => id.ext # None /\ board # 0 /\ ext_addr = board
      /\ mux' \in 0..3 /\ ext' \in {0} \cup Channels
  BY ExtensionMoves, StrayMoves
<1> QED
  BY <1>1, ParkedAfter

\* A process that ends leaves nothing but the multiplexers and the history.
LEMMA ExitKeeps ==
    ASSUME ScanInv, Exit, Parked', mux' \in 0..3, ext' \in {0} \cup Channels, clean' \in BOOLEAN
    PROVE  ScanInv'
<1> USE DEF ScanInv, Exit, Fresh, outside, history
<1>1. TypeInv'
  <2>1. bmes' \in Seq(EntrySet') /\ shts' \in Seq(EntrySet')
    OBVIOUS
  <2>2. fd' \in [Addresses -> {"none", "open", "bad"}]
    OBVIOUS
  <2> QED
    BY <2>1, <2>2 DEF TypeInv, DefaultLen
<1>2. Configured'
  BY DEF Configured, Idle
<1>3. Placed'
  BY DEF Placed
<1>4. EntriesOk'
  BY DEF EntriesOk
<1>5. ReadingsReachTheirDevice'
  BY DEF ReadingsReachTheirDevice
<1> QED
  BY <1>1, <1>2, <1>3, <1>4, <1>5

\* A step of a process that finds nothing keeps what it has.
LEMMA StepKeeps ==
    ASSUME ScanInv, UNCHANGED <<file, board, devices, iface_board_len, ext_addr, bmes, shts>>,
           pc \notin {"down", "config"},
           pc' \in {"bme", "sht", "unselect", "check", "connect", "round"},
           fd' \in [Addresses -> {"none", "open", "bad"}], n' \in Nat,
           mux' \in 0..3, ext' \in {0} \cup Channels,
           extension' \in BOOLEAN, clean' \in BOOLEAN, pins' \in BOOLEAN,
           Parked', Placed', ReadingsReachTheirDevice'
    PROVE  ScanInv'
<1> USE DEF ScanInv
<1>1. TypeInv'
  BY DEF TypeInv, EntrySet
<1>2. Configured'
  BY DEF Configured
<1>3. EntriesOk'
  BY DEF EntriesOk, EntryOk, BaseId, BackId
<1> QED
  BY <1>1, <1>2, <1>3

\* The same, when nothing of the scan's place, the buses or the readings changes.
LEMMA LaterKeeps ==
    ASSUME ScanInv, UNCHANGED <<file, board, devices, config, found, place, bus>>,
           pc \in {"unselect", "check", "connect", "round"},
           pc' \in {"check", "connect", "round"}, n' \in Nat,
           mux' \in 0..3, ext' \in {0} \cup Channels, clean' \in BOOLEAN,
           Parked', ReadingsReachTheirDevice'
    PROVE  ScanInv'
<1>1. Placed'
  BY DEF ScanInv, Placed, place, config
<1> QED
  BY <1>1, StepKeeps DEF ScanInv, TypeInv, config, found, place, bus

-------------------------------------------------------------------------------
(* The scan. *)

\* The six channels of the extension board, in the order of the scan.
LEMMA ChannelOfPlace ==
    ASSUME i \in Slots
    PROVE  ExtChannel \in Channels /\ Slot(ExtChannel) = i
BY DEF Slots, ExtChannel, Channels, Slot

\* Where the scan looks for a BME280, and for an SHT3x.
LEMMA Looking ==
    ASSUME TypeInv, Placed, pc \in {"bme", "sht"}
    PROVE  /\ BmeId \in Ids /\ BmeAddress \in BmeAddresses
           /\ ShtId \in Ids /\ ShtAddress \in Addresses \ BmeAddresses
           /\ ShtId.ext = None /\ ShtId.mux = i % iface_board_len /\ ShtId.mux < iface_board_len
           /\ IF extension
                THEN /\ iface_board_len = 3 /\ i \in Slots /\ BmeId.mux = 3
                     /\ BmeId.ext = ExtChannel /\ ExtChannel \in Channels
                     /\ BmeNumber = Slot(ExtChannel) + 4
                ELSE BmeId = ShtId /\ BmeNumber = ShtId.mux
<1>1. i \in Nat /\ iface_board_len \in {3, 4}
  BY DEF TypeInv, Placed, DefaultLen
<1>2. i % iface_board_len \in 0..3 /\ i % iface_board_len < iface_board_len
  BY <1>1
<1>3. BmeAddress \in BmeAddresses /\ ShtAddress \in Addresses \ BmeAddresses
  BY DEF BmeAddress, ShtAddress, BmeAddresses, Addresses, PRIM, SEC, DFLT, ALT
<1>4. /\ ShtId \in Ids /\ ShtId.ext = None /\ ShtId.mux = i % iface_board_len
  BY <1>2 DEF ShtId, Ids
<1>5. CASE extension
  <2>1. iface_board_len = 3 /\ i \in Slots
    BY <1>5 DEF Placed
  <2>2. ExtChannel \in Channels /\ Slot(ExtChannel) = i
    BY <2>1, ChannelOfPlace
  <2>3. BmeId \in Ids /\ BmeId.mux = 3 /\ BmeId.ext = ExtChannel
    BY <1>5, <2>2 DEF BmeId, Ids
  <2>4. BmeNumber = Slot(ExtChannel) + 4
    BY <1>1, <1>5, <2>1, <2>2 DEF BmeNumber
  <2> QED
    BY <1>2, <1>3, <1>4, <1>5, <2>1, <2>2, <2>3, <2>4
<1>6. CASE ~extension
  BY <1>2, <1>3, <1>4, <1>6 DEF BmeId, ShtId, BmeNumber
<1> QED
  BY <1>5, <1>6 DEF TypeInv

\* What is found is an entry of its own place, and the multiplexers lead there, unless
\* they went astray.
LEMMA EntryFound ==
    ASSUME ScanInv, pc \in {"bme", "sht"}, NEW number \in Nat, NEW id \in Ids,
           NEW address \in Addresses, NEW own \in BOOLEAN, own => Direct(id), ~own => Stray(id),
           NEW d \in OnBus(address),
           \/ id.ext = None /\ id.mux < iface_board_len /\ number = id.mux
           \/ /\ id.ext \in Channels /\ id.mux = 3 /\ iface_board_len = 3
              /\ number = Slot(id.ext) + 4
    PROVE  LET e == Entry(number, address, id, d, own)
           IN  /\ e \in EntrySet /\ EntryOk(e)
               /\ e.id = id /\ e.address = address /\ e.device = d /\ e.own = own
<1> DEFINE e == Entry(number, address, id, d, own)
<1>1. /\ d \in devices /\ d.address = address /\ d.mux = mux'
      /\ mux' = 3 /\ board # 0 => d.ext = ext'
  BY DEF OnBus
<1>2. /\ e.id = id /\ e.address = address /\ e.device = d /\ e.name = <<number, address>>
      /\ e \in EntrySet /\ e.own = own
  BY <1>1 DEF Entry, EntrySet
<1>3. /\ mux' = id.mux /\ (~own => id.ext # None)
      /\ own => ext' = IF id.ext # None /\ board # 0 /\ ext_addr = board THEN id.ext ELSE ext
      /\ ext' # ext => board # 0 /\ ext_addr = board
  BY ExtensionMoves, StrayMoves DEF ScanInv
<1>4. ext # 0 => iface_board_len = 3 /\ ext_addr = board /\ board # 0
  BY ParkedNow DEF ScanInv
<1>5. (d.ext # 0) <=> (d.mux = 3 /\ board # 0)
  BY <1>1, OnTheRack DEF ScanInv
<1>6. None \notin Channels /\ None # 0
  BY DEF None, Channels
<1>7. iface_board_len \in Nat /\ id.mux \in Nat
  BY DEF ScanInv, TypeInv, DefaultLen, Ids
<1>8. EntryOk(e)
  <2> HIDE DEF e
  <2>1. CASE id.ext = None
    <3>1. BaseId(id)
      BY <1>1, <1>3, <1>4, <1>5, <1>6, <1>7, <2>1 DEF BaseId
    <3> QED
      BY <1>1, <1>2, <1>3, <1>6, <2>1, <3>1 DEF EntryOk
  <2>2. CASE id.ext # None
    <3>1. board # 0 => ext_addr = board
      BY <1>1, <1>3, <1>4, <1>5, <1>6, <2>2
    <3>2. BackId(id) /\ (board # 0 /\ own => d.ext = id.ext)
      BY <1>1, <1>3, <1>4, <1>5, <1>6, <2>2, <3>1 DEF BackId
    <3> QED
      BY <1>1, <1>2, <1>3, <2>2, <3>2 DEF EntryOk
  <2> QED
    BY <2>1, <2>2
<1> QED
  BY <1>2, <1>8

\* Where the way is the service's own.
LEMMA EntryFoundOwn ==
    ASSUME ScanInv, pc \in {"bme", "sht"}, NEW number \in Nat, NEW id \in Ids,
           NEW address \in Addresses, Direct(id), NEW d \in OnBus(address),
           \/ id.ext = None /\ id.mux < iface_board_len /\ number = id.mux
           \/ /\ id.ext \in Channels /\ id.mux = 3 /\ iface_board_len = 3
              /\ number = Slot(id.ext) + 4
    PROVE  LET e == Entry(number, address, id, d, TRUE)
           IN  /\ e \in EntrySet /\ EntryOk(e)
               /\ e.id = id /\ e.address = address /\ e.device = d /\ e.own = TRUE
<1>1. ASSUME NEW own \in BOOLEAN, own
      PROVE  LET e == Entry(number, address, id, d, own)
             IN  /\ e \in EntrySet /\ EntryOk(e)
                 /\ e.id = id /\ e.address = address /\ e.device = d /\ e.own = own
  <2>1. (own => Direct(id)) /\ (~own => Stray(id))
    BY <1>1
  <2> HIDE <1>1
  <2> QED
    BY <2>1, EntryFound
<1> QED
  BY <1>1

\* The scan goes on within its bounds.
LEMMA NextIsPlaced ==
    ASSUME TypeInv, Placed, pc \in {"bme", "sht"}, NextPlace, UNCHANGED iface_board_len
    PROVE  /\ Placed' /\ extension' \in BOOLEAN
           /\ pc' \in {"bme", "check", "unselect"}
<1> USE DEF Placed, DefaultLen
<1>0. iface_board_len \in {3, 4} /\ extension \in BOOLEAN /\ i \in Nat /\ k \in {0, 1}
  BY DEF TypeInv
<1>1. CASE ~extension /\ i + 1 < 2 * iface_board_len
           /\ i' = i + 1 /\ pc' = "bme" /\ UNCHANGED <<k, extension>>
  BY <1>0, <1>1
<1>2. CASE ~extension /\ i + 1 = 2 * iface_board_len /\ iface_board_len = 3
           /\ i' = 1 /\ k' = 0 /\ extension' = TRUE /\ pc' = "bme"
  BY <1>0, <1>2 DEF Slots
<1>3. CASE ~extension /\ i + 1 = 2 * iface_board_len /\ iface_board_len # 3
           /\ pc' = "check" /\ UNCHANGED place
  BY <1>0, <1>3 DEF place
<1>4. CASE extension /\ k = 0 /\ k' = 1 /\ pc' = "bme" /\ UNCHANGED <<i, extension>>
  BY <1>0, <1>4
<1>5. CASE extension /\ k = 1 /\ k' = 0 /\ UNCHANGED extension
           /\ i' = (IF (i + 1) % 4 = 0 THEN i + 2 ELSE i + 1)
           /\ pc' = IF i' < ExtEnd THEN "bme" ELSE "unselect"
  BY <1>0, <1>5 DEF Slots, ExtEnd
<1> QED
  BY <1>1, <1>2, <1>3, <1>4, <1>5 DEF NextPlace

\* The file descriptors.
LEMMA OpenBusKeeps ==
    ASSUME TypeInv, NEW address \in Addresses, OpenBus(address) \/ BusUnopened(address)
    PROVE  fd' \in [Addresses -> {"none", "open", "bad"}] /\ pins' \in BOOLEAN
<1>1. CASE /\ pins' = TRUE
           /\ fd' = IF fd[address] = "none" THEN [fd EXCEPT ![address] = "open"] ELSE fd
  BY <1>1 DEF TypeInv
<1>2. CASE UNCHANGED bus
  BY <1>2 DEF TypeInv, bus
<1>3. CASE pins' = TRUE /\ fd' = [fd EXCEPT ![address] = "bad"]
  BY <1>3 DEF TypeInv
<1> QED
  BY <1>1, <1>2, <1>3 DEF OpenBus, BusUnopened

\* One entry more.
LEMMA EntryAdded ==
    ASSUME NEW S, NEW s \in Seq(S), NEW e \in S, NEW t, t = Append(s, e)
    PROVE  /\ t \in Seq(S) /\ Len(t) = Len(s) + 1 /\ Len(s) \in Nat
           /\ t[Len(t)] = e /\ \A m \in 1..Len(s) : t[m] = s[m]
OBVIOUS

LEMMA ProbeBmeKeeps ==
    ASSUME ScanInv, NEW own \in BOOLEAN, ProbeBme(own)
    PROVE  ScanInv'
<1> USE DEF ScanInv
<1>1. pc \in {"bme", "sht"} /\ pc = "bme" /\ IF own THEN Direct(BmeId) ELSE Stray(BmeId)
  BY DEF ProbeBme, Way
<1>2. /\ UNCHANGED <<file, board, devices, iface_board_len, ext_addr, shts, n, reached>>
      /\ OpenBus(BmeAddress)
  BY DEF ProbeBme, config, outside, history
<1>3. /\ BmeId \in Ids /\ BmeAddress \in BmeAddresses /\ BmeAddress \in Addresses
      /\ BmeId.ext # None => iface_board_len = 3
  BY <1>1, Looking DEF Addresses
<1>4. /\ fd' \in [Addresses -> {"none", "open", "bad"}]
      /\ pins' \in BOOLEAN /\ clean' \in BOOLEAN
  <2>1. clean' \in BOOLEAN
    BY DEF ProbeBme, Way, NoFault, Fault, TypeInv
  <2> QED
    BY <1>2, <1>3, <2>1, OpenBusKeeps
<1>5. Parked' /\ mux' \in 0..3 /\ ext' \in {0} \cup Channels
  BY <1>1, <1>2, <1>3, ParkedByDirect
<1>6. ReadingsReachTheirDevice'
  BY <1>2 DEF ReadingsReachTheirDevice
<1>7. n' \in Nat /\ n \in Nat
  BY <1>2 DEF TypeInv
<1>8. CASE UNCHANGED <<bmes, place>> /\ pc' = "sht"
  <2>1. Placed' /\ extension' \in BOOLEAN
    BY <1>1, <1>2, <1>8 DEF place, Placed, TypeInv
  <2> QED
    BY <1>1, <1>2, <1>4, <1>5, <1>6, <1>7, <1>8, <2>1, StepKeeps
<1>9. ASSUME NEW d \in OnBus(BmeAddress),
             bmes' = Append(bmes, Entry(BmeNumber, BmeAddress, BmeId, d, own)), NextPlace
      PROVE  ScanInv'
  <2> DEFINE e == Entry(BmeNumber, BmeAddress, BmeId, d, own)
  <2>1. /\ Placed' /\ extension' \in BOOLEAN
        /\ pc' \in {"bme", "check", "unselect"}
    BY <1>1, <1>2, <1>9, NextIsPlaced
  <2>2. /\ e \in EntrySet /\ EntryOk(e) /\ e.address = BmeAddress
    <3>1. \/ BmeId.ext = None /\ BmeId.mux < iface_board_len /\ BmeNumber = BmeId.mux
          \/ /\ BmeId.ext \in Channels /\ BmeId.mux = 3 /\ iface_board_len = 3
             /\ BmeNumber = Slot(BmeId.ext) + 4
      BY <1>1, Looking
    <3>2. BmeNumber \in Nat
      BY <3>1, <1>3 DEF Ids, Channels, Slot
    <3> QED
      BY <1>1, <1>3, <3>1, <3>2, EntryFound
  <2> HIDE DEF e
  <2>3. /\ bmes' \in Seq(EntrySet) /\ Len(bmes') = Len(bmes) + 1 /\ Len(bmes) \in Nat
        /\ bmes'[Len(bmes')] = e /\ \A m \in 1..Len(bmes) : bmes'[m] = bmes[m]
    BY <1>9, <2>2, EntryAdded DEF TypeInv, e
  <2>4. TypeInv'
    BY <1>2, <1>4, <1>5, <1>7, <2>1, <2>3 DEF TypeInv, EntrySet
  <2>5. Configured'
    BY <1>1, <1>2, <2>1 DEF Configured
  <2>6. ASSUME NEW m \in 1..Len(bmes')
        PROVE  EntryOk(bmes'[m]) /\ bmes'[m].address \in BmeAddresses
    <3>1. CASE m = Len(bmes')
      BY <1>3, <2>2, <2>3, <3>1
    <3>2. CASE m # Len(bmes')
      BY <2>3, <2>6, <3>2 DEF EntriesOk
    <3> QED
      BY <3>1, <3>2
  <2>7. EntriesOk'
    <3>1. \A m \in 1..Len(bmes') : (EntryOk(bmes[m]) /\ bmes[m].address \in BmeAddresses)'
      BY <1>2, <2>6 DEF EntryOk, BaseId, BackId
    <3>2. \A m \in 1..Len(shts) :
            (EntryOk(shts[m]) /\ BaseId(shts[m].id) /\ shts[m].address \notin BmeAddresses)'
      BY <1>2 DEF EntriesOk, EntryOk, BaseId, BackId
    <3> QED
      BY <1>2, <3>1, <3>2 DEF EntriesOk
  <2> QED
    BY <1>5, <1>6, <2>1, <2>4, <2>5, <2>7
<1> QED
  BY <1>8, <1>9 DEF ProbeBme

LEMMA ProbeShtKeeps == ASSUME ScanInv, ProbeSht PROVE ScanInv'
<1> USE DEF ScanInv
<1>1. pc \in {"bme", "sht"} /\ pc = "sht" /\ Direct(ShtId)
  BY DEF ProbeSht
<1>2. /\ UNCHANGED <<file, board, devices, iface_board_len, ext_addr, bmes, n, reached, clean>>
      /\ OpenBus(ShtAddress) /\ NextPlace
  BY DEF ProbeSht, NoFault, config, outside, history
<1>3. /\ ShtId \in Ids /\ ShtAddress \in Addresses /\ ShtAddress \notin BmeAddresses
      /\ ShtId.ext = None /\ ShtId.mux = i % iface_board_len /\ ShtId.mux < iface_board_len
  BY <1>1, Looking
<1>4. /\ fd' \in [Addresses -> {"none", "open", "bad"}]
      /\ pins' \in BOOLEAN /\ clean' \in BOOLEAN
  <2>1. clean' \in BOOLEAN
    BY <1>2 DEF TypeInv
  <2> QED
    BY <1>2, <1>3, <2>1, OpenBusKeeps
<1>5. Parked' /\ mux' \in 0..3 /\ ext' \in {0} \cup Channels
  BY <1>1, <1>2, <1>3, ParkedByDirect
<1>6. ReadingsReachTheirDevice'
  BY <1>2 DEF ReadingsReachTheirDevice
<1>7. n' \in Nat /\ n \in Nat
  BY <1>2 DEF TypeInv
<1>8. /\ Placed' /\ extension' \in BOOLEAN
      /\ pc' \in {"bme", "check", "unselect"}
  BY <1>1, <1>2, NextIsPlaced
<1>9. CASE UNCHANGED shts
  BY <1>1, <1>2, <1>4, <1>5, <1>6, <1>7, <1>8, <1>9, StepKeeps
<1>10. ASSUME NEW d \in OnBus(ShtAddress),
              shts' = Append(shts, Entry(i % iface_board_len, ShtAddress, ShtId, d, TRUE))
       PROVE  ScanInv'
  <2> DEFINE e == Entry(i % iface_board_len, ShtAddress, ShtId, d, TRUE)
  <2>1. i % iface_board_len \in Nat
    BY <1>3 DEF Ids
  <2>2. e \in EntrySet /\ EntryOk(e) /\ e.address = ShtAddress /\ e.id = ShtId
    BY <1>1, <1>3, <2>1, EntryFoundOwn
  <2>3. None \notin Channels
    BY DEF None, Channels
  <2>4. BaseId(e.id)
    BY <1>3, <2>2, <2>3 DEF EntryOk, BackId
  <2>a. shts' = Append(shts, e)
    BY <1>10
  <2> HIDE DEF e
  <2>5. /\ shts' \in Seq(EntrySet) /\ Len(shts') = Len(shts) + 1 /\ Len(shts) \in Nat
        /\ shts'[Len(shts')] = e /\ \A m \in 1..Len(shts) : shts'[m] = shts[m]
    BY <2>2, <2>a, EntryAdded DEF TypeInv
  <2>6. TypeInv'
    BY <1>2, <1>4, <1>5, <1>7, <1>8, <2>5 DEF TypeInv, EntrySet
  <2>7. Configured'
    BY <1>1, <1>2, <1>8 DEF Configured
  <2>8. ASSUME NEW m \in 1..Len(shts')
        PROVE  EntryOk(shts'[m]) /\ BaseId(shts'[m].id) /\ shts'[m].address \notin BmeAddresses
    <3>1. CASE m = Len(shts')
      BY <1>3, <2>2, <2>4, <2>5, <3>1
    <3>2. CASE m # Len(shts')
      BY <2>5, <2>8, <3>2 DEF EntriesOk
    <3> QED
      BY <3>1, <3>2
  <2>9. EntriesOk'
    <3>1. \A m \in 1..Len(shts') :
            (EntryOk(shts[m]) /\ BaseId(shts[m].id) /\ shts[m].address \notin BmeAddresses)'
      BY <1>2, <2>8 DEF EntryOk, BaseId, BackId
    <3>2. \A m \in 1..Len(bmes) : (EntryOk(bmes[m]) /\ bmes[m].address \in BmeAddresses)'
      BY <1>2 DEF EntriesOk, EntryOk, BaseId, BackId
    <3> QED
      BY <1>2, <3>1, <3>2 DEF EntriesOk
  <2> QED
    BY <1>5, <1>6, <1>8, <2>6, <2>7, <2>9
<1> QED
  BY <1>9, <1>10 DEF ProbeSht

\* The steps of the scan that find nothing.
LEMMA SilenceKeeps ==
    ASSUME ScanInv, BusFails \/ BmeSilent
    PROVE  ScanInv'
<1>1. /\ pc \in {"bme", "sht"} /\ pc = "bme" /\ pc' = "sht" /\ clean' = FALSE
      /\ UNCHANGED <<file, board, devices, iface_board_len, ext_addr, bmes, shts, n, place, reached>>
  BY DEF BusFails, BmeSilent, Fault, config, found, outside, history
<1>2. BmeId \in Ids /\ BmeAddress \in Addresses /\ (BmeId.ext # None => iface_board_len = 3)
  BY <1>1, Looking DEF Addresses, ScanInv
<1>3. Parked' /\ mux' \in 0..3 /\ ext' \in {0} \cup Channels
  <2>1. CASE BusFails
    BY <1>1, <2>1, ParkedAfter DEF BusFails, ScanInv, TypeInv
  <2>2. CASE BmeSilent
    BY <1>1, <1>2, <2>2, ParkedByDirect DEF BmeSilent, ScanInv
  <2> QED
    BY <2>1, <2>2
<1>4. fd' \in [Addresses -> {"none", "open", "bad"}] /\ pins' \in BOOLEAN
  <2>1. CASE BusFails
    BY <1>2, <2>1, OpenBusKeeps DEF BusFails, ScanInv
  <2>2. CASE BmeSilent
    BY <1>2, <2>2, OpenBusKeeps DEF BmeSilent, ScanInv
  <2> QED
    BY <2>1, <2>2
<1>5. Placed' /\ extension' \in BOOLEAN /\ n' \in Nat
  BY <1>1 DEF ScanInv, TypeInv, Placed, place
<1>6. ReadingsReachTheirDevice'
  BY <1>1 DEF ScanInv, ReadingsReachTheirDevice
<1> QED
  BY <1>1, <1>3, <1>4, <1>5, <1>6, StepKeeps

\* The steps that end a process where the multiplexers are.
LEMMA EndKeeps ==
    ASSUME ScanInv, Exit, UNCHANGED <<mux, ext>>, clean' \in BOOLEAN
    PROVE  ScanInv'
<1>1. Parked'
  BY ParkedAfter DEF ScanInv, Exit, outside
<1> QED
  BY <1>1, ExitKeeps DEF ScanInv, TypeInv

LEMMA BeginKeeps == ASSUME ScanInv, Start \/ ReadConfig PROVE ScanInv'
<1> USE DEF ScanInv
<1>1. Parked' /\ EntriesOk' /\ ReadingsReachTheirDevice'
  <2>1. /\ UNCHANGED <<file, board, mux, ext, reached>> /\ bmes' = <<>> /\ shts' = <<>>
    BY DEF Start, ReadConfig, Configured, Idle, found, outside, history
  <2> QED
    BY <2>1, ParkedAfter DEF EntriesOk, ReadingsReachTheirDevice
<1>2. CASE Start
  <2>1. /\ pc' = "config" /\ pc = "down" /\ clean' = TRUE
        /\ UNCHANGED <<file, board, devices, iface_board_len, ext_addr, i, k, extension, pins,
                       fd, bmes, shts, n, mux, ext>>
    BY <1>2 DEF Start, config, place, bus, found, outside
  <2>2. TypeInv'
    BY <2>1 DEF TypeInv, EntrySet
  <2>3. Configured' /\ Placed'
    BY <2>1 DEF Configured, Idle, Placed
  <2> QED
    BY <1>1, <2>2, <2>3
<1>3. CASE ReadConfig
  <2>1. /\ pc' = "bme" /\ pc = "config" /\ clean' = clean
        /\ UNCHANGED <<file, board, devices, i, k, extension, pins, fd, bmes, shts, n, mux, ext>>
    BY <1>3 DEF ReadConfig, place, bus, found, outside, NoFault
  <2>2. PICK c \in Configurations :
            c.file = file /\ iface_board_len' = c.iface_board_len /\ ext_addr' = c.ext_addr
    BY <1>3 DEF ReadConfig
  <2>3. iface_board_len' \in {3, DefaultLen} /\ ext_addr' \in 1..15 \cup {255}
    BY <2>2, ConfigurationAssumption
  <2>4. TypeInv'
    BY <2>1, <2>3 DEF TypeInv, EntrySet
  <2>5. Configured' /\ Placed'
    BY <2>1, <2>2, <2>3 DEF Configured, Idle, Placed, DefaultLen
  <2> QED
    BY <1>1, <2>4, <2>5
<1> QED
  BY <1>2, <1>3

LEMMA ReadBmeKeeps ==
    ASSUME ScanInv, NEW own \in BOOLEAN, ReadBme(own)
    PROVE  ScanInv'
<1> DEFINE e == bmes[n + 1]
<1>1. /\ pc = "round" /\ n + 1 \in 1..Len(bmes) /\ n' = n + 1 /\ n' \in Nat /\ e \in EntrySet
  BY DEF ReadBme, ScanInv, TypeInv
<1>2. /\ IF own THEN Direct(e.id) ELSE Stray(e.id)
      /\ reached' = [wanted |-> {e.device}, hit |-> OnBus(e.address), own |-> own /\ e.own]
      /\ UNCHANGED <<pc, file, board, devices, config, found, place, bus>> /\ clean' \in BOOLEAN
  BY <1>1 DEF ReadBme, Way, outside, NoFault, Fault, ScanInv, TypeInv
<1>3. EntryOk(e)
  BY <1>1 DEF ScanInv, EntriesOk
<1>4. e.id \in Ids /\ (e.id.ext # None => iface_board_len = 3)
  BY <1>1, <1>3 DEF EntrySet, EntryOk, BaseId, BackId
<1> HIDE DEF e
<1>5. Parked' /\ mux' \in 0..3 /\ ext' \in {0} \cup Channels
  BY <1>1, <1>2, <1>4, ParkedByDirect DEF ScanInv
<1>6. ReadingsReachTheirDevice'
  BY <1>1, <1>2, <1>3, EntryLeadsToDevice DEF ScanInv, ReadingsReachTheirDevice
<1> QED
  BY <1>1, <1>2, <1>5, <1>6, LaterKeeps DEF ScanInv, TypeInv

LEMMA ReadShtKeeps == ASSUME ScanInv, ReadSht PROVE ScanInv'
<1> DEFINE e == shts[n + 1 - Len(bmes)]
<1>1. /\ pc = "round" /\ n + 1 - Len(bmes) \in 1..Len(shts) /\ e \in EntrySet /\ n \in Nat
  BY DEF ReadSht, ScanInv, TypeInv
<1>2. /\ Direct(e.id)
      /\ \/ Exit /\ clean' \in BOOLEAN
         \/ /\ n' = n + 1 /\ clean' \in BOOLEAN
            /\ reached' = [wanted |-> {e.device}, hit |-> OnBus(e.address), own |-> TRUE]
            /\ UNCHANGED <<pc, file, board, devices, config, found, place, bus>>
  BY DEF ReadSht, outside, NoFault, Fault, ScanInv, TypeInv
<1>3. EntryOk(e) /\ BaseId(e.id)
  BY <1>1 DEF ScanInv, EntriesOk
<1>4. e.id \in Ids /\ e.id.ext = None
  BY <1>1, <1>3 DEF EntrySet, BaseId
<1>5. UNCHANGED <<file, board>>
  BY <1>2 DEF Exit, outside
<1> HIDE DEF e
<1>6. Parked' /\ mux' \in 0..3 /\ ext' \in {0} \cup Channels
  BY <1>2, <1>4, <1>5, ParkedByDirect DEF ScanInv
<1>7. CASE Exit /\ clean' \in BOOLEAN
  BY <1>6, <1>7, ExitKeeps
<1>8. CASE /\ n' = n + 1 /\ clean' \in BOOLEAN
           /\ reached' = [wanted |-> {e.device}, hit |-> OnBus(e.address), own |-> TRUE]
           /\ UNCHANGED <<pc, file, board, devices, config, found, place, bus>>
  <2>1. ReadingsReachTheirDevice'
    BY <1>1, <1>2, <1>3, <1>8, EntryLeadsToDevice DEF ScanInv, ReadingsReachTheirDevice
  <2>2. n' \in Nat
    BY <1>1, <1>8
  <2> QED
    BY <1>1, <1>6, <1>8, <2>1, <2>2, LaterKeeps
<1> QED
  BY <1>2, <1>7, <1>8

\* The other steps between the scan and the rounds.
LEMMA IdleKeeps ==
    ASSUME ScanInv,
           \/ Unselect \/ EndRound \/ Redis \/ (\E answers \in BOOLEAN : Connect(answers))
           \/ Check /\ ~Exit
    PROVE  ScanInv'
<1>1. /\ UNCHANGED <<file, board, devices, config, found, place, bus, reached, mux>>
      /\ pc \in {"unselect", "check", "connect", "round"}
      /\ pc' \in {"check", "connect", "round"} /\ n' \in Nat /\ clean' = clean
      /\ ext' \in {ext, 0}
  BY DEF Unselect, EndRound, Redis, Connect, Check, Park, outside, history, ScanInv, TypeInv,
         NoFault
<1>2. Parked'
  BY <1>1, ParkedByPark DEF ScanInv
<1>3. ReadingsReachTheirDevice'
  BY <1>1 DEF ScanInv, ReadingsReachTheirDevice
<1> QED
  BY <1>1, <1>2, <1>3, LaterKeeps DEF ScanInv, TypeInv

-------------------------------------------------------------------------------
(* The invariant. *)

LEMMA ScanInit == Init => ScanInv
<1> SUFFICES ASSUME Init PROVE ScanInv
  OBVIOUS
<1> USE DEF Init
<1>1. TypeInv
  <2>1. bmes \in Seq(EntrySet) /\ shts \in Seq(EntrySet)
    OBVIOUS
  <2>2. fd \in [Addresses -> {"none", "open", "bad"}]
    OBVIOUS
  <2>3. n \in Nat /\ ext \in {0} \cup Channels /\ mux \in 0..3
    OBVIOUS
  <2> HIDE DEF Init
  <2>4. iface_board_len \in {3, DefaultLen} /\ ext_addr \in 1..15 \cup {255}
    BY DEF Init
  <2>5. /\ pc = "down" /\ file \in Files /\ extension = FALSE /\ clean = TRUE /\ pins = FALSE
        /\ \E rack \in Racks : board = rack.board /\ devices = rack.devices
    BY DEF Init
  <2> QED
    BY <2>1, <2>2, <2>3, <2>4, <2>5 DEF TypeInv
<1>2. Configured /\ Parked /\ Placed /\ EntriesOk /\ ReadingsReachTheirDevice
  BY DEF Configured, Idle, Parked, Placed, EntriesOk, ReadingsReachTheirDevice
<1> QED
  BY <1>1, <1>2 DEF ScanInv

LEMMA ScanNext == ScanInv /\ [Next]_vars => ScanInv'
<1> SUFFICES ASSUME ScanInv, [Next]_vars PROVE ScanInv'
  OBVIOUS
<1>1. ASSUME Start \/ ReadConfig PROVE ScanInv'
  BY <1>1, BeginKeeps
<1>2. ASSUME ProbeBme(TRUE) \/ ProbeBme(FALSE) \/ ProbeSht PROVE ScanInv'
  BY <1>2, ProbeBmeKeeps, ProbeShtKeeps
<1>3. ASSUME BusFails \/ BmeSilent PROVE ScanInv'
  BY <1>3, SilenceKeeps
<1>4. ASSUME Unselect \/ EndRound \/ Redis PROVE ScanInv'
  BY <1>4, IdleKeeps
<1>5. ASSUME NEW answers \in BOOLEAN, Connect(answers) PROVE ScanInv'
  BY <1>5, IdleKeeps
<1>6. ASSUME Segfault \/ Crash \/ ShtBusFails PROVE ScanInv'
  <2>1. Exit /\ UNCHANGED <<mux, ext>> /\ clean' \in BOOLEAN
    BY <1>6 DEF Segfault, Crash, ShtBusFails, NoFault, Fault, ScanInv, TypeInv
  <2> QED
    BY <2>1, EndKeeps
<1>7. ASSUME Check PROVE ScanInv'
  <2>1. CASE Exit
    <3>1. UNCHANGED <<mux, ext>> /\ clean' \in BOOLEAN
      BY <1>7 DEF Check, NoFault, ScanInv, TypeInv
    <3> QED
      BY <2>1, <3>1, EndKeeps
  <2>2. CASE ~Exit
    BY <1>7, <2>2, IdleKeeps
  <2> QED
    BY <2>1, <2>2
<1>8. ASSUME (\E own \in BOOLEAN : ReadBme(own)) \/ ReadSht PROVE ScanInv'
  BY <1>8, ReadBmeKeeps, ReadShtKeeps
<1>9. ASSUME UNCHANGED vars PROVE ScanInv'
  <2> USE <1>9 DEF vars, config, place, bus, found, outside, history
  <2>1. TypeInv' /\ Configured'
    BY DEF ScanInv, TypeInv, EntrySet, Configured, Idle
  <2>2. Parked' /\ Placed' /\ ReadingsReachTheirDevice'
    BY DEF ScanInv, Parked, Placed, ReadingsReachTheirDevice
  <2>3. EntriesOk'
    BY DEF ScanInv, EntriesOk, EntryOk, BaseId, BackId
  <2> QED
    BY <2>1, <2>2, <2>3 DEF ScanInv
<1>10. ASSUME StartUp PROVE ScanInv'
  BY <1>1, <1>2, <1>4, <1>5, <1>6, <1>7, <1>10 DEF StartUp
<1> QED
  BY <1>1, <1>2, <1>3, <1>4, <1>6, <1>8, <1>9, <1>10 DEF Next

LEMMA ScanInvariant == Spec => []ScanInv
<1>1. Init => ScanInv
  BY ScanInit
<1>2. ScanInv /\ [Next]_vars => ScanInv'
  BY ScanNext
<1> QED
  BY <1>1, <1>2, PTL DEF Spec

\* A reading whose way, now and at the scan, is the service's own reaches the device
\* that was found under its name, and no other one, wherever readings, scans, crashes
\* and any number of selections that failed or were another program's left the two
\* multiplexers (direct_mux and direct_ext_mux before every transfer).
THEOREM ReadingsGoToTheirDevice == Spec => []ReadingsReachTheirDevice
<1>1. ScanInv => ReadingsReachTheirDevice
  BY DEF ScanInv
<1> QED
  BY <1>1, ScanInvariant, PTL

-------------------------------------------------------------------------------
(* Names. *)

LEMMA SlotIsOneToOne ==
    \A c, d \in Channels : Slot(c) \in Slots /\ (Slot(c) = Slot(d) => c = d)
BY DEF Channels, Slot, Slots

\* Two entries have one name if and only if they are one device.
LEMMA NamesAreDevices ==
    ASSUME TypeInv, NEW e \in EntrySet, NEW f \in EntrySet, EntryOk(e), EntryOk(f),
           e.own, f.own, iface_board_len = 4 \/ board # 0
    PROVE  (e.name = f.name) <=> (e.device = f.device)
<1>1. /\ e.device \in devices /\ f.device \in devices
      /\ e.id.mux \in 0..3 /\ f.id.mux \in 0..3
  BY DEF EntrySet, Ids
<1>2. /\ e.device \in [mux : 0..3, ext : {0} \cup Channels, address : Addresses]
      /\ f.device \in [mux : 0..3, ext : {0} \cup Channels, address : Addresses]
      /\ (e.device.ext # 0) <=> (e.device.mux = 3 /\ board # 0)
      /\ (f.device.ext # 0) <=> (f.device.mux = 3 /\ board # 0)
  BY <1>1, OnTheRack
<1>3. /\ e.device.address = e.address /\ e.device.mux = e.id.mux
      /\ f.device.address = f.address /\ f.device.mux = f.id.mux
  BY DEF EntryOk
<1>4. iface_board_len \in {3, 4}
  BY DEF TypeInv, DefaultLen
<1>5. (e.device = f.device) <=>
        /\ e.device.mux = f.device.mux /\ e.device.ext = f.device.ext
        /\ e.device.address = f.device.address
  BY <1>2
<1>6. CASE BaseId(e.id) /\ e.name = <<e.id.mux, e.address>>
           /\ BaseId(f.id) /\ f.name = <<f.id.mux, f.address>>
  BY <1>1, <1>2, <1>3, <1>5, <1>6 DEF BaseId
<1>7. CASE BackId(e.id) /\ e.name = <<Slot(e.id.ext) + 4, e.address>> /\ e.device.ext = e.id.ext
           /\ BackId(f.id) /\ f.name = <<Slot(f.id.ext) + 4, f.address>> /\ f.device.ext = f.id.ext
  <2>1. e.id.ext \in Channels /\ f.id.ext \in Channels
    BY <1>7 DEF BackId
  <2>2. Slot(e.id.ext) \in Nat /\ Slot(f.id.ext) \in Nat
    BY <2>1, SlotIsOneToOne DEF Slots
  <2>3. (Slot(e.id.ext) = Slot(f.id.ext)) <=> (e.id.ext = f.id.ext)
    BY <2>1, SlotIsOneToOne
  <2>4. e.device.mux = f.device.mux
    BY <1>3, <1>7 DEF BackId
  <2>5. (e.name = f.name) <=> (Slot(e.id.ext) = Slot(f.id.ext) /\ e.address = f.address)
    BY <1>7, <2>2
  <2> QED
    BY <1>3, <1>5, <1>7, <2>3, <2>4, <2>5
<1>8. ASSUME NEW x \in EntrySet, NEW y \in EntrySet, x.device.mux = x.id.mux, y.device.mux = y.id.mux,
             x.id.mux \in 0..3,
             BaseId(x.id) /\ x.name = <<x.id.mux, x.address>>,
             BackId(y.id) /\ y.name = <<Slot(y.id.ext) + 4, y.address>>
      PROVE  x.name # y.name /\ x.device # y.device
  <2>1. Slot(y.id.ext) \in Slots
    BY <1>8, SlotIsOneToOne DEF BackId
  <2>2. x.id.mux # Slot(y.id.ext) + 4
    BY <1>8, <2>1 DEF Slots
  <2>3. x.device.mux # y.device.mux
    BY <1>8 DEF BaseId, BackId
  <2> QED
    BY <1>8, <2>2, <2>3
<1>9. \A x \in {e, f} : \/ BaseId(x.id) /\ x.name = <<x.id.mux, x.address>>
                        \/ /\ BackId(x.id) /\ x.name = <<Slot(x.id.ext) + 4, x.address>>
                           /\ x.device.ext = x.id.ext
  BY DEF EntryOk, BackId
<1> QED
  BY <1>1, <1>3, <1>6, <1>7, <1>8, <1>9

\* The first part of EntriesAreDevices.
LEMMA NamesOfEntries ==
    ASSUME ScanInv, iface_board_len = 4 \/ board # 0
    PROVE  \A e, f \in Entries : e.own /\ f.own => ((e.name = f.name) <=> (e.device = f.device))
<1>1. ASSUME NEW e \in Entries PROVE e \in EntrySet /\ EntryOk(e)
  <2>1. \/ \E m \in 1..Len(bmes) : e = bmes[m]
        \/ \E m \in 1..Len(shts) : e = shts[m]
    BY <1>1, SMTT(30) DEF Entries, Range, ScanInv, TypeInv
  <2> QED
    BY <2>1, SMTT(30) DEF ScanInv, TypeInv, EntriesOk
<1> QED
  BY <1>1, NamesAreDevices DEF ScanInv

-------------------------------------------------------------------------------
(* What the scan has found. *)

\* With an extension board wherever device.json names one.
Present == iface_board_len = 4 \/ board # 0

\* The BME280s that the scan passes.
Reachable(d) ==
    /\ d.address \in BmeAddresses
    /\ \/ d.mux < iface_board_len /\ d.ext = 0
       \/ iface_board_len = 3 /\ ext_addr = board /\ d.ext # 0

Later(d) == IF d.address = SEC THEN 1 ELSE 0

\* A device is where the scan is; it is where the scan has been.
Here(d) ==
    IF d.ext = 0 THEN ~extension /\ i = d.mux + Later(d) * iface_board_len
    ELSE extension /\ i = Slot(d.ext) /\ k = Later(d)
Before(d) ==
    IF d.ext = 0 THEN extension \/ i > d.mux + Later(d) * iface_board_len \/ pc \notin {"bme", "sht"}
    ELSE extension /\ (i > Slot(d.ext) \/ (i = Slot(d.ext) /\ k > Later(d)))

\* Without failures the entries are the devices passed so far, once each.
Found ==
    /\ \A d \in devices :
            (\E m \in 1..Len(bmes) : bmes[m].device = d) <=> (Reachable(d) /\ Before(d))
    /\ \A m, o \in 1..Len(bmes) : bmes[m].device = bmes[o].device => m = o

FoundInv ==
    clean /\ Present =>
        /\ pc \in {"bme", "sht", "unselect", "check", "connect"} => Found
        /\ pc = "sht" => \A d \in devices : Reachable(d) => ~Here(d)
        /\ pc \in {"config", "bme", "sht"} => \A a \in Addresses : fd[a] \in {"none", "open"}

\* A reachable device has its place in the scan.
LEMMA PlaceOfDevice ==
    ASSUME TypeInv, NEW d \in devices, Reachable(d)
    PROVE  /\ Later(d) \in {0, 1} /\ d.mux \in 0..3 /\ d.address \in BmeAddresses
           /\ d.ext = 0 => d.mux < iface_board_len
           /\ d.ext # 0 => Slot(d.ext) \in Slots
BY OnTheRack, SlotIsOneToOne DEF Reachable, Later, Channels

LEMMA NextPasses ==
    ASSUME TypeInv, Placed, pc \in {"bme", "sht"}, NextPlace, UNCHANGED iface_board_len,
           NEW d \in devices, Reachable(d)
    PROVE  (Before(d) \/ Here(d)) <=> Before(d)'
<1> USE DEF Placed, DefaultLen
<1>0. iface_board_len \in {3, 4} /\ extension \in BOOLEAN /\ i \in Nat /\ k \in {0, 1}
  BY DEF TypeInv
<1> DEFINE t == d.mux + Later(d) * iface_board_len
           s == Slot(d.ext)
           l == Later(d)
<1>a. l \in {0, 1} /\ (d.ext # 0 => s \in Slots) /\ (d.ext = 0 => t \in Nat /\ t < 2 * iface_board_len)
  BY <1>0, PlaceOfDevice
<1>b. /\ Here(d) <=> IF d.ext = 0 THEN ~extension /\ i = t ELSE extension /\ i = s /\ k = l
      /\ Before(d) <=> IF d.ext = 0 THEN extension \/ i > t
                       ELSE extension /\ (i > s \/ (i = s /\ k > l))
      /\ Before(d)' <=> IF d.ext = 0 THEN extension' \/ i' > t \/ pc' \notin {"bme", "sht"}
                        ELSE extension' /\ (i' > s \/ (i' = s /\ k' > l))
  BY DEF Here, Before, Later
<1> HIDE DEF t, s, l
<1>1. CASE ~extension /\ i + 1 < 2 * iface_board_len
           /\ i' = i + 1 /\ pc' = "bme" /\ UNCHANGED <<k, extension>>
  BY <1>0, <1>a, <1>b, <1>1
<1>2. CASE ~extension /\ i + 1 = 2 * iface_board_len /\ iface_board_len = 3
           /\ i' = 1 /\ k' = 0 /\ extension' = TRUE /\ pc' = "bme"
  BY <1>0, <1>a, <1>b, <1>2 DEF Slots
<1>3. CASE ~extension /\ i + 1 = 2 * iface_board_len /\ iface_board_len # 3
           /\ pc' = "check" /\ UNCHANGED place
  BY <1>0, <1>a, <1>b, <1>3 DEF place
<1>4. CASE extension /\ k = 0 /\ k' = 1 /\ pc' = "bme" /\ UNCHANGED <<i, extension>>
  BY <1>0, <1>a, <1>b, <1>4
<1>5. CASE extension /\ k = 1 /\ k' = 0 /\ UNCHANGED extension
           /\ i' = (IF (i + 1) % 4 = 0 THEN i + 2 ELSE i + 1)
           /\ pc' = IF i' < ExtEnd THEN "bme" ELSE "unselect"
  BY <1>0, <1>a, <1>b, <1>5 DEF Slots, ExtEnd
<1> QED
  BY <1>1, <1>2, <1>3, <1>4, <1>5 DEF NextPlace

\* What answers at the place of the scan are the devices there.
LEMMA OnBusIsHere ==
    ASSUME ScanInv, pc = "bme", Present, Direct(BmeId), NEW d \in devices
    PROVE  (d \in OnBus(BmeAddress)) <=> (Reachable(d) /\ Here(d))
<1> USE DEF ScanInv
<1>1. /\ iface_board_len \in {3, 4} /\ i \in Nat /\ k \in {0, 1} /\ extension \in BOOLEAN
  BY DEF TypeInv, Placed, DefaultLen
<1>2. /\ d.mux \in 0..3 /\ d.ext \in {0} \cup Channels /\ d.address \in Addresses
      /\ (d.ext # 0) <=> (d.mux = 3 /\ board # 0)
  BY OnTheRack
<1>3. /\ BmeId \in Ids /\ mux' = BmeId.mux
      /\ ext' = IF BmeId.ext # None /\ board # 0 /\ ext_addr = board THEN BmeId.ext ELSE ext
      /\ ext # 0 => iface_board_len = 3 /\ ext_addr = board /\ board # 0
  BY Looking, ExtensionMoves, ParkedNow
<1>4. (d \in OnBus(BmeAddress)) <=>
        d.address = BmeAddress /\ d.mux = mux' /\ (mux' = 3 /\ board # 0 => d.ext = ext')
  BY DEF OnBus
<1>5. (d.address = BmeAddress) <=> (d.address \in BmeAddresses /\ (Later(d) = 1 <=> Second))
  BY DEF BmeAddress, BmeAddresses, Later, PRIM, SEC
<1>6. Later(d) \in {0, 1}
  BY DEF Later
<1>7. CASE ~extension
  <2>1. /\ i < 2 * iface_board_len /\ BmeId.mux = i % iface_board_len /\ BmeId.ext = None
        /\ Second <=> i >= iface_board_len
    BY <1>7 DEF Placed, BmeId, Second
  <2>2. (d \in OnBus(BmeAddress)) <=>
           d.ext = 0 /\ d.address = BmeAddress /\ d.mux = i % iface_board_len
    <3>1. CASE ext' = 0
      BY <1>2, <1>3, <1>4, <2>1, <3>1
    <3>2. CASE ext' # 0
      <4>1. mux' # 3
        BY <1>1, <1>3, <2>1, <3>2
      <4> QED
        BY <1>2, <1>3, <1>4, <2>1, <4>1
    <3> QED
      BY <3>1, <3>2
  <2>3. d.mux < iface_board_len =>
            (i = d.mux + Later(d) * iface_board_len) <=>
                (d.mux = i % iface_board_len /\ (Later(d) = 1 <=> i >= iface_board_len))
    <3>1. i % iface_board_len = IF i < iface_board_len THEN i ELSE i - iface_board_len
      BY <1>1, <2>1
    <3>2. CASE Later(d) = 0
      BY <1>1, <1>2, <2>1, <3>1, <3>2
    <3>3. CASE Later(d) = 1
      BY <1>1, <1>2, <2>1, <3>1, <3>3
    <3> QED
      BY <1>6, <3>2, <3>3
  <2>4. i % iface_board_len < iface_board_len
    BY <1>1
  <2> QED
    BY <1>1, <1>2, <1>5, <1>7, <2>1, <2>2, <2>3, <2>4 DEF Reachable, Here
<1>8. CASE extension
  <2>1. /\ iface_board_len = 3 /\ i \in Slots /\ board # 0 /\ BmeId.mux = 3
        /\ BmeId.ext = ExtChannel /\ ExtChannel \in Channels /\ ExtChannel # None
        /\ Second <=> k = 1
    BY <1>8, Looking DEF Placed, Present, Second, Channels, None
  <2>2. Slot(ExtChannel) = i
    BY <2>1, ChannelOfPlace
  <2>3. CASE ext_addr = board
    <3>1. d.ext # 0 => ((d.ext = ExtChannel) <=> (i = Slot(d.ext)))
      BY <1>2, <2>1, <2>2, SlotIsOneToOne
    <3>2. ExtChannel # 0
      BY <2>1 DEF Channels
    <3> QED
      BY <1>1, <1>2, <1>3, <1>4, <1>5, <1>6, <1>8, <2>1, <2>3, <3>1, <3>2 DEF Reachable, Here
  <2>4. CASE ext_addr # board
    <3>1. d \notin OnBus(BmeAddress)
      BY <1>2, <1>3, <1>4, <2>1, <2>4
    <3> QED
      BY <1>8, <2>1, <2>4, <3>1 DEF Reachable, Here
  <2> QED
    BY <2>3, <2>4
<1> QED
  BY <1>1, <1>7, <1>8

\* What the scan has passed it is not at.
LEMMA BeforeIsNotHere ==
    ASSUME TypeInv, Placed, pc \in {"bme", "sht"}, NEW d \in devices, Reachable(d), Before(d)
    PROVE  ~Here(d)
<1>1. /\ iface_board_len \in {3, 4} /\ i \in Nat /\ k \in {0, 1}
      /\ Later(d) \in {0, 1} /\ d.mux \in 0..3 /\ (d.ext # 0 => Slot(d.ext) \in Nat)
  BY PlaceOfDevice DEF TypeInv, Placed, DefaultLen, Slots
<1> QED
  BY <1>1 DEF Before, Here

LEMMA FoundStays ==
    ASSUME FoundInv, pc \in {"unselect", "check", "connect"}, pc' \in {"check", "connect", "round"},
           UNCHANGED <<board, devices, config, place, found, clean>>
    PROVE  FoundInv'
<1>1. SUFFICES ASSUME clean', Present', pc' \in {"check", "connect"} PROVE Found'
  BY DEF FoundInv
<1>2. Found
  BY <1>1 DEF FoundInv, Present, config
<1>3. \A d : (Reachable(d) /\ Before(d))' <=> (Reachable(d) /\ Before(d))
  BY <1>1 DEF Reachable, Before, config, place
<1> QED
  BY <1>2, <1>3 DEF Found, found

LEMMA FoundAtStart == ASSUME ScanInv, Start \/ ReadConfig PROVE FoundInv'
<1>1. \A a \in Addresses : fd'[a] = "none"
  BY DEF ScanInv, Configured, Idle, Start, ReadConfig, bus
<1>2. CASE Start
  BY <1>1, <1>2 DEF Start, FoundInv
<1>3. CASE ReadConfig
  <2>1. /\ pc' = "bme" /\ i' = 0 /\ extension' = FALSE /\ bmes' = <<>> /\ devices' = devices
        /\ TypeInv'
    BY <1>3, BeginKeeps DEF ReadConfig, place, found, outside, ScanInv, Configured, Idle
  <2>2. ASSUME NEW d \in devices', Reachable(d)' PROVE ~Before(d)'
    <3>1. Later(d) \in {0, 1} /\ d.mux \in Nat
      BY <2>1, <2>2, OnTheRack DEF Later, ScanInv
    <3>2. iface_board_len' \in Nat
      BY <2>1 DEF TypeInv, DefaultLen
    <3> QED
      BY <2>1, <3>1, <3>2 DEF Before
  <2>3. Found'
    BY <2>1, <2>2 DEF Found
  <2> QED
    BY <1>1, <2>1, <2>3 DEF FoundInv
<1> QED
  BY <1>2, <1>3

LEMMA FoundByProbeBme == ASSUME ScanInv, FoundInv, ProbeBme(TRUE) PROVE FoundInv'
<1> USE DEF ScanInv
<1>1. /\ pc = "bme" /\ pc \in {"bme", "sht"} /\ Direct(BmeId)
      /\ UNCHANGED <<board, devices, iface_board_len, ext_addr, clean>>
      /\ pins' = TRUE
      /\ fd' = IF fd[BmeAddress] = "none" THEN [fd EXCEPT ![BmeAddress] = "open"] ELSE fd
  BY DEF ProbeBme, Way, OpenBus, NoFault, config, outside
<1>2. SUFFICES ASSUME clean, Present PROVE FoundInv'
  BY <1>1 DEF FoundInv, Present
<1>3. Found /\ \A a \in Addresses : fd[a] \in {"none", "open"}
  BY <1>1, <1>2 DEF FoundInv
<1>4. BmeAddress \in BmeAddresses /\ BmeAddress \in Addresses /\ BmeId \in Ids
  BY <1>1, Looking DEF Addresses
<1>5. fd'[BmeAddress] = "open" /\ \A a \in Addresses : fd'[a] \in {"none", "open"}
  BY <1>1, <1>3, <1>4 DEF TypeInv
<1>6. \A d \in devices : (d \in OnBus(BmeAddress)) <=> (Reachable(d) /\ Here(d))
  BY <1>1, <1>2, OnBusIsHere
<1>7. OnBus(BmeAddress) \subseteq devices
  BY DEF OnBus
<1>8. \A d : Reachable(d)' <=> Reachable(d)
  BY <1>1 DEF Reachable
<1>9. CASE OnBus(BmeAddress) = {}
  <2>1. UNCHANGED <<bmes, place>> /\ pc' = "sht"
    BY <1>9 DEF ProbeBme
  <2>2. \A d : (Before(d)' <=> Before(d)) /\ (Here(d)' <=> Here(d))
    BY <1>1, <2>1 DEF Before, Here, place
  <2>3. Found'
    BY <1>1, <1>3, <1>8, <2>1, <2>2 DEF Found
  <2>4. \A d \in devices' : Reachable(d)' => ~Here(d)'
    BY <1>1, <1>6, <1>8, <1>9, <2>2
  <2> QED
    BY <1>5, <2>1, <2>3, <2>4 DEF FoundInv
<1>10. CASE OnBus(BmeAddress) # {}
  <2>1. PICK x \in OnBus(BmeAddress) :
            bmes' = Append(bmes, Entry(BmeNumber, BmeAddress, BmeId, x, TRUE)) /\ NextPlace
    BY <1>5, <1>10 DEF ProbeBme
  <2> DEFINE e == Entry(BmeNumber, BmeAddress, BmeId, x, TRUE)
  <2>2. /\ e \in EntrySet /\ EntryOk(e) /\ e.device = x /\ e.address = BmeAddress
        /\ e.id = BmeId /\ e.own
    <3>1. \/ BmeId.ext = None /\ BmeId.mux < iface_board_len /\ BmeNumber = BmeId.mux
          \/ /\ BmeId.ext \in Channels /\ BmeId.mux = 3 /\ iface_board_len = 3
             /\ BmeNumber = Slot(BmeId.ext) + 4
      BY <1>1, Looking
    <3>2. BmeNumber \in Nat
      BY <3>1, <1>4 DEF Ids, Channels, Slot
    <3>3. /\ e \in EntrySet /\ EntryOk(e)
          /\ e.id = BmeId /\ e.address = BmeAddress /\ e.device = x /\ e.own = TRUE
      BY <1>1, <1>4, <3>1, <3>2, EntryFoundOwn
    <3> QED
      BY <3>3
  <2>a. bmes' = Append(bmes, e)
    BY <2>1
  <2> HIDE DEF e
  <2>3. /\ Len(bmes') = Len(bmes) + 1 /\ Len(bmes) \in Nat
        /\ bmes'[Len(bmes')] = e /\ \A m \in 1..Len(bmes) : bmes'[m] = bmes[m]
    BY <2>2, <2>a, EntryAdded DEF TypeInv
  <2>4. \A d \in devices : (Reachable(d) /\ Here(d)) <=> d = x
    BY <1>1, <1>6, <1>7, <2>2, EntryLeadsToDevice
  <2>5. \A d \in devices : Reachable(d) => ((Before(d) \/ Here(d)) <=> Before(d)')
    BY <1>1, <2>1, NextPasses
  <2>6. x \in devices /\ ~(\E m \in 1..Len(bmes) : bmes[m].device = x)
    BY <1>1, <1>3, <1>7, <2>4, BeforeIsNotHere DEF Found
  <2>7. \A d \in devices' :
            (\E m \in 1..Len(bmes') : bmes'[m].device = d) <=> (Reachable(d)' /\ Before(d)')
    <3>1. SUFFICES ASSUME NEW d \in devices
          PROVE (\E m \in 1..Len(bmes') : bmes'[m].device = d) <=> (Reachable(d)' /\ Before(d)')
      BY <1>1
    <3>2. (\E m \in 1..Len(bmes') : bmes'[m].device = d)
            <=> ((\E m \in 1..Len(bmes) : bmes[m].device = d) \/ d = x)
      BY <2>2, <2>3
    <3>3. (\E m \in 1..Len(bmes) : bmes[m].device = d) <=> (Reachable(d) /\ Before(d))
      BY <1>3 DEF Found
    <3> QED
      BY <1>8, <2>4, <2>5, <3>2, <3>3
  <2>8. \A m, o \in 1..Len(bmes') : bmes'[m].device = bmes'[o].device => m = o
    <3>1. SUFFICES ASSUME NEW m \in 1..Len(bmes'), NEW o \in 1..Len(bmes'),
                          bmes'[m].device = bmes'[o].device
                   PROVE  m = o
      OBVIOUS
    <3>2. CASE m # Len(bmes') /\ o # Len(bmes')
      BY <1>3, <2>3, <3>1, <3>2 DEF Found
    <3>3. CASE m = Len(bmes') \/ o = Len(bmes')
      BY <2>2, <2>3, <2>6, <3>1, <3>3
    <3> QED
      BY <3>2, <3>3
  <2>9. Found'
    BY <2>7, <2>8 DEF Found
  <2>10. pc' # "sht"
    BY <1>1, <2>1, NextIsPlaced
  <2> QED
    BY <1>5, <2>9, <2>10 DEF FoundInv
<1> QED
  BY <1>9, <1>10

LEMMA FoundByProbeSht == ASSUME ScanInv, FoundInv, ProbeSht PROVE FoundInv'
<1> USE DEF ScanInv
<1>1. /\ pc = "sht" /\ pc \in {"bme", "sht"} /\ NextPlace
      /\ UNCHANGED <<board, devices, iface_board_len, ext_addr, bmes, clean>>
      /\ fd' = IF fd[ShtAddress] = "none" THEN [fd EXCEPT ![ShtAddress] = "open"] ELSE fd
  BY DEF ProbeSht, OpenBus, NoFault, config, outside
<1>2. SUFFICES ASSUME clean, Present PROVE FoundInv'
  BY <1>1 DEF FoundInv, Present
<1>3. /\ Found /\ \A a \in Addresses : fd[a] \in {"none", "open"}
      /\ \A d \in devices : Reachable(d) => ~Here(d)
  BY <1>1, <1>2 DEF FoundInv
<1>4. \A a \in Addresses : fd'[a] \in {"none", "open"}
  BY <1>1, <1>3 DEF TypeInv
<1>5. \A d : Reachable(d)' <=> Reachable(d)
  BY <1>1 DEF Reachable
<1>6. \A d \in devices : Reachable(d) => ((Before(d) \/ Here(d)) <=> Before(d)')
  BY <1>1, NextPasses
<1>7. Found'
  BY <1>1, <1>3, <1>5, <1>6 DEF Found
<1>8. pc' # "sht"
  BY <1>1, NextIsPlaced
<1> QED
  BY <1>4, <1>7, <1>8 DEF FoundInv

LEMMA FoundNext == ScanInv /\ FoundInv /\ [Next]_vars => FoundInv'
<1> SUFFICES ASSUME ScanInv, FoundInv, [Next]_vars PROVE FoundInv'
  OBVIOUS
<1>1. ASSUME Start \/ ReadConfig PROVE FoundInv'
  BY <1>1, FoundAtStart
<1>2. ASSUME ProbeBme(TRUE) \/ ProbeSht PROVE FoundInv'
  BY <1>2, FoundByProbeBme, FoundByProbeSht
<1>3. ASSUME pc' \in {"down", "round"} \/ clean' = FALSE PROVE FoundInv'
  BY <1>3 DEF FoundInv
<1>4. ASSUME BusFails \/ BmeSilent \/ ProbeBme(FALSE) PROVE FoundInv'
  BY <1>3, <1>4 DEF BusFails, BmeSilent, ProbeBme, Way, Fault
<1>5. ASSUME NEW answers \in BOOLEAN, Connect(answers) PROVE FoundInv'
  BY <1>5, FoundStays DEF Connect, NoFault, outside
<1>6. ASSUME Segfault \/ Crash \/ ShtBusFails PROVE FoundInv'
  BY <1>3, <1>6 DEF Segfault, Crash, ShtBusFails, Exit
<1>7. ASSUME Unselect \/ Check \/ Redis PROVE FoundInv'
  <2>1. CASE Check /\ Exit
    BY <1>3, <2>1 DEF Exit
  <2>2. CASE Check /\ ~Exit
    BY <2>2, FoundStays DEF Check, NoFault, outside
  <2>3. CASE Unselect
    BY <2>3, FoundStays DEF Unselect, NoFault, outside
  <2>4. CASE Redis
    BY <2>4, FoundStays DEF Redis
  <2> QED
    BY <1>7, <2>1, <2>2, <2>3, <2>4
<1>8. ASSUME (\E own \in BOOLEAN : ReadBme(own)) \/ ReadSht \/ EndRound PROVE FoundInv'
  BY <1>3, <1>8 DEF ReadBme, ReadSht, EndRound, Exit
<1>9. ASSUME UNCHANGED vars PROVE FoundInv'
  BY <1>9 DEF vars, config, place, bus, found, outside, history, FoundInv, Found, Present,
              Reachable, Before, Here
<1>10. ASSUME StartUp PROVE FoundInv'
  BY <1>1, <1>2, <1>5, <1>6, <1>7, <1>10 DEF StartUp
<1> QED
  BY <1>1, <1>4, <1>6, <1>7, <1>8, <1>9, <1>10 DEF Next

\* When the scan ends everything is behind it.
LEMMA AllPassed ==
    ASSUME ScanInv, pc = "connect", NEW d \in devices, Reachable(d)
    PROVE  Before(d)
<1>1. d.ext # 0 => Slot(d.ext) \in Slots /\ iface_board_len = 3
  BY PlaceOfDevice DEF ScanInv, Reachable, TypeInv
<1>2. d.ext # 0 => extension /\ i = 9
  BY <1>1 DEF ScanInv, Placed
<1> QED
  BY <1>1, <1>2 DEF Before, Slots

LEMMA FoundIsComplete == ASSUME ScanInv, FoundInv PROVE EntriesAreDevices
<1>1. Present =>
        \A e, f \in Entries : e.own /\ f.own => ((e.name = f.name) <=> (e.device = f.device))
  BY NamesOfEntries DEF Present
<1> DEFINE seen == IF iface_board_len = 4 THEN {d \in devices : d.mux < 4 /\ d.ext = 0}
                   ELSE {d \in devices : d.mux < 3 \/ (ext_addr = board /\ d.ext # 0)}
           sensors == {d \in seen : d.address \in BmeAddresses}
<1>2. ASSUME pc = "connect", clean, Present
      PROVE  Len(bmes) = Cardinality(sensors) /\ {e.device : e \in Range(bmes)} = sensors
  <2>1. Found
    BY <1>2 DEF FoundInv
  <2>2. iface_board_len \in {3, 4} /\ bmes \in Seq(EntrySet)
    BY DEF ScanInv, TypeInv, DefaultLen
  <2>3. ASSUME NEW d \in devices PROVE (d \in sensors) <=> Reachable(d)
    <3>1. d.mux \in 0..3 /\ ((d.ext # 0) <=> (d.mux = 3 /\ board # 0))
      BY OnTheRack DEF ScanInv
    <3>2. CASE iface_board_len = 4
      BY <3>1, <3>2 DEF Reachable
    <3>3. CASE iface_board_len = 3
      BY <3>1, <3>3 DEF Reachable
    <3> QED
      BY <2>2, <3>2, <3>3
  <2>4. sensors \subseteq devices
    OBVIOUS
  <2> HIDE DEF sensors
  <2>5. ASSUME NEW d \in devices
        PROVE  (\E m \in 1..Len(bmes) : bmes[m].device = d) <=> d \in sensors
    BY <1>2, <2>1, <2>3, AllPassed DEF Found
  <2>6. \A m \in 1..Len(bmes) : bmes[m].device \in devices
    <3>1. ASSUME NEW m \in 1..Len(bmes) PROVE bmes[m] \in EntrySet
      BY <2>2
    <3> QED
      BY <3>1 DEF EntrySet
  <2>7. {e.device : e \in Range(bmes)} = sensors
    BY <2>2, <2>4, <2>5, <2>6 DEF Range
  <2> DEFINE f == [m \in 1..Len(bmes) |-> bmes[m].device]
  <2>8. Len(bmes) \in Nat
    BY <2>2
  <2>9. f \in [1..Len(bmes) -> sensors] /\ \A m \in 1..Len(bmes) : f[m] = bmes[m].device
    BY <2>5, <2>6
  <2> HIDE DEF f
  <2>10. f \in Bijection(1..Len(bmes), sensors)
    <3>1. \A m, o \in 1..Len(bmes) : f[m] = f[o] => m = o
      BY <2>1, <2>9 DEF Found
    <3>2. \A d \in sensors : \E m \in 1..Len(bmes) : f[m] = d
      BY <2>4, <2>5, <2>9
    <3>3. f \in Injection(1..Len(bmes), sensors)
      BY <2>9, <3>1 DEF Injection, IsInjective
    <3>4. f \in Surjection(1..Len(bmes), sensors)
      BY <2>9, <3>2 DEF Surjection
    <3> QED
      BY <3>3, <3>4 DEF Bijection
  <2>11. ExistsBijection(1..Len(bmes), sensors)
    BY <2>10 DEF ExistsBijection
  <2>12. Cardinality(sensors) = Len(bmes)
    BY <2>8, <2>11, FS_CountingElements
  <2> QED
    BY <2>7, <2>12
<1> QED
  BY <1>1, <1>2 DEF EntriesAreDevices, Present

\* Two entries that were found on the service's own way have the same name if and only
\* if they are the same device, whatever selections went astray for others, and a scan
\* without failures finds every BME280 that it passes, once, with an extension board
\* wherever device.json names one (main lines 163 to 267).
THEOREM ScanFindsDevices == Spec => []EntriesAreDevices
<1>1. Init => FoundInv
  BY DEF Init, FoundInv
<1>2. ScanInv /\ FoundInv /\ [Next]_vars => FoundInv'
  BY FoundNext
<1>3. ScanInv /\ FoundInv => EntriesAreDevices
  BY FoundIsComplete
<1> QED
  BY <1>1, <1>2, <1>3, ScanInvariant, PTL DEF Spec

-------------------------------------------------------------------------------
(* How many entries, and how many probes. *)

\* The places of the scan, those that it has behind it, and the probes that it has
\* before it: of a BME280, and of an SHT3x where there was none.
Places == IF iface_board_len = 3 THEN 18 ELSE 8
Passed ==
    IF pc \in {"down", "config"} THEN 0
    ELSE IF pc \notin {"bme", "sht"} THEN Places
    ELSE IF extension THEN 6 + 2 * (i - 1 - (i \div 4)) + k ELSE i
ProbesLeft ==
    CASE pc = "bme" -> 2 * (Places - Passed)
      [] pc = "sht" -> 2 * (Places - Passed) - 1
      [] OTHER -> 0

RoomInv == Len(bmes) + Len(shts) <= Passed

\* No selection of the scan that found a sensor went astray.
OwnWay == \A m \in 1..Len(bmes) : bmes[m].own

\* No BME280 is entered twice then, whatever else fails.
OnceInv ==
    Present /\ OwnWay =>
        /\ \A d \in devices :
                (\E m \in 1..Len(bmes) : bmes[m].device = d) => Reachable(d) /\ Before(d)
        /\ \A m, o \in 1..Len(bmes) : bmes[m].device = bmes[o].device => m = o

Bme280s == {d \in devices : d.address \in BmeAddresses}

EntriesFit ==
    /\ Len(bmes) + Len(shts) <= Places
    /\ Present /\ OwnWay => Len(bmes) <= Cardinality(Bme280s)

ScanGoesOn ==
    pc \in {"bme", "sht"} => ProbesLeft \in 1..36 /\ (pc' = "down" \/ ProbesLeft' < ProbesLeft)

LEMMA PassedIsBounded ==
    ASSUME ScanInv
    PROVE  /\ Places \in {8, 18} /\ Passed \in 0..Places
           /\ pc \in {"bme", "sht"} => Passed < Places
           /\ pc \in {"unselect", "check", "connect", "round"} => Passed = Places
<1>1. iface_board_len \in {3, 4} /\ i \in Nat /\ k \in {0, 1} /\ extension \in BOOLEAN
  BY DEF ScanInv, TypeInv, Placed, DefaultLen
<1>2. CASE pc \in {"bme", "sht"}
  <2>1. CASE extension
    <3>1. i \in {1, 2, 3, 5, 6, 7} /\ iface_board_len = 3
      BY <1>2, <2>1 DEF ScanInv, Placed, Slots
    <3>2. i - 1 - (i \div 4) \in 0..5
      BY <3>1
    <3> QED
      BY <1>1, <1>2, <2>1, <3>1, <3>2 DEF Passed, Places
  <2>2. CASE ~extension
    BY <1>1, <1>2, <2>2 DEF ScanInv, Placed, Passed, Places
  <2> QED
    BY <1>1, <2>1, <2>2
<1>3. CASE pc \notin {"bme", "sht"}
  BY <1>1, <1>3 DEF Passed, Places
<1> QED
  BY <1>2, <1>3

LEMMA NextPlaceCounts ==
    ASSUME TypeInv, Placed, pc \in {"bme", "sht"}, NextPlace, UNCHANGED iface_board_len
    PROVE  Passed' = Passed + 1 /\ Places' = Places /\ Passed \in Nat
<1> USE DEF Placed, DefaultLen
<1>0. /\ iface_board_len \in {3, 4} /\ extension \in BOOLEAN /\ i \in Nat /\ k \in {0, 1}
      /\ Places' = Places
  BY DEF TypeInv, Places
<1>1. CASE ~extension /\ i + 1 < 2 * iface_board_len
           /\ i' = i + 1 /\ pc' = "bme" /\ UNCHANGED <<k, extension>>
  BY <1>0, <1>1 DEF Passed
<1>2. CASE ~extension /\ i + 1 = 2 * iface_board_len /\ iface_board_len = 3
           /\ i' = 1 /\ k' = 0 /\ extension' = TRUE /\ pc' = "bme"
  BY <1>0, <1>2 DEF Passed
<1>3. CASE ~extension /\ i + 1 = 2 * iface_board_len /\ iface_board_len # 3
           /\ pc' = "check" /\ UNCHANGED place
  BY <1>0, <1>3 DEF place, Passed, Places
<1>4. CASE extension /\ k = 0 /\ k' = 1 /\ pc' = "bme" /\ UNCHANGED <<i, extension>>
  BY <1>0, <1>4 DEF Passed
<1>5. CASE extension /\ k = 1 /\ k' = 0 /\ UNCHANGED extension
           /\ i' = (IF (i + 1) % 4 = 0 THEN i + 2 ELSE i + 1)
           /\ pc' = IF i' < ExtEnd THEN "bme" ELSE "unselect"
  <2>1. i \in {1, 2, 3, 5, 6, 7} /\ iface_board_len = 3
    BY <1>5 DEF Slots
  <2>2. CASE i' < 8
    BY <1>0, <1>5, <2>1, <2>2 DEF Passed, ExtEnd
  <2>3. CASE ~(i' < 8)
    BY <1>0, <1>5, <2>1, <2>3 DEF Passed, ExtEnd, Places
  <2> QED
    BY <2>2, <2>3
<1> QED
  BY <1>1, <1>2, <1>3, <1>4, <1>5 DEF NextPlace

\* The steps of the scan, and what each does to the place and the entries.
LEMMA ScanSteps ==
    ASSUME ScanInv, [Next]_vars, pc \in {"bme", "sht"}
    PROVE  \/ UNCHANGED vars
           \/ pc' = "down" /\ bmes' = <<>> /\ shts' = <<>>
           \/ /\ pc = "bme" /\ pc' = "sht"
              /\ UNCHANGED <<board, devices, config, place, found>>
           \/ pc = "bme" /\ \E own \in BOOLEAN : ProbeBme(own)
           \/ pc = "sht" /\ ProbeSht
<1>1. CASE UNCHANGED vars
  BY <1>1
<1>2. CASE BusFails \/ BmeSilent
  <2>1. pc = "bme" /\ pc' = "sht" /\ UNCHANGED <<board, devices, config, place, found>>
    BY <1>2 DEF BusFails, BmeSilent, outside
  <2> QED
    BY <2>1
<1>3. CASE ShtBusFails \/ Crash
  BY <1>3 DEF ShtBusFails, Crash, Exit, Fresh
<1>4. CASE StartUp \/ ProbeBme(FALSE)
  BY <1>4 DEF StartUp, Start, ProbeBme, ProbeSht, Unselect, Check, Connect, Segfault
<1>5. CASE ReadConfig \/ (\E own \in BOOLEAN : ReadBme(own)) \/ ReadSht \/ EndRound \/ Redis
  BY <1>5 DEF ReadConfig, ReadBme, ReadSht, EndRound, Redis
<1> QED
  BY <1>1, <1>2, <1>3, <1>4, <1>5 DEF Next

\* What a probe does.
LEMMA ProbeBmeStep ==
    ASSUME ScanInv, NEW own \in BOOLEAN, ProbeBme(own)
    PROVE  /\ UNCHANGED <<board, devices, config, shts>> /\ (own => Direct(BmeId))
           /\ \/ pc' = "sht" /\ UNCHANGED <<bmes, place>>
              \/ /\ NextPlace /\ Len(bmes') = Len(bmes) + 1
                 /\ bmes'[Len(bmes')].device \in OnBus(BmeAddress)
                 /\ bmes'[Len(bmes')].own = own
                 /\ \A m \in 1..Len(bmes) : bmes'[m] = bmes[m]
<1>1. UNCHANGED <<board, devices, config, shts>> /\ (own => Direct(BmeId))
  BY DEF ProbeBme, Way, outside
<1>2. CASE pc' = "sht" /\ UNCHANGED <<bmes, place>>
  BY <1>1, <1>2
<1>3. CASE /\ \E d \in OnBus(BmeAddress) :
                    bmes' = Append(bmes, Entry(BmeNumber, BmeAddress, BmeId, d, own))
           /\ NextPlace
  <2>1. PICK d \in OnBus(BmeAddress) :
            bmes' = Append(bmes, Entry(BmeNumber, BmeAddress, BmeId, d, own))
    BY <1>3
  <2> DEFINE e == Entry(BmeNumber, BmeAddress, BmeId, d, own)
             S == EntrySet \cup {e}
  <2>2. bmes \in Seq(EntrySet) /\ e.device = d /\ e.own = own
    BY DEF ScanInv, TypeInv, Entry
  <2>3. bmes' = Append(bmes, e)
    BY <2>1
  <2>4. e \in S /\ EntrySet \subseteq S
    OBVIOUS
  <2> HIDE DEF e, S
  <2>5. bmes \in Seq(S)
    BY <2>2, <2>4
  <2>6. /\ Len(bmes') = Len(bmes) + 1 /\ bmes'[Len(bmes')] = e
        /\ \A m \in 1..Len(bmes) : bmes'[m] = bmes[m]
    BY <2>3, <2>4, <2>5, EntryAdded
  <2> QED
    BY <1>1, <1>3, <2>2, <2>6
<1> QED
  BY <1>2, <1>3 DEF ProbeBme

LEMMA ProbeShtStep ==
    ASSUME ScanInv, ProbeSht
    PROVE  /\ UNCHANGED <<board, devices, config, bmes>> /\ NextPlace
           /\ Len(shts') \in {Len(shts), Len(shts) + 1}
<1>1. UNCHANGED <<board, devices, config, bmes>> /\ NextPlace
  BY DEF ProbeSht, outside
<1>2. CASE UNCHANGED shts
  BY <1>1, <1>2
<1>3. CASE \E d \in OnBus(ShtAddress) :
                shts' = Append(shts, Entry(i % iface_board_len, ShtAddress, ShtId, d, TRUE))
  <2>1. PICK d \in OnBus(ShtAddress) :
                shts' = Append(shts, Entry(i % iface_board_len, ShtAddress, ShtId, d, TRUE))
    BY <1>3
  <2> DEFINE e == Entry(i % iface_board_len, ShtAddress, ShtId, d, TRUE)
  <2>2. shts \in Seq(EntrySet) /\ shts' = Append(shts, e)
    BY <2>1 DEF ScanInv, TypeInv
  <2> HIDE DEF e
  <2>3. Len(shts') = Len(shts) + 1
    BY <2>2
  <2> QED
    BY <1>1, <2>3
<1> QED
  BY <1>2, <1>3 DEF ProbeSht

\* Before the scan and after it.
LEMMA OtherSteps ==
    ASSUME ScanInv, [Next]_vars, pc \notin {"bme", "sht"}
    PROVE  \/ bmes' = <<>> /\ shts' = <<>> /\ Passed' = 0
           \/ /\ UNCHANGED <<board, devices, config, place, found>>
              /\ pc \in {"unselect", "check", "connect", "round"}
              /\ pc' \in {"unselect", "check", "connect", "round"}
           \/ UNCHANGED vars
<1>0. CASE UNCHANGED vars
  BY <1>0
<1>1. CASE Start \/ ReadConfig
  <2>1. bmes = <<>> /\ shts = <<>> /\ i = 0 /\ extension = FALSE
    BY <1>1 DEF ScanInv, Configured, Idle, Start, ReadConfig
  <2> QED
    BY <1>1, <2>1 DEF Start, ReadConfig, Passed, place, found
<1>2. CASE Exit
  BY <1>2 DEF Exit, Fresh, Passed
<1>3. CASE Unselect \/ Check \/ (\E answers \in BOOLEAN : Connect(answers))
  BY <1>2, <1>3 DEF Unselect, Check, Connect, outside
<1>4. CASE (\E own \in BOOLEAN : ReadBme(own)) \/ ReadSht \/ EndRound \/ Redis
  BY <1>2, <1>4 DEF ReadBme, ReadSht, EndRound, Redis, outside
<1>5. CASE ProbeBme(TRUE) \/ ProbeBme(FALSE) \/ ProbeSht \/ BusFails \/ BmeSilent
  BY <1>5 DEF ProbeBme, ProbeSht, BusFails, BmeSilent
<1>6. CASE Segfault \/ ShtBusFails \/ Crash
  BY <1>2, <1>6 DEF Segfault, ShtBusFails, Crash
<1> QED
  BY <1>0, <1>1, <1>3, <1>4, <1>5, <1>6 DEF Next, StartUp

LEMMA RoomNext == ScanInv /\ RoomInv /\ [Next]_vars => RoomInv'
<1> SUFFICES ASSUME ScanInv, RoomInv, [Next]_vars PROVE RoomInv'
  OBVIOUS
<1>0. /\ Len(bmes) \in Nat /\ Len(shts) \in Nat /\ Len(bmes') \in Nat /\ Len(shts') \in Nat
  BY DEF ScanInv, TypeInv
<1>1. CASE pc \in {"bme", "sht"}
  <2>1. CASE UNCHANGED vars
    BY <2>1 DEF RoomInv, Passed, Places, vars, config, place, found
  <2>2. CASE pc' = "down" /\ bmes' = <<>> /\ shts' = <<>>
    BY <2>2 DEF RoomInv, Passed
  <2>3. CASE /\ pc = "bme" /\ pc' = "sht"
             /\ UNCHANGED <<board, devices, config, place, found>>
    BY <2>3 DEF RoomInv, Passed, Places, config, place, found
  <2>4. CASE pc = "bme" /\ \E own \in BOOLEAN : ProbeBme(own)
    <3>1. CASE pc' = "sht" /\ UNCHANGED <<bmes, place>>
      BY <2>4, <3>1, ProbeBmeStep DEF RoomInv, Passed, Places, config, place
    <3>2. CASE NextPlace /\ Len(bmes') = Len(bmes) + 1 /\ UNCHANGED <<config, shts>>
      BY <1>0, <2>4, <3>2, NextPlaceCounts DEF RoomInv, ScanInv, config
    <3> QED
      BY <2>4, <3>1, <3>2, ProbeBmeStep
  <2>5. CASE pc = "sht" /\ ProbeSht
    <3>1. /\ UNCHANGED <<config, bmes>> /\ NextPlace
          /\ Len(shts') \in {Len(shts), Len(shts) + 1}
      BY <2>5, ProbeShtStep
    <3> QED
      BY <1>0, <2>5, <3>1, NextPlaceCounts DEF RoomInv, ScanInv, config
  <2> QED
    BY <1>1, <2>1, <2>2, <2>3, <2>4, <2>5, ScanSteps
<1>2. CASE pc \notin {"bme", "sht"}
  <2>2. CASE bmes' = <<>> /\ shts' = <<>> /\ Passed' = 0
    BY <2>2 DEF RoomInv
  <2>3. CASE /\ UNCHANGED <<board, devices, config, place, found>>
             /\ pc \in {"unselect", "check", "connect", "round"}
             /\ pc' \in {"unselect", "check", "connect", "round"}
    BY <2>3 DEF RoomInv, Passed, Places, found, config
  <2>4. CASE UNCHANGED vars
    BY <2>4 DEF RoomInv, Passed, Places, vars, config, place, found
  <2> QED
    BY <1>2, <2>2, <2>3, <2>4, OtherSteps
<1> QED
  BY <1>1, <1>2

\* The scan enters no BME280 a second time, whichever probes failed in between, unless
\* it met a sensor on a way that was not its own.
LEMMA OnceNext == ScanInv /\ OnceInv /\ [Next]_vars => OnceInv'
<1> SUFFICES ASSUME ScanInv, OnceInv, [Next]_vars PROVE OnceInv'
  OBVIOUS
<1> USE DEF ScanInv
<1>1. CASE bmes' = <<>>
  BY <1>1 DEF OnceInv
<1>2. CASE UNCHANGED vars
  BY <1>2 DEF OnceInv, OwnWay, Present, Reachable, Before, vars, config, place, found, outside
<1>3. CASE /\ UNCHANGED <<board, devices, config, place, bmes>>
           /\ pc \in {"bme", "sht"} <=> pc' \in {"bme", "sht"}
  BY <1>3 DEF OnceInv, OwnWay, Present, Reachable, Before, config, place
<1>4. ASSUME NextPlace, pc \in {"bme", "sht"}, UNCHANGED <<board, devices, config>>
      PROVE  /\ Present' <=> Present
             /\ \A d : Reachable(d)' <=> Reachable(d)
             /\ \A d \in devices : Reachable(d) => ((Before(d) \/ Here(d)) <=> Before(d)')
  <2>1. UNCHANGED <<iface_board_len, ext_addr>>
    BY <1>4 DEF config
  <2>2. \A d \in devices : Reachable(d) => ((Before(d) \/ Here(d)) <=> Before(d)')
    BY <1>4, <2>1, NextPasses
  <2> QED
    BY <1>4, <2>1, <2>2 DEF Present, Reachable
<1>5. \A m \in 1..Len(bmes) : bmes[m].device \in devices
  <2>1. ASSUME NEW m \in 1..Len(bmes) PROVE bmes[m] \in EntrySet
    BY DEF TypeInv
  <2> QED
    BY <2>1 DEF EntrySet
<1>6. ASSUME pc = "bme", NextPlace, Len(bmes') = Len(bmes) + 1,
             bmes'[Len(bmes')].own => Direct(BmeId), bmes'[Len(bmes')].device \in OnBus(BmeAddress),
             \A m \in 1..Len(bmes) : bmes'[m] = bmes[m],
             UNCHANGED <<board, devices, config, shts>>
      PROVE  OnceInv'
  <2> DEFINE x == bmes'[Len(bmes')].device
  <2>a. Len(bmes) \in Nat
    BY DEF TypeInv
  <2>1. SUFFICES ASSUME Present, OwnWay, Direct(BmeId) PROVE OnceInv'
    <3>1. OwnWay' => OwnWay /\ bmes'[Len(bmes')].own
      BY <1>6, <2>a DEF OwnWay
    <3> QED
      BY <1>4, <1>6, <3>1 DEF OnceInv
  <2>2. x \in devices /\ Reachable(x) /\ Here(x)
    <3>1. x \in devices
      BY <1>6 DEF OnBus
    <3> QED
      BY <1>6, <2>1, <3>1, OnBusIsHere
  <2>3. \A m \in 1..Len(bmes) : bmes[m].device # x
    BY <1>5, <1>6, <2>1, <2>2, BeforeIsNotHere DEF OnceInv
  <2> HIDE DEF x
  <2>4. Len(bmes) \in Nat /\ x = bmes'[Len(bmes')].device
    BY DEF TypeInv, x
  <2>5. \A m \in 1..Len(bmes') : m \in 1..Len(bmes) \/ m = Len(bmes')
    BY <1>6, <2>4
  <2>6. ASSUME NEW d \in devices, NEW m \in 1..Len(bmes'), bmes'[m].device = d
        PROVE  Reachable(d)' /\ Before(d)'
    <3>1. CASE m \in 1..Len(bmes)
      <4>1. Reachable(d) /\ Before(d)
        BY <1>6, <2>1, <2>6, <3>1 DEF OnceInv
      <4> QED
        BY <1>4, <1>6, <4>1
    <3>2. CASE m = Len(bmes')
      BY <1>4, <1>6, <2>2, <2>4, <2>6, <3>2
    <3> QED
      BY <2>5, <3>1, <3>2
  <2>7. \A m, o \in 1..Len(bmes') : bmes'[m].device = bmes'[o].device => m = o
    <3>1. SUFFICES ASSUME NEW m \in 1..Len(bmes'), NEW o \in 1..Len(bmes'),
                          bmes'[m].device = bmes'[o].device
                   PROVE  m = o
      OBVIOUS
    <3>2. CASE m \in 1..Len(bmes) /\ o \in 1..Len(bmes)
      BY <1>6, <2>1, <3>1, <3>2 DEF OnceInv
    <3>3. CASE m = Len(bmes') \/ o = Len(bmes')
      BY <1>6, <2>3, <2>4, <2>5, <3>1, <3>3
    <3> QED
      BY <2>5, <3>2, <3>3
  <2> QED
    BY <1>6, <2>6, <2>7 DEF OnceInv
<1>7. CASE pc \in {"bme", "sht"}
  <2>1. ASSUME pc = "bme", NEW own \in BOOLEAN, ProbeBme(own) PROVE OnceInv'
    <3>1. CASE pc' = "sht" /\ UNCHANGED <<bmes, place>>
      BY <1>3, <2>1, <3>1, ProbeBmeStep
    <3>2. CASE ~(pc' = "sht" /\ UNCHANGED <<bmes, place>>)
      BY <1>6, <2>1, <3>2, ProbeBmeStep
    <3> QED
      BY <3>1, <3>2
  <2>2. CASE pc = "sht" /\ ProbeSht
    <3>1. /\ UNCHANGED <<board, devices, config, bmes>> /\ NextPlace
      BY <2>2, ProbeShtStep
    <3> QED
      BY <1>4, <1>5, <2>2, <3>1 DEF OnceInv, OwnWay
  <2>3. CASE pc = "bme" /\ pc' = "sht" /\ UNCHANGED <<board, devices, config, place, found>>
    BY <1>3, <2>3 DEF found
  <2> QED
    BY <1>1, <1>2, <1>7, <2>1, <2>2, <2>3, ScanSteps
<1>8. CASE pc \notin {"bme", "sht"}
  <2>1. CASE /\ UNCHANGED <<board, devices, config, place, found>>
             /\ pc \in {"unselect", "check", "connect", "round"}
             /\ pc' \in {"unselect", "check", "connect", "round"}
    BY <1>3, <2>1 DEF found
  <2> QED
    BY <1>1, <1>2, <1>8, <2>1, OtherSteps
<1> QED
  BY <1>7, <1>8

\* A rack is finite.
LEMMA RackIsFinite == ASSUME TypeInv PROVE IsFiniteSet(devices)
<1>1. ASSUME NEW b \in Int PROVE IsFiniteSet(0..b)
  <2>1. 0 \in Int
    OBVIOUS
  <2> QED
    BY <2>1, FS_Interval
<1>2. IsFiniteSet({0} \cup Channels)
  <2>1. {0} \cup Channels \in SUBSET (0..12) /\ 12 \in Int
    BY DEF Channels
  <2> QED
    BY <1>1, <2>1, FS_Subset
<1>3. IsFiniteSet(Addresses)
  <2>1. Addresses \in SUBSET (0..119) /\ 119 \in Int
    BY DEF Addresses, BmeAddresses, PRIM, SEC, DFLT, ALT
  <2> QED
    BY <1>1, <2>1, FS_Subset
<1> DEFINE A == (0..3) \X ({0} \cup Channels)
           P == A \X Addresses
           f == [d \in devices |-> <<<<d.mux, d.ext>>, d.address>>]
<1>4. IsFiniteSet(P)
  <2>1. IsFiniteSet(A)
    <3>1. 3 \in Int
      OBVIOUS
    <3>2. IsFiniteSet(0..3)
      BY <1>1, <3>1
    <3> QED
      BY <1>2, <3>2, FS_Product
  <2> HIDE DEF A
  <2> QED
    BY <1>3, <2>1, FS_Product
<1>5. \A d \in devices : d \in [mux : 0..3, ext : {0} \cup Channels, address : Addresses]
  BY OnTheRack
<1>6. f \in [devices -> P]
  BY <1>5
<1>7. \A d, e \in devices : f[d] = f[e] => d = e
  BY <1>5
<1>8. f \in Injection(devices, P)
  <2> HIDE DEF f, P
  <2> QED
    BY <1>6, <1>7 DEF Injection, IsInjective
<1> HIDE DEF f, P
<1> QED
  BY <1>4, <1>8, FS_Injection

\* So there are no more of them than the rack has.
LEMMA OnceIsFew ==
    ASSUME ScanInv, OnceInv, Present, OwnWay
    PROVE  Len(bmes) <= Cardinality(Bme280s)
<1> DEFINE f == [m \in 1..Len(bmes) |-> bmes[m].device]
<1>1. Len(bmes) \in Nat
  BY DEF ScanInv, TypeInv
<1>2. ASSUME NEW m \in 1..Len(bmes) PROVE bmes[m].device \in Bme280s
  <2>1. bmes[m] \in EntrySet
    BY DEF ScanInv, TypeInv
  <2> QED
    BY <2>1 DEF OnceInv, Reachable, Bme280s, EntrySet
<1>3. f \in [1..Len(bmes) -> Bme280s] /\ \A m \in 1..Len(bmes) : f[m] = bmes[m].device
  BY <1>2
<1> HIDE DEF f
<1>4. \A m, o \in 1..Len(bmes) : f[m] = f[o] => m = o
  BY <1>3 DEF OnceInv
<1>5. f \in Injection(1..Len(bmes), Bme280s)
  BY <1>3, <1>4 DEF Injection, IsInjective
<1>6. IsFiniteSet(Bme280s)
  <2>1. IsFiniteSet(devices) /\ Bme280s \in SUBSET devices
    BY RackIsFinite DEF ScanInv, Bme280s
  <2> QED
    BY <2>1, FS_Subset
<1>7. Cardinality(1..Len(bmes)) = Len(bmes)
  <2> DEFINE w == Len(bmes)
  <2>1. w \in Nat /\ w \in Int /\ 1 \in Int
    BY <1>1
  <2> HIDE DEF w
  <2>2. Cardinality(1..w) = IF 1 > w THEN 0 ELSE w - 1 + 1
    BY <2>1, FS_Interval, SMTT(30)
  <2>3. (IF 1 > w THEN 0 ELSE w - 1 + 1) = w
    BY <2>1
  <2>4. Cardinality(1..w) = w
    BY <2>2, <2>3
  <2> QED
    BY <2>4 DEF w
<1> QED
  BY <1>5, <1>6, <1>7, FS_Injection

\* Whatever failed in the scan, it enters at most as many sensors as it has places,
\* eight of the base board and eighteen with an extension board, and no BME280 twice
\* unless it met one on a way that was not its own:
\* bme_sensors and sht_sensors, of sixteen (main lines 121 and 122, indexed at 176, 237
\* and 254 without a look at their ends), hold the scan of a base board, and bme_sensors
\* that of any rack with at most sixteen BME280s.
THEOREM EntriesHaveRoom == Spec => []EntriesFit
<1>1. Init => RoomInv /\ OnceInv
  BY DEF Init, RoomInv, OnceInv, Passed
<1>2. ScanInv /\ RoomInv /\ [Next]_vars => RoomInv'
  BY RoomNext
<1>3. ScanInv /\ OnceInv /\ [Next]_vars => OnceInv'
  BY OnceNext
<1>4. ScanInv /\ RoomInv /\ OnceInv => EntriesFit
  <2> SUFFICES ASSUME ScanInv, RoomInv, OnceInv PROVE EntriesFit
    OBVIOUS
  <2>1. Len(bmes) \in Nat /\ Len(shts) \in Nat
    BY DEF ScanInv, TypeInv
  <2>2. Len(bmes) + Len(shts) <= Places
    BY <2>1, PassedIsBounded DEF RoomInv
  <2> QED
    BY <2>2, OnceIsFew DEF EntriesFit
<1> QED
  BY <1>1, <1>2, <1>3, <1>4, ScanInvariant, PTL DEF Spec

\* The scan comes to its end, whatever fails: there are at most 36 probes, every step
\* is one or ends the process, and none is done again (main lines 163 to 262).
THEOREM ScanComesToItsEnd == Spec => [][ScanGoesOn]_vars
<1>1. ScanInv /\ [Next]_vars => [ScanGoesOn]_vars
  <2> SUFFICES ASSUME ScanInv, [Next]_vars, ~ UNCHANGED vars, pc \in {"bme", "sht"}
               PROVE  ProbesLeft \in 1..36 /\ (pc' = "down" \/ ProbesLeft' < ProbesLeft)
    BY DEF ScanGoesOn
  <2>1. Places \in {8, 18} /\ Passed \in 0..Places /\ Passed < Places
    BY PassedIsBounded
  <2>2. ProbesLeft \in 1..36
    BY <2>1 DEF ProbesLeft
  <2>3. ASSUME pc = "bme", pc' = "sht", UNCHANGED <<config, place>>
        PROVE  ProbesLeft' < ProbesLeft
    <3>1. Passed' = Passed /\ Places' = Places
      BY <2>3 DEF Passed, Places, config, place
    <3> QED
      BY <2>1, <2>3, <3>1 DEF ProbesLeft
  <2>4. ASSUME NextPlace, UNCHANGED config PROVE ProbesLeft' < ProbesLeft
    <3>1. Passed' = Passed + 1 /\ Places' = Places
      BY <2>4, NextPlaceCounts DEF ScanInv, config
    <3>2. pc' # "sht"
      BY <2>4, NextIsPlaced DEF ScanInv, config
    <3>3. ProbesLeft' \in {2 * (Places' - Passed'), 0}
      BY <3>2 DEF ProbesLeft
    <3>4. ProbesLeft \in {2 * (Places - Passed), 2 * (Places - Passed) - 1}
      BY DEF ProbesLeft
    <3> QED
      BY <2>1, <2>2, <3>1, <3>3, <3>4
  <2>5. CASE pc = "bme" /\ \E own \in BOOLEAN : ProbeBme(own)
    <3>1. UNCHANGED config /\ ((pc' = "sht" /\ UNCHANGED place) \/ NextPlace)
      BY <2>5, ProbeBmeStep
    <3> QED
      BY <2>2, <2>3, <2>4, <2>5, <3>1
  <2>6. CASE pc = "sht" /\ ProbeSht
    <3>1. UNCHANGED config /\ NextPlace
      BY <2>6, ProbeShtStep
    <3> QED
      BY <2>2, <2>4, <3>1
  <2> QED
    BY <2>2, <2>3, <2>5, <2>6, ScanSteps
<1> QED
  BY <1>1, ScanInvariant, PTL DEF Spec

-------------------------------------------------------------------------------
(***************************************************************************)
(* Checksums: the remainder of a sum is the sum of the remainders, and so  *)
(* a disturbance shows or hides whatever the word that it falls on.        *)
(***************************************************************************)

Powers == {1, 2, 4, 8, 16, 32, 64, 128}
Bit(x, p) == (x \div p) % 2

\* A byte is the sum of its bits.
LEMMA ByteOfBits ==
    ASSUME NEW x \in Byte
    PROVE  /\ x = 128 * Bit(x, 128) + 64 * Bit(x, 64) + 32 * Bit(x, 32) + 16 * Bit(x, 16)
                    + 8 * Bit(x, 8) + 4 * Bit(x, 4) + 2 * Bit(x, 2) + Bit(x, 1)
           /\ \A p \in Powers : Bit(x, p) \in {0, 1}
<1>1. /\ x = 2 * (x \div 2) + Bit(x, 1)
      /\ x \div 2 = 2 * (x \div 4) + Bit(x, 2)
      /\ x \div 4 = 2 * (x \div 8) + Bit(x, 4)
      /\ x \div 8 = 2 * (x \div 16) + Bit(x, 8)
  BY DEF Byte, Bit
<1>2. /\ x \div 16 = 2 * (x \div 32) + Bit(x, 16)
      /\ x \div 32 = 2 * (x \div 64) + Bit(x, 32)
      /\ x \div 64 = 2 * (x \div 128) + Bit(x, 64)
      /\ x \div 128 = Bit(x, 128)
  BY DEF Byte, Bit
<1>3. \A p \in Powers : Bit(x, p) \in {0, 1}
  BY DEF Byte, Bit, Powers
<1>4. /\ x \in Int /\ x \div 2 \in Int /\ x \div 4 \in Int /\ x \div 8 \in Int /\ x \div 16 \in Int
      /\ x \div 32 \in Int /\ x \div 64 \in Int /\ x \div 128 \in Int
  BY DEF Byte
<1>5. /\ Bit(x, 1) \in Int /\ Bit(x, 2) \in Int /\ Bit(x, 4) \in Int /\ Bit(x, 8) \in Int
      /\ Bit(x, 16) \in Int /\ Bit(x, 32) \in Int /\ Bit(x, 64) \in Int /\ Bit(x, 128) \in Int
  BY <1>3 DEF Powers
<1> QED
  BY <1>1, <1>2, <1>3, <1>4, <1>5

LEMMA SameBits ==
    ASSUME NEW x \in Byte, NEW y \in Byte, \A p \in Powers : Bit(x, p) = Bit(y, p)
    PROVE  x = y
BY ByteOfBits DEF Powers

LEMMA BitsOfSum ==
    ASSUME NEW a \in {0, 1}, NEW b \in {0, 1}, NEW c \in {0, 1}, NEW d \in {0, 1},
           NEW e \in {0, 1}, NEW f \in {0, 1}, NEW g \in {0, 1}, NEW h \in {0, 1}, NEW s,
           s = a * 128 + b * 64 + c * 32 + d * 16 + e * 8 + f * 4 + g * 2 + h * 1
    PROVE  /\ s \in Byte
           /\ Bit(s, 128) = a /\ Bit(s, 64) = b /\ Bit(s, 32) = c /\ Bit(s, 16) = d
           /\ Bit(s, 8) = e /\ Bit(s, 4) = f /\ Bit(s, 2) = g /\ Bit(s, 1) = h
<1>1. s \in Byte
  BY DEF Byte
<1>2. /\ s \div 128 = a /\ s \div 64 = 2 * a + b /\ s \div 32 = 4 * a + 2 * b + c
      /\ s \div 16 = 8 * a + 4 * b + 2 * c + d
  OBVIOUS
<1>3. /\ s \div 8 = 16 * a + 8 * b + 4 * c + 2 * d + e
      /\ s \div 4 = 32 * a + 16 * b + 8 * c + 4 * d + 2 * e + f
      /\ s \div 2 = 64 * a + 32 * b + 16 * c + 8 * d + 4 * e + 2 * f + g
      /\ s \div 1 = s
  OBVIOUS
<1>4. /\ Bit(s, 128) = a /\ Bit(s, 64) = b /\ Bit(s, 32) = c /\ Bit(s, 16) = d
  BY <1>2 DEF Bit
<1>5. /\ Bit(s, 8) = e /\ Bit(s, 4) = f /\ Bit(s, 2) = g /\ Bit(s, 1) = h
  BY <1>3 DEF Bit
<1> QED
  BY <1>1, <1>4, <1>5

\* A bit of the exclusive or.
LEMMA XorBits ==
    ASSUME NEW x \in Byte, NEW y \in Byte
    PROVE  /\ Xor(x, y) \in Byte
           /\ \A p \in Powers : Bit(Xor(x, y), p) = (Bit(x, p) + Bit(y, p)) % 2
<1> DEFINE bit(p) == ((x \div p) + (y \div p)) % 2
<1>1. \A p \in Powers : bit(p) \in {0, 1}
  BY DEF Byte, Powers
<1>2. \A p \in Powers : bit(p) = (Bit(x, p) + Bit(y, p)) % 2
  <2>1. ASSUME NEW q \in Int, NEW r \in Int PROVE (q + r) % 2 = ((q % 2) + (r % 2)) % 2
    OBVIOUS
  <2>2. \A p \in Powers : x \div p \in Int /\ y \div p \in Int
    BY DEF Byte, Powers
  <2> QED
    BY <2>1, <2>2 DEF Bit
<1>3. Xor(x, y) = bit(128) * 128 + bit(64) * 64 + bit(32) * 32 + bit(16) * 16 + bit(8) * 8
                    + bit(4) * 4 + bit(2) * 2 + bit(1) * 1
  BY DEF Xor
<1> HIDE DEF bit
<1>4. /\ Xor(x, y) \in Byte
      /\ Bit(Xor(x, y), 128) = bit(128) /\ Bit(Xor(x, y), 64) = bit(64)
      /\ Bit(Xor(x, y), 32) = bit(32) /\ Bit(Xor(x, y), 16) = bit(16)
      /\ Bit(Xor(x, y), 8) = bit(8) /\ Bit(Xor(x, y), 4) = bit(4)
      /\ Bit(Xor(x, y), 2) = bit(2) /\ Bit(Xor(x, y), 1) = bit(1)
  BY <1>1, <1>3, BitsOfSum DEF Powers
<1> QED
  BY <1>2, <1>4 DEF Powers

\* Of bits, the exclusive or is associative and commutative and undoes itself.
LEMMA XorOfXors ==
    ASSUME NEW x \in Byte, NEW y \in Byte, NEW u \in Byte, NEW v \in Byte
    PROVE  Xor(Xor(x, u), Xor(y, v)) = Xor(Xor(x, y), Xor(u, v))
<1>1. /\ Xor(x, u) \in Byte /\ Xor(y, v) \in Byte /\ Xor(x, y) \in Byte /\ Xor(u, v) \in Byte
      /\ Xor(Xor(x, u), Xor(y, v)) \in Byte /\ Xor(Xor(x, y), Xor(u, v)) \in Byte
  BY XorBits
<1>2. ASSUME NEW p \in Powers
      PROVE  Bit(Xor(Xor(x, u), Xor(y, v)), p) = Bit(Xor(Xor(x, y), Xor(u, v)), p)
  <2>1. /\ Bit(Xor(x, u), p) = (Bit(x, p) + Bit(u, p)) % 2
        /\ Bit(Xor(y, v), p) = (Bit(y, p) + Bit(v, p)) % 2
        /\ Bit(Xor(x, y), p) = (Bit(x, p) + Bit(y, p)) % 2
        /\ Bit(Xor(u, v), p) = (Bit(u, p) + Bit(v, p)) % 2
    BY XorBits
  <2>2. /\ Bit(Xor(Xor(x, u), Xor(y, v)), p) = (Bit(Xor(x, u), p) + Bit(Xor(y, v), p)) % 2
        /\ Bit(Xor(Xor(x, y), Xor(u, v)), p) = (Bit(Xor(x, y), p) + Bit(Xor(u, v), p)) % 2
    BY <1>1, XorBits
  <2>3. /\ Bit(Xor(Xor(x, u), Xor(y, v)), p)
             = (((Bit(x, p) + Bit(u, p)) % 2) + ((Bit(y, p) + Bit(v, p)) % 2)) % 2
        /\ Bit(Xor(Xor(x, y), Xor(u, v)), p)
             = (((Bit(x, p) + Bit(y, p)) % 2) + ((Bit(u, p) + Bit(v, p)) % 2)) % 2
    BY <2>1, <2>2, Zenon
  <2>4. Bit(x, p) \in {0, 1} /\ Bit(y, p) \in {0, 1} /\ Bit(u, p) \in {0, 1} /\ Bit(v, p) \in {0, 1}
    BY ByteOfBits
  <2>5. \A a, b, c, d \in {0, 1} : (((a + c) % 2) + ((b + d) % 2)) % 2 = (((a + b) % 2) + ((c + d) % 2)) % 2
    OBVIOUS
  <2> QED
    BY <2>3, <2>4, <2>5
<1> QED
  BY <1>1, <1>2, SameBits

\* The exclusive or with zero changes nothing, and only with zero.
LEMMA XorWithZero ==
    ASSUME NEW x \in Byte, NEW y \in Byte
    PROVE  /\ Xor(x, 0) = x /\ Xor(0, x) = x
           /\ Xor(x, y) = x <=> y = 0
<1>1. 0 \in Byte /\ \A p \in Powers : Bit(0, p) = 0
  BY DEF Byte, Bit, Powers
<1>2. \A p \in Powers : Bit(x, p) \in {0, 1} /\ Bit(y, p) \in {0, 1}
  BY ByteOfBits
<1>3. Xor(x, 0) = x
  <2>1. Xor(x, 0) \in Byte /\ \A p \in Powers : Bit(Xor(x, 0), p) = Bit(x, p)
    BY <1>1, <1>2, XorBits
  <2> QED
    BY <2>1, SameBits
<1>4. Xor(0, x) = x
  <2>1. Xor(0, x) \in Byte /\ \A p \in Powers : Bit(Xor(0, x), p) = Bit(x, p)
    BY <1>1, <1>2, XorBits
  <2> QED
    BY <2>1, SameBits
<1>5. ASSUME Xor(x, y) = x PROVE y = 0
  <2>1. \A p \in Powers : Bit(x, p) = (Bit(x, p) + Bit(y, p)) % 2
    BY <1>5, XorBits
  <2>2. \A p \in Powers : Bit(y, p) = Bit(0, p)
    BY <1>1, <1>2, <2>1
  <2> QED
    BY <1>1, <2>2, SameBits
<1> QED
  BY <1>3, <1>4, <1>5

\* It is nothing only of two bytes that are the same.
LEMMA XorIsNothing ==
    ASSUME NEW z \in Byte, NEW w \in Byte PROVE Xor(z, w) = 0 <=> z = w
<1>1. 0 \in Byte /\ \A p \in Powers : Bit(0, p) = 0
  BY DEF Byte, Bit, Powers
<1>2. \A p \in Powers : Bit(z, p) \in {0, 1} /\ Bit(w, p) \in {0, 1}
  BY ByteOfBits
<1>3. Xor(z, w) \in Byte /\ \A p \in Powers : Bit(Xor(z, w), p) = (Bit(z, p) + Bit(w, p)) % 2
  BY XorBits
<1>4. ASSUME Xor(z, w) = 0 PROVE z = w
  <2>1. \A p \in Powers : Bit(z, p) = Bit(w, p)
    BY <1>1, <1>2, <1>3, <1>4
  <2> QED
    BY <2>1, SameBits
<1>5. ASSUME z = w PROVE Xor(z, w) = 0
  <2>1. \A p \in Powers : Bit(Xor(z, w), p) = Bit(0, p)
    BY <1>1, <1>2, <1>3, <1>5
  <2> QED
    BY <1>1, <1>3, <2>1, SameBits
<1> QED
  BY <1>4, <1>5

\* Twice a byte, as far as it fits in one.
Twice(x) == (2 * x) % 256

LEMMA TwiceBits ==
    ASSUME NEW x \in Byte
    PROVE  /\ Twice(x) \in Byte
           /\ Bit(Twice(x), 128) = Bit(x, 64) /\ Bit(Twice(x), 64) = Bit(x, 32)
           /\ Bit(Twice(x), 32) = Bit(x, 16) /\ Bit(Twice(x), 16) = Bit(x, 8)
           /\ Bit(Twice(x), 8) = Bit(x, 4) /\ Bit(Twice(x), 4) = Bit(x, 2)
           /\ Bit(Twice(x), 2) = Bit(x, 1) /\ Bit(Twice(x), 1) = 0
<1> DEFINE b(p) == Bit(x, p)
<1>1. \A p \in Powers : b(p) \in {0, 1}
  BY ByteOfBits
<1>2. x = 128 * b(128) + 64 * b(64) + 32 * b(32) + 16 * b(16) + 8 * b(8) + 4 * b(4) + 2 * b(2) + b(1)
  BY ByteOfBits
<1> HIDE DEF b
<1>3. Twice(x) = b(64) * 128 + b(32) * 64 + b(16) * 32 + b(8) * 16 + b(4) * 8 + b(2) * 4 + b(1) * 2 + 0 * 1
  BY <1>1, <1>2 DEF Twice, Powers
<1>4. /\ Twice(x) \in Byte
      /\ Bit(Twice(x), 128) = b(64) /\ Bit(Twice(x), 64) = b(32)
      /\ Bit(Twice(x), 32) = b(16) /\ Bit(Twice(x), 16) = b(8)
      /\ Bit(Twice(x), 8) = b(4) /\ Bit(Twice(x), 4) = b(2)
      /\ Bit(Twice(x), 2) = b(1) /\ Bit(Twice(x), 1) = 0
  BY <1>1, <1>3, BitsOfSum DEF Powers
<1> QED
  BY <1>4 DEF b

LEMMA TwiceOfXor ==
    ASSUME NEW x \in Byte, NEW y \in Byte
    PROVE  Twice(Xor(x, y)) = Xor(Twice(x), Twice(y))
<1>1. /\ Xor(x, y) \in Byte /\ Twice(x) \in Byte /\ Twice(y) \in Byte
      /\ Twice(Xor(x, y)) \in Byte /\ Xor(Twice(x), Twice(y)) \in Byte
  BY XorBits, TwiceBits
<1>2. \A p \in Powers : Bit(Xor(Twice(x), Twice(y)), p) = (Bit(Twice(x), p) + Bit(Twice(y), p)) % 2
  BY <1>1, XorBits
<1>3. \A p \in Powers : Bit(Xor(x, y), p) = (Bit(x, p) + Bit(y, p)) % 2
  BY XorBits
<1>4. \A p \in Powers : Bit(Twice(Xor(x, y)), p) = Bit(Xor(Twice(x), Twice(y)), p)
  <2>1. /\ Bit(Twice(Xor(x, y)), 128) = Bit(Xor(x, y), 64) /\ Bit(Twice(Xor(x, y)), 64) = Bit(Xor(x, y), 32)
        /\ Bit(Twice(Xor(x, y)), 32) = Bit(Xor(x, y), 16) /\ Bit(Twice(Xor(x, y)), 16) = Bit(Xor(x, y), 8)
        /\ Bit(Twice(Xor(x, y)), 8) = Bit(Xor(x, y), 4) /\ Bit(Twice(Xor(x, y)), 4) = Bit(Xor(x, y), 2)
        /\ Bit(Twice(Xor(x, y)), 2) = Bit(Xor(x, y), 1) /\ Bit(Twice(Xor(x, y)), 1) = 0
    BY <1>1, TwiceBits
  <2>2. (0 + 0) % 2 = 0
    OBVIOUS
  <2> QED
    BY <1>2, <1>3, <2>1, <2>2, TwiceBits DEF Powers
<1> QED
  BY <1>1, <1>4, SameBits

\* One step of the division leaves the remainder of a sum the sum of the remainders.
Carry(x) == IF x >= 128 THEN CRC8_POLYNOMIAL ELSE 0

LEMMA ShiftIsTwiceAndCarry ==
    ASSUME NEW x \in Byte PROVE CrcShift(x) = Xor(Twice(x), Carry(x)) /\ Carry(x) \in Byte
<1>1. Carry(x) \in Byte
  BY DEF Carry, CRC8_POLYNOMIAL, Byte
<1>2. CASE x >= 128
  <2>1. CrcShift(x) = Xor((2 * x) % 256, CRC8_POLYNOMIAL) /\ Carry(x) = CRC8_POLYNOMIAL
    BY <1>2, Zenon DEF CrcShift, Carry
  <2> QED
    BY <1>1, <2>1, Zenon DEF Twice
<1>3. CASE ~(x >= 128)
  <2>1. Twice(x) = 2 * x /\ 2 * x \in Byte /\ Carry(x) = 0
    BY <1>3 DEF Twice, Byte, Carry
  <2>2. CrcShift(x) = 2 * x
    BY <1>3 DEF CrcShift
  <2> QED
    BY <1>1, <2>1, <2>2, XorWithZero
<1> QED
  BY <1>1, <1>2, <1>3

LEMMA CarryOfXor ==
    ASSUME NEW x \in Byte, NEW y \in Byte
    PROVE  Carry(Xor(x, y)) = Xor(Carry(x), Carry(y))
<1>1. \A z \in Byte : z >= 128 <=> Bit(z, 128) = 1
  BY DEF Byte, Bit
<1>2. Xor(x, y) \in Byte /\ Bit(Xor(x, y), 128) = (Bit(x, 128) + Bit(y, 128)) % 2
  BY XorBits DEF Powers
<1>3. Bit(x, 128) \in {0, 1} /\ Bit(y, 128) \in {0, 1}
  BY ByteOfBits DEF Powers
<1>4. Xor(x, y) >= 128 <=> ~((x >= 128) <=> (y >= 128))
  BY <1>1, <1>2, <1>3
<1>5. Xor(49, 49) = 0 /\ Xor(49, 0) = 49 /\ Xor(0, 49) = 49 /\ Xor(0, 0) = 0
  BY DEF Xor
<1> QED
  BY <1>4, <1>5 DEF Carry, CRC8_POLYNOMIAL

LEMMA CrcShiftOfXor ==
    ASSUME NEW x \in Byte, NEW y \in Byte
    PROVE  /\ CrcShift(x) \in Byte
           /\ CrcShift(Xor(x, y)) = Xor(CrcShift(x), CrcShift(y))
<1>1. /\ Xor(x, y) \in Byte /\ Twice(x) \in Byte /\ Twice(y) \in Byte
      /\ Carry(x) \in Byte /\ Carry(y) \in Byte
  BY XorBits, TwiceBits, ShiftIsTwiceAndCarry
<1>2. CrcShift(Xor(x, y)) = Xor(Xor(Twice(x), Twice(y)), Xor(Carry(x), Carry(y)))
  BY <1>1, ShiftIsTwiceAndCarry, TwiceOfXor, CarryOfXor
<1>3. Xor(CrcShift(x), CrcShift(y)) = Xor(Xor(Twice(x), Carry(x)), Xor(Twice(y), Carry(y)))
  BY ShiftIsTwiceAndCarry
<1>4. CrcShift(x) \in Byte
  BY <1>1, ShiftIsTwiceAndCarry, XorBits
<1> QED
  BY <1>1, <1>2, <1>3, <1>4, XorOfXors

\* Eight steps: what a byte does to the remainder.
Eight(x) == CrcShift(CrcShift(CrcShift(CrcShift(CrcShift(CrcShift(CrcShift(CrcShift(x))))))))

LEMMA EightOfXor ==
    ASSUME NEW x \in Byte, NEW y \in Byte
    PROVE  Eight(x) \in Byte /\ Eight(Xor(x, y)) = Xor(Eight(x), Eight(y))
<1> DEFINE S2(z) == CrcShift(CrcShift(z))
           S4(z) == S2(S2(z))
<1>1. \A u, v \in Byte : S2(u) \in Byte /\ S2(Xor(u, v)) = Xor(S2(u), S2(v))
  BY CrcShiftOfXor
<1> HIDE DEF S2
<1>2. \A u, v \in Byte : S4(u) \in Byte /\ S4(Xor(u, v)) = Xor(S4(u), S4(v))
  BY <1>1
<1> HIDE DEF S4
<1>3. S4(S4(x)) \in Byte /\ S4(S4(Xor(x, y))) = Xor(S4(S4(x)), S4(S4(y)))
  BY <1>2
<1>4. \A z : Eight(z) = S4(S4(z))
  BY DEF Eight, S2, S4
<1> QED
  BY <1>3, <1>4

\* What a disturbance of the two bytes of a word makes of their checksum.
Syndrome(a, b) == Eight(Xor(Eight(a), b))

LEMMA ChecksumOfDisturbed ==
    ASSUME NEW f \in Byte, NEW g \in Byte, NEW a \in Byte, NEW b \in Byte
    PROVE  /\ Syndrome(a, b) \in Byte /\ sensirion_common_generate_crc(<<f, g>>) \in Byte
           /\ sensirion_common_generate_crc(<<Xor(f, a), Xor(g, b)>>)
                = Xor(sensirion_common_generate_crc(<<f, g>>), Syndrome(a, b))
<1> DEFINE first == Xor(CRC8_INIT, f)
<1>1. \A byte, crc : CrcByte(byte, crc) = Eight(Xor(crc, byte))
  BY DEF CrcByte, Eight
<1>2. CRC8_INIT \in Byte
  BY DEF CRC8_INIT, Byte
<1>3. \A c, d : sensirion_common_generate_crc(<<c, d>>) = Eight(Xor(Eight(Xor(CRC8_INIT, c)), d))
  BY <1>1 DEF sensirion_common_generate_crc
<1>4. first \in Byte /\ Eight(first) \in Byte /\ Eight(a) \in Byte
  BY <1>2, XorBits, EightOfXor
<1>5. Xor(CRC8_INIT, Xor(f, a)) = Xor(first, a)
  <2>1. 0 \in Byte
    BY DEF Byte
  <2>2. Xor(CRC8_INIT, 0) = CRC8_INIT /\ Xor(0, a) = a
    BY <1>2, <2>1, XorWithZero
  <2> QED
    BY <1>2, <2>1, <2>2, XorOfXors
<1>6. Eight(Xor(first, a)) = Xor(Eight(first), Eight(a))
  BY <1>4, EightOfXor
<1>7. Xor(Xor(Eight(first), Eight(a)), Xor(g, b)) = Xor(Xor(Eight(first), g), Xor(Eight(a), b))
  BY <1>4, XorOfXors
<1>8. Xor(Eight(first), g) \in Byte /\ Xor(Eight(a), b) \in Byte
  BY <1>4, XorBits
<1>9. Eight(Xor(Xor(Eight(first), g), Xor(Eight(a), b)))
        = Xor(Eight(Xor(Eight(first), g)), Eight(Xor(Eight(a), b)))
  BY <1>8, EightOfXor
<1>10. /\ Eight(Xor(Eight(first), g)) \in Byte /\ Eight(Xor(Eight(a), b)) \in Byte
  BY <1>8, EightOfXor
<1> QED
  BY <1>3, <1>5, <1>6, <1>7, <1>9, <1>10 DEF Syndrome

\* Only nothing at all leaves no remainder.
LEMMA EightIsOneToOne ==
    ASSUME NEW x \in Byte PROVE Eight(x) = 0 <=> x = 0
<1> DEFINE S2(z) == CrcShift(CrcShift(z))
           S4(z) == S2(S2(z))
<1>1. \A z \in Byte : CrcShift(z) \in Byte /\ (CrcShift(z) = 0 <=> z = 0)
  <2> SUFFICES ASSUME NEW z \in Byte PROVE CrcShift(z) \in Byte /\ (CrcShift(z) = 0 <=> z = 0)
    OBVIOUS
  <2>1. CrcShift(z) \in Byte
    BY CrcShiftOfXor
  <2>2. ASSUME z >= 128 PROVE CrcShift(z) # 0
    <3>1. 49 \in Byte
      BY DEF Byte
    <3>2. Twice(z) \in Byte /\ Bit(Twice(z), 1) = 0
      BY TwiceBits
    <3>3. Bit(49, 1) = 1
      BY DEF Bit
    <3>4. CrcShift(z) = Xor(Twice(z), 49)
      BY <2>2, ShiftIsTwiceAndCarry DEF Carry, CRC8_POLYNOMIAL
    <3>5. Bit(CrcShift(z), 1) = 1
      BY <3>1, <3>2, <3>3, <3>4, XorBits DEF Powers
    <3> QED
      BY <3>5 DEF Bit
  <2>3. ASSUME ~(z >= 128) PROVE CrcShift(z) = 2 * z
    BY <2>3 DEF CrcShift
  <2>4. 0 \in Byte /\ z \in Int
    BY DEF Byte
  <2> QED
    BY <2>1, <2>2, <2>3, <2>4
<1>2. \A z \in Byte : S2(z) \in Byte /\ (S2(z) = 0 <=> z = 0)
  BY <1>1
<1> HIDE DEF S2
<1>3. \A z \in Byte : S4(z) \in Byte /\ (S4(z) = 0 <=> z = 0)
  BY <1>2
<1> HIDE DEF S4
<1>4. S4(S4(x)) = 0 <=> x = 0
  BY <1>3
<1> QED
  BY <1>4 DEF Eight, S2, S4

\* The remainders that a single bit leaves, in the three bytes of a frame.
LEMMA RemaindersOfBits ==
    /\ Eight(1) = 49 /\ Eight(2) = 98 /\ Eight(4) = 196 /\ Eight(8) = 185
    /\ Eight(16) = 67 /\ Eight(32) = 134 /\ Eight(64) = 61 /\ Eight(128) = 122
    /\ Eight(Eight(1)) = 244 /\ Eight(Eight(2)) = 217 /\ Eight(Eight(4)) = 131 /\ Eight(Eight(8)) = 55
    /\ Eight(Eight(16)) = 110 /\ Eight(Eight(32)) = 220 /\ Eight(Eight(64)) = 137 /\ Eight(Eight(128)) = 35
<1>1. \A x \in Byte : CrcShift(x) = IF x < 128 THEN 2 * x ELSE Xor(2 * x - 256, 49)
  <2> SUFFICES ASSUME NEW x \in 0..255
               PROVE  CrcShift(x) = IF x < 128 THEN 2 * x ELSE Xor(2 * x - 256, 49)
    BY DEF Byte
  <2>1. CASE x < 128
    BY <2>1 DEF CrcShift
  <2>2. CASE ~(x < 128)
    <3>1. (2 * x) % 256 = 2 * x - 256 /\ x >= 128
      BY <2>2
    <3>2. CrcShift(x) = Xor((2 * x) % 256, 49)
      BY <3>1, Zenon DEF CrcShift, CRC8_POLYNOMIAL
    <3> QED
      BY <2>2, <3>1, <3>2
  <2> QED
    BY <2>1, <2>2
<1>2. /\ Xor(0, 49) = 49 /\ Xor(136, 49) = 185 /\ Xor(114, 49) = 67 /\ Xor(12, 49) = 61
      /\ Xor(232, 49) = 217 /\ Xor(178, 49) = 131 /\ Xor(6, 49) = 55 /\ Xor(184, 49) = 137
      /\ Xor(18, 49) = 35
  BY DEF Xor
<1>3. CrcShift(1) = 2 /\ CrcShift(2) = 4 /\ CrcShift(4) = 8 /\ CrcShift(8) = 16
  BY <1>1, <1>2 DEF Byte
<1>4. CrcShift(16) = 32 /\ CrcShift(32) = 64 /\ CrcShift(64) = 128 /\ CrcShift(128) = 49
  BY <1>1, <1>2 DEF Byte
<1>5. CrcShift(49) = 98 /\ CrcShift(98) = 196 /\ CrcShift(196) = 185 /\ CrcShift(185) = 67
  BY <1>1, <1>2 DEF Byte
<1>6. CrcShift(67) = 134 /\ CrcShift(134) = 61 /\ CrcShift(61) = 122 /\ CrcShift(122) = 244
  BY <1>1, <1>2 DEF Byte
<1>7. CrcShift(244) = 217 /\ CrcShift(217) = 131 /\ CrcShift(131) = 55 /\ CrcShift(55) = 110
  BY <1>1, <1>2 DEF Byte
<1>8. CrcShift(110) = 220 /\ CrcShift(220) = 137 /\ CrcShift(137) = 35
  BY <1>1, <1>2 DEF Byte
<1>9. /\ Eight(1) = 49 /\ Eight(2) = 98 /\ Eight(4) = 196 /\ Eight(8) = 185
      /\ Eight(16) = 67 /\ Eight(32) = 134 /\ Eight(64) = 61 /\ Eight(128) = 122
  BY <1>3, <1>4, <1>5, <1>6, <1>7, <1>8 DEF Eight
<1>10. /\ Eight(49) = 244 /\ Eight(98) = 217 /\ Eight(196) = 131 /\ Eight(185) = 55
      /\ Eight(67) = 110 /\ Eight(134) = 220 /\ Eight(61) = 137 /\ Eight(122) = 35
  BY <1>3, <1>4, <1>5, <1>6, <1>7, <1>8 DEF Eight
<1> QED
  BY <1>9, <1>10

\* The number of bits that are set.
Ones(x) == Bit(x, 128) + Bit(x, 64) + Bit(x, 32) + Bit(x, 16) + Bit(x, 8) + Bit(x, 4) + Bit(x, 2) + Bit(x, 1)

LEMMA OnesIsNat == ASSUME NEW x \in Byte PROVE Ones(x) \in Nat
<1>1. /\ Bit(x, 128) \in {0, 1} /\ Bit(x, 64) \in {0, 1} /\ Bit(x, 32) \in {0, 1} /\ Bit(x, 16) \in {0, 1}
      /\ Bit(x, 8) \in {0, 1} /\ Bit(x, 4) \in {0, 1} /\ Bit(x, 2) \in {0, 1} /\ Bit(x, 1) \in {0, 1}
  BY ByteOfBits DEF Powers
<1> QED
  BY <1>1 DEF Ones

LEMMA OnesOfXor ==
    ASSUME NEW x \in Byte, NEW y \in Byte
    PROVE  /\ Ones(x) \in Nat /\ Ones(Xor(x, y)) \in Nat
           /\ Ones(Xor(x, y)) % 2 = (Ones(x) + Ones(y)) % 2
<1> DEFINE both(p) == IF Bit(x, p) = 1 /\ Bit(y, p) = 1 THEN 1 ELSE 0
           a(p) == Bit(x, p)
           b(p) == Bit(y, p)
<1>1. \A p \in Powers : a(p) \in {0, 1} /\ b(p) \in {0, 1}
  BY ByteOfBits
<1>2. \A p \in Powers : Bit(Xor(x, y), p) = a(p) + b(p) - 2 * both(p) /\ both(p) \in {0, 1}
  BY <1>1, XorBits
<1> DEFINE A == a(128) + a(64) + a(32) + a(16) + a(8) + a(4) + a(2) + a(1)
           B == b(128) + b(64) + b(32) + b(16) + b(8) + b(4) + b(2) + b(1)
           C == both(128) + both(64) + both(32) + both(16) + both(8) + both(4) + both(2) + both(1)
<1>3. Ones(x) = A /\ Ones(y) = B
  BY DEF Ones
<1> HIDE DEF both, a, b
<1>4. /\ Bit(Xor(x, y), 128) = a(128) + b(128) - 2 * both(128) /\ Bit(Xor(x, y), 64) = a(64) + b(64) - 2 * both(64)
      /\ Bit(Xor(x, y), 32) = a(32) + b(32) - 2 * both(32) /\ Bit(Xor(x, y), 16) = a(16) + b(16) - 2 * both(16)
      /\ Bit(Xor(x, y), 8) = a(8) + b(8) - 2 * both(8) /\ Bit(Xor(x, y), 4) = a(4) + b(4) - 2 * both(4)
      /\ Bit(Xor(x, y), 2) = a(2) + b(2) - 2 * both(2) /\ Bit(Xor(x, y), 1) = a(1) + b(1) - 2 * both(1)
  BY <1>2 DEF Powers
<1>5. \A p \in Powers : a(p) \in Int /\ b(p) \in Int /\ both(p) \in Int
  BY <1>1, <1>2
<1>6. /\ a(128) \in Int /\ a(64) \in Int /\ a(32) \in Int /\ a(16) \in Int
      /\ a(8) \in Int /\ a(4) \in Int /\ a(2) \in Int /\ a(1) \in Int
      /\ b(128) \in Int /\ b(64) \in Int /\ b(32) \in Int /\ b(16) \in Int
      /\ b(8) \in Int /\ b(4) \in Int /\ b(2) \in Int /\ b(1) \in Int
      /\ both(128) \in Int /\ both(64) \in Int /\ both(32) \in Int /\ both(16) \in Int
      /\ both(8) \in Int /\ both(4) \in Int /\ both(2) \in Int /\ both(1) \in Int
  BY <1>5 DEF Powers
<1>7. Ones(Xor(x, y)) = A + B - 2 * C /\ C \in Int
  BY <1>4, <1>6 DEF Ones
<1>8. Ones(x) \in Nat /\ Ones(y) \in Nat /\ Ones(Xor(x, y)) \in Nat
  BY XorBits, OnesIsNat
<1> HIDE DEF A, B, C
<1> QED
  BY <1>3, <1>7, <1>8

LEMMA OnesOfShift ==
    ASSUME NEW x \in Byte
    PROVE  Ones(CrcShift(x)) % 2 = Ones(x) % 2
<1> DEFINE t == Bit(x, 128)
<1>1. \A p \in Powers : Bit(x, p) \in {0, 1}
  BY ByteOfBits
<1>2. Ones(Twice(x)) = Ones(x) - t
  BY <1>1, TwiceBits DEF Ones, Powers
<1>3. Ones(Carry(x)) = 3 * t
  <2>1. Ones(49) = 3 /\ Ones(0) = 0
    BY DEF Ones, Bit
  <2>2. t = IF x >= 128 THEN 1 ELSE 0
    BY DEF Byte, Bit
  <2> QED
    BY <2>1, <2>2 DEF Carry, CRC8_POLYNOMIAL
<1>4. /\ CrcShift(x) = Xor(Twice(x), Carry(x)) /\ Twice(x) \in Byte /\ Carry(x) \in Byte
  BY ShiftIsTwiceAndCarry, TwiceBits
<1>5. Ones(CrcShift(x)) % 2 = (Ones(Twice(x)) + Ones(Carry(x))) % 2
  BY <1>4, OnesOfXor
<1>6. t \in {0, 1} /\ Ones(x) \in Int
  BY <1>1, OnesOfXor DEF Powers
<1> HIDE DEF t
<1> QED
  BY <1>2, <1>3, <1>5, <1>6

LEMMA OnesOfEight ==
    ASSUME NEW x \in Byte
    PROVE  Eight(x) \in Byte /\ Ones(Eight(x)) % 2 = Ones(x) % 2
<1> DEFINE S2(z) == CrcShift(CrcShift(z))
           S4(z) == S2(S2(z))
<1>1. \A z \in Byte : S2(z) \in Byte /\ Ones(S2(z)) % 2 = Ones(z) % 2
  BY CrcShiftOfXor, OnesOfShift
<1> HIDE DEF S2
<1>2. \A z \in Byte : S4(z) \in Byte /\ Ones(S4(z)) % 2 = Ones(z) % 2
  BY <1>1
<1> HIDE DEF S4
<1>3. S4(S4(x)) \in Byte /\ Ones(S4(S4(x))) % 2 = Ones(x) % 2
  BY <1>2
<1>4. Eight(x) = S4(S4(x))
  BY DEF Eight, S2, S4
<1> QED
  BY <1>3, <1>4

\* A frame is a word and its checksum; a disturbance flips bits of it.
Frames == [1..3 -> Byte]

Remainder(f) == Xor(Syndrome(f[1], f[2]), f[3])

Both(f, g) == [m \in 1..3 |-> Xor(f[m], g[m])]

LEMMA RemainderOfBoth ==
    ASSUME NEW f \in Frames, NEW g \in Frames
    PROVE  /\ Remainder(f) \in Byte /\ Both(f, g) \in Frames
           /\ Remainder(Both(f, g)) = Xor(Remainder(f), Remainder(g))
<1>1. /\ f[1] \in Byte /\ f[2] \in Byte /\ f[3] \in Byte
      /\ g[1] \in Byte /\ g[2] \in Byte /\ g[3] \in Byte
  BY DEF Frames
<1>2. /\ Both(f, g)[1] = Xor(f[1], g[1]) /\ Both(f, g)[2] = Xor(f[2], g[2])
      /\ Both(f, g)[3] = Xor(f[3], g[3])
  BY DEF Both
<1>3. Both(f, g) \in Frames
  BY <1>1, XorBits DEF Both, Frames
<1>4. /\ Eight(f[1]) \in Byte /\ Eight(g[1]) \in Byte
      /\ Eight(Xor(f[1], g[1])) = Xor(Eight(f[1]), Eight(g[1]))
  BY <1>1, EightOfXor
<1> DEFINE u == Xor(Eight(f[1]), f[2])
           v == Xor(Eight(g[1]), g[2])
<1>5. Xor(Xor(Eight(f[1]), Eight(g[1])), Xor(f[2], g[2])) = Xor(u, v)
  BY <1>1, <1>4, XorOfXors
<1>6. u \in Byte /\ v \in Byte /\ Xor(Eight(Xor(f[1], g[1])), Xor(f[2], g[2])) = Xor(u, v)
  BY <1>1, <1>4, <1>5, XorBits
<1>7. /\ Syndrome(f[1], f[2]) = Eight(u) /\ Syndrome(g[1], g[2]) = Eight(v)
      /\ Syndrome(Xor(f[1], g[1]), Xor(f[2], g[2])) = Eight(Xor(u, v))
  BY <1>6 DEF Syndrome
<1> HIDE DEF u, v
<1>8. Eight(u) \in Byte /\ Eight(v) \in Byte /\ Eight(Xor(u, v)) = Xor(Eight(u), Eight(v))
  BY <1>6, EightOfXor
<1>9. Xor(Xor(Eight(u), Eight(v)), Xor(f[3], g[3])) = Xor(Xor(Eight(u), f[3]), Xor(Eight(v), g[3]))
  BY <1>1, <1>8, XorOfXors
<1>10. Remainder(f) \in Byte
  BY <1>1, <1>7, <1>8, XorBits DEF Remainder
<1> QED
  BY <1>2, <1>3, <1>7, <1>8, <1>9, <1>10 DEF Remainder

\* A disturbance that the checksum does not show.
Hidden(f) == Syndrome(f[1], f[2]) = f[3]

LEMMA HiddenIsNoRemainder ==
    ASSUME NEW f \in Frames PROVE Hidden(f) <=> Remainder(f) = 0
<1>1. f[1] \in Byte /\ f[2] \in Byte /\ f[3] \in Byte
  BY DEF Frames
<1>2. Syndrome(f[1], f[2]) \in Byte
  BY <1>1, EightOfXor, XorBits DEF Syndrome
<1> DEFINE s == Syndrome(f[1], f[2])
<1> HIDE DEF s
<1>3. s \in Byte
  BY <1>2 DEF s
<1> QED
  BY <1>1, <1>3, XorIsNothing DEF Hidden, Remainder, s

\* What a bus does to a frame: nothing; a change within one byte of it; two bits
\* anywhere in it; any odd number of bits.
Flip(m, p) == [q \in 1..3 |-> IF q = m THEN p ELSE 0]

Nothing == [m \in 1..3 |-> 0]
OneByte(f) == \E m \in 1..3, x \in Byte \ {0} : f = Flip(m, x)
TwoBits(f) ==
    \E m \in 1..3, p \in Powers, l \in 1..3, q \in Powers :
        <<m, p>> # <<l, q>> /\ f = Both(Flip(m, p), Flip(l, q))
OddBits(f) == (Ones(f[1]) + Ones(f[2]) + Ones(f[3])) % 2 = 1

LEMMA RemainderOfFlip ==
    ASSUME NEW m \in 1..3, NEW x \in Byte
    PROVE  /\ Flip(m, x) \in Frames
           /\ Remainder(Flip(m, x)) = CASE m = 1 -> Eight(Eight(x)) [] m = 2 -> Eight(x) [] m = 3 -> x
<1>1. 0 \in Byte
  BY DEF Byte
<1>2. Eight(0) = 0 /\ Eight(x) \in Byte /\ Eight(Eight(x)) \in Byte
  BY <1>1, EightIsOneToOne, EightOfXor
<1>3. Flip(m, x) \in Frames
  BY <1>1 DEF Flip, Frames
<1>4. /\ Xor(x, 0) = x /\ Xor(0, x) = x /\ Xor(Eight(x), 0) = Eight(x)
      /\ Xor(Eight(Eight(x)), 0) = Eight(Eight(x)) /\ Xor(0, 0) = 0
  BY <1>1, <1>2, XorWithZero
<1>5. CASE m = 1
  <2>1. Flip(m, x)[1] = x /\ Flip(m, x)[2] = 0 /\ Flip(m, x)[3] = 0
    BY <1>5 DEF Flip
  <2> QED
    BY <1>3, <1>4, <1>5, <2>1 DEF Remainder, Syndrome
<1>6. CASE m = 2
  <2>1. Flip(m, x)[1] = 0 /\ Flip(m, x)[2] = x /\ Flip(m, x)[3] = 0
    BY <1>6 DEF Flip
  <2> QED
    BY <1>2, <1>3, <1>4, <1>6, <2>1 DEF Remainder, Syndrome
<1>7. CASE m = 3
  <2>1. Flip(m, x)[1] = 0 /\ Flip(m, x)[2] = 0 /\ Flip(m, x)[3] = x
    BY <1>7 DEF Flip
  <2> QED
    BY <1>2, <1>3, <1>4, <1>7, <2>1 DEF Remainder, Syndrome
<1> QED
  BY <1>5, <1>6, <1>7

LEMMA OneByteIsSeen == ASSUME NEW f, OneByte(f) PROVE f \in Frames /\ ~Hidden(f)
<1>1. PICK m \in 1..3, x \in Byte \ {0} : f = Flip(m, x)
  BY DEF OneByte
<1>2. f \in Frames /\ Remainder(f) = CASE m = 1 -> Eight(Eight(x)) [] m = 2 -> Eight(x) [] m = 3 -> x
  BY <1>1, RemainderOfFlip
<1>3. Eight(x) # 0 /\ Eight(x) \in Byte /\ Eight(Eight(x)) # 0
  BY <1>1, EightIsOneToOne, EightOfXor
<1>4. Remainder(f) # 0
  BY <1>1, <1>2, <1>3
<1> QED
  BY <1>2, <1>4, HiddenIsNoRemainder

\* The bits of a frame leave different remainders.
LEMMA TwoBitsAreSeen == ASSUME NEW f, TwoBits(f) PROVE f \in Frames /\ ~Hidden(f)
<1>1. PICK m \in 1..3, p \in Powers, l \in 1..3, q \in Powers :
        <<m, p>> # <<l, q>> /\ f = Both(Flip(m, p), Flip(l, q))
  BY DEF TwoBits
<1>2. p \in Byte /\ q \in Byte
  BY DEF Powers, Byte
<1> DEFINE r(c, x) == Remainder(Flip(c, x))
<1>3. /\ Flip(m, p) \in Frames /\ Flip(l, q) \in Frames
      /\ r(m, p) = CASE m = 1 -> Eight(Eight(p)) [] m = 2 -> Eight(p) [] m = 3 -> p
      /\ r(l, q) = CASE l = 1 -> Eight(Eight(q)) [] l = 2 -> Eight(q) [] l = 3 -> q
  BY <1>2, RemainderOfFlip
<1>4. f \in Frames /\ Remainder(f) = Xor(r(m, p), r(l, q)) /\ r(m, p) \in Byte /\ r(l, q) \in Byte
  BY <1>1, <1>3, RemainderOfBoth
<1> HIDE DEF r
<1> DEFINE Ones1 == {244, 217, 131, 55, 110, 220, 137, 35}
           Ones2 == {49, 98, 196, 185, 67, 134, 61, 122}
<1>5. /\ \A x \in Powers : Eight(Eight(x)) \in Ones1 /\ Eight(x) \in Ones2
      /\ \A x, y \in Powers : Eight(Eight(x)) = Eight(Eight(y)) => x = y
      /\ \A x, y \in Powers : Eight(x) = Eight(y) => x = y
  BY RemaindersOfBits DEF Powers
<1>6. Ones1 \cap Ones2 = {} /\ Ones1 \cap Powers = {} /\ Ones2 \cap Powers = {}
  BY DEF Powers
<1> HIDE DEF Ones1, Ones2
<1>7. r(m, p) # r(l, q)
  <2>1. CASE m = l
    BY <1>1, <1>3, <1>5, <2>1
  <2>2. CASE m # l
    BY <1>3, <1>5, <1>6, <2>2
  <2> QED
    BY <2>1, <2>2
<1>8. Remainder(f) # 0
  BY <1>4, <1>7, XorIsNothing
<1> QED
  BY <1>4, <1>8, HiddenIsNoRemainder

\* A step of the checksum leaves the parity of the bits as it is.
LEMMA OddBitsAreSeen == ASSUME NEW f \in Frames, OddBits(f) PROVE ~Hidden(f)
<1>1. f[1] \in Byte /\ f[2] \in Byte /\ f[3] \in Byte
  BY DEF Frames
<1> DEFINE u == Xor(Eight(f[1]), f[2])
<1>2. /\ Eight(f[1]) \in Byte /\ u \in Byte /\ Eight(u) \in Byte
      /\ Ones(Eight(f[1])) % 2 = Ones(f[1]) % 2
      /\ Ones(u) % 2 = (Ones(Eight(f[1])) + Ones(f[2])) % 2
      /\ Ones(Eight(u)) % 2 = Ones(u) % 2
  BY <1>1, OnesOfEight, OnesOfXor, XorBits
<1>3. /\ Ones(f[1]) \in Nat /\ Ones(f[2]) \in Nat /\ Ones(f[3]) \in Nat
      /\ Ones(Eight(f[1])) \in Nat /\ Ones(u) \in Nat /\ Ones(Eight(u)) \in Nat
  BY <1>1, <1>2, OnesIsNat
<1>4. ASSUME Hidden(f) PROVE FALSE
  <2>1. f[3] = Eight(u)
    BY <1>4 DEF Hidden, Syndrome
  <2>2. (Ones(f[1]) + Ones(f[2]) + Ones(Eight(u))) % 2 = 1
    BY <2>1 DEF OddBits
  <2> HIDE DEF u
  <2> QED
    BY <1>2, <1>3, <2>2
<1> QED
  BY <1>4

\* The part of a mask that falls on a word and its checksum.
FrameOf(mask, w) == [m \in 1..3 |-> mask[3 * (w - 1) + m]]

LEMMA ThirdByte ==
    ASSUME NEW x \in Byte, NEW y \in Byte, NEW z \in Byte
    PROVE  Append(<<x, y>>, z) = <<x, y, z>>
<1> DEFINE s == <<x, y>>
<1>1. s \in Seq(Byte) /\ Len(s) = 2 /\ s[1] = x /\ s[2] = y
  OBVIOUS
<1> HIDE DEF s
<1> DEFINE t == Append(s, z)
<1>2. /\ t \in Seq(Byte) /\ Len(t) = Len(s) + 1 /\ t[Len(s) + 1] = z
      /\ \A q \in 1..Len(s) : t[q] = s[q]
  <2>1. s \in Seq(Byte)
    BY <1>1
  <2> QED
    BY <2>1, AppendProperties
<1> HIDE DEF t
<1>3. t \in Seq(Byte) /\ Len(t) = 3 /\ t[1] = x /\ t[2] = y /\ t[3] = z
  BY <1>1, <1>2
<1>4. t = <<x, y, z>>
  BY <1>3
<1> QED
  BY <1>4, Zenon DEF t, s

LEMMA FramedWord ==
    ASSUME NEW word \in Word, NEW f, f = Framed(word)
    PROVE  /\ f = <<f[1], f[2], f[3]>> /\ f[1] \in Byte /\ f[2] \in Byte /\ f[3] \in Byte
           /\ 256 * f[1] + f[2] = word /\ f[3] = sensirion_common_generate_crc(<<f[1], f[2]>>)
<1> DEFINE h == word \div 256
           l == word % 256
           c == sensirion_common_generate_crc(<<h, l>>)
<1>1. h \in Byte /\ l \in Byte /\ 256 * h + l = word
  BY SMTT(30) DEF Word, Byte
<1>2. f = Append(<<h, l>>, c)
  BY Zenon DEF Framed, BytesOf
<1> HIDE DEF h, l
<1>3. c \in Byte
  <2>1. 0 \in Byte
    BY DEF Byte
  <2> QED
    BY <1>1, <2>1, ChecksumOfDisturbed
<1> DEFINE d == c
<1>4. d = sensirion_common_generate_crc(<<h, l>>)
  OBVIOUS
<1> HIDE DEF c, d
<1>5. f = <<h, l, d>>
  <2>1. Append(<<h, l>>, d) = <<h, l, d>>
    BY <1>1, <1>3, ThirdByte DEF d
  <2> QED
    BY <1>2, <2>1, Zenon DEF d
<1> QED
  BY <1>1, <1>3, <1>4, <1>5, SMTT(30) DEF d

\* A disturbed word is taken for a word if and only if the disturbance is hidden.
THEOREM ChecksumSeesDisturbances ==
    ASSUME NEW word \in Word, NEW f \in Frames
    PROVE  sensirion_common_check_crc(<<Xor(Framed(word)[1], f[1]), Xor(Framed(word)[2], f[2])>>,
                                      Xor(Framed(word)[3], f[3]))
             <=> Hidden(f)
<1> DEFINE a == Framed(word)
           s == Syndrome(f[1], f[2])
<1>1. /\ a[1] \in Byte /\ a[2] \in Byte /\ a[3] \in Byte
      /\ a[3] = sensirion_common_generate_crc(<<a[1], a[2]>>)
  BY FramedWord
<1> HIDE DEF a
<1>2. f[1] \in Byte /\ f[2] \in Byte /\ f[3] \in Byte
  BY DEF Frames
<1>3. s \in Byte /\ sensirion_common_generate_crc(<<Xor(a[1], f[1]), Xor(a[2], f[2])>>) = Xor(a[3], s)
  BY <1>1, <1>2, ChecksumOfDisturbed
<1> HIDE DEF s
<1>4. Xor(a[3], s) = Xor(a[3], f[3]) <=> s = f[3]
  <2>1. Xor(a[3], s) \in Byte /\ Xor(a[3], f[3]) \in Byte /\ Xor(s, f[3]) \in Byte
    BY <1>1, <1>2, <1>3, XorBits
  <2>2. Xor(Xor(a[3], s), Xor(a[3], f[3])) = Xor(Xor(a[3], a[3]), Xor(s, f[3]))
    BY <1>1, <1>2, <1>3, XorOfXors
  <2>3. Xor(a[3], a[3]) = 0 /\ Xor(0, Xor(s, f[3])) = Xor(s, f[3])
    BY <1>1, <2>1, XorIsNothing, XorWithZero
  <2>4. Xor(Xor(a[3], s), Xor(a[3], f[3])) = Xor(s, f[3])
    BY <2>2, <2>3
  <2> QED
    BY <1>2, <1>3, <2>1, <2>4, XorIsNothing
<1> QED
  BY <1>3, <1>4 DEF sensirion_common_check_crc, Hidden, s, a

\* No single or double bit, no odd number of bits and no change within one byte of
\* a frame is hidden.
THEOREM ChecksumIsEffective ==
    ASSUME NEW word \in Word, NEW f \in Frames, OneByte(f) \/ TwoBits(f) \/ OddBits(f)
    PROVE  ~sensirion_common_check_crc(<<Xor(Framed(word)[1], f[1]), Xor(Framed(word)[2], f[2])>>,
                                       Xor(Framed(word)[3], f[3]))
BY ChecksumSeesDisturbances, OneByteIsSeen, TwoBitsAreSeen, OddBitsAreSeen

-------------------------------------------------------------------------------
(* A measurement on a disturbed bus. *)

LEMMA ThreeBytes ==
    ASSUME NEW s, s = <<s[1], s[2], s[3]>>, s[1] \in Byte, s[2] \in Byte, s[3] \in Byte
    PROVE  s \in Seq(Byte) /\ Len(s) = 3
<1> DEFINE x == s[1]
           y == s[2]
           z == s[3]
<1>1. s = <<x, y, z>> /\ x \in Byte /\ y \in Byte /\ z \in Byte
  OBVIOUS
<1> HIDE DEF x, y, z
<1>2. <<x, y, z>> \in Seq(Byte) /\ Len(<<x, y, z>>) = 3
  BY <1>1
<1> QED
  BY <1>1, <1>2

LEMMA SixBytes ==
    ASSUME NEW a \in Seq(Byte), NEW b \in Seq(Byte), Len(a) = 3, Len(b) = 3
    PROVE  /\ a \o b \in Seq(Byte) /\ Len(a \o b) = 6
           /\ (a \o b)[1] = a[1] /\ (a \o b)[2] = a[2] /\ (a \o b)[3] = a[3]
           /\ (a \o b)[4] = b[1] /\ (a \o b)[5] = b[2] /\ (a \o b)[6] = b[3]
<1> DEFINE s == a \o b
<1>1. /\ s \in Seq(Byte) /\ Len(s) = Len(a) + Len(b)
      /\ \A q \in 1 .. Len(a) + Len(b) : s[q] = IF q <= Len(a) THEN a[q] ELSE b[q - Len(a)]
  BY ConcatProperties
<1> HIDE DEF s
<1>2. s \in Seq(Byte) /\ Len(s) = 6
  BY <1>1
<1>3. /\ s[1] = a[1] /\ s[2] = a[2] /\ s[3] = a[3]
      /\ s[4] = b[1] /\ s[5] = b[2] /\ s[6] = b[3]
  BY <1>1
<1> QED
  BY <1>2, <1>3, Zenon DEF s

LEMMA FramesOfSix ==
    ASSUME NEW s \in Seq(Byte), Len(s) >= 6
    PROVE  /\ SubSeq(s, 1, 3) = <<s[1], s[2], s[3]>>
           /\ SubSeq(s, 4, 6) = <<s[4], s[5], s[6]>>
<1> DEFINE t == SubSeq(s, 1, 3)
           r == SubSeq(s, 4, 6)
<1>1. t \in Seq(Byte) /\ Len(t) = 3 /\ t[1] = s[1] /\ t[2] = s[2] /\ t[3] = s[3]
  OBVIOUS
<1>2. r \in Seq(Byte) /\ Len(r) = 3 /\ r[1] = s[4] /\ r[2] = s[5] /\ r[3] = s[6]
  OBVIOUS
<1> HIDE DEF t, r
<1>3. t = <<s[1], s[2], s[3]>> /\ r = <<s[4], s[5], s[6]>>
  BY <1>1, <1>2
<1> QED
  BY <1>3, Zenon DEF t, r

LEMMA WordOfFrame ==
    ASSUME NEW x \in Byte, NEW y \in Byte, NEW z \in Byte
    PROVE  SubSeq(<<x, y, z>>, 1, 2) = <<x, y>>
<1> DEFINE s == <<x, y, z>>
<1>1. s \in Seq(Byte) /\ Len(s) >= 3 /\ s[1] = x /\ s[2] = y
  OBVIOUS
<1> HIDE DEF s
<1> DEFINE t == SubSeq(s, 1, 2)
<1>2. t \in Seq(Byte) /\ Len(t) = 2 /\ t[1] = s[1] /\ t[2] = s[2]
  BY <1>1
<1> HIDE DEF t
<1>3. t = <<x, y>>
  BY <1>1, <1>2
<1> QED
  BY <1>3, Zenon DEF t, s

LEMMA ReadOfDisturbed ==
    ASSUME NEW words \in Word \X Word, NEW mask \in [1..6 -> Byte],
           \A w \in 1..2 : FrameOf(mask, w) = Nothing \/ ~Hidden(FrameOf(mask, w))
    PROVE  LET read == sht3x_measure_blocking_read(Disturbed(words, mask), None, <<0, 0>>)
           IN  read.ret = OK =>
                 read.data = [temperature |-> tick_to_temperature(words[1]),
                              humidity |-> tick_to_humidity(words[2])]
<1> DEFINE wire == Disturbed(words, mask)
           bytes == wire.bytes
           a == Framed(words[1])
           b == Framed(words[2])
           read == sensirion_i2c_read_words(wire, 2, <<0, 0>>)
           f == FrameOf(mask, 1)
           g == FrameOf(mask, 2)
<1>1. words[1] \in Word /\ words[2] \in Word
  OBVIOUS
<1>2. /\ a = <<a[1], a[2], a[3]>> /\ a[1] \in Byte /\ a[2] \in Byte /\ a[3] \in Byte
      /\ 256 * a[1] + a[2] = words[1]
  BY <1>1, FramedWord, ZenonT(60)
<1>3. /\ b = <<b[1], b[2], b[3]>> /\ b[1] \in Byte /\ b[2] \in Byte /\ b[3] \in Byte
      /\ 256 * b[1] + b[2] = words[2]
  BY <1>1, FramedWord, ZenonT(60)
<1>4. /\ f \in Frames /\ g \in Frames
      /\ f[1] = mask[1] /\ f[2] = mask[2] /\ f[3] = mask[3]
      /\ g[1] = mask[4] /\ g[2] = mask[5] /\ g[3] = mask[6]
  BY DEF FrameOf, Frames
<1>5. wire.write = OK /\ bytes = [m \in 1..6 |-> Xor((a \o b)[m], mask[m])]
  BY Zenon DEF Disturbed
<1>6. sht3x_measure_blocking_read(wire, None, <<0, 0>>) = sht3x_read(wire, <<0, 0>>)
  BY <1>5 DEF sht3x_measure_blocking_read, sensirion_i2c_write_cmd
<1>7. sht3x_read(wire, <<0, 0>>) =
        [ret |-> read.ret,
         data |-> [temperature |-> tick_to_temperature(read.words[1]), humidity |-> tick_to_humidity(read.words[2])]]
  BY Zenon DEF sht3x_read
<1> HIDE DEF a, b, f, g, wire
<1>8. /\ a \o b \in Seq(Byte) /\ Len(a \o b) = 6
      /\ (a \o b)[1] = a[1] /\ (a \o b)[2] = a[2] /\ (a \o b)[3] = a[3]
      /\ (a \o b)[4] = b[1] /\ (a \o b)[5] = b[2] /\ (a \o b)[6] = b[3]
  <2>1. a \in Seq(Byte) /\ b \in Seq(Byte) /\ Len(a) = 3 /\ Len(b) = 3
    BY <1>2, <1>3, ThreeBytes
  <2> QED
    BY <2>1, SixBytes
<1>9. bytes \in Seq(Byte) /\ Len(bytes) = 6 /\ \A m \in 1..6 : bytes[m] = Xor((a \o b)[m], mask[m])
  <2> DEFINE seq == a \o b
  <2>1. seq \in Seq(Byte) /\ Len(seq) = 6 /\ bytes = [m \in 1..6 |-> Xor(seq[m], mask[m])]
    BY <1>5, <1>8
  <2> HIDE DEF seq, bytes
  <2>2. \A m \in 1..6 : Xor(seq[m], mask[m]) \in Byte
    <3>1. \A m \in 1..6 : seq[m] \in Byte
      BY <2>1, ElementOfSeq, Zenon
    <3> QED
      BY <3>1, XorBits
  <2>3. bytes \in Seq(Byte) /\ Len(bytes) = 6 /\ \A m \in 1..6 : bytes[m] = Xor(seq[m], mask[m])
    BY <2>1, <2>2
  <2> QED
    BY <2>3 DEF seq
<1> HIDE DEF bytes
<1>10. /\ bytes[1] = Xor(a[1], f[1]) /\ bytes[2] = Xor(a[2], f[2]) /\ bytes[3] = Xor(a[3], f[3])
       /\ bytes[4] = Xor(b[1], g[1]) /\ bytes[5] = Xor(b[2], g[2]) /\ bytes[6] = Xor(b[3], g[3])
  <2>1. 1 \in 1..6 /\ 2 \in 1..6 /\ 3 \in 1..6 /\ 4 \in 1..6 /\ 5 \in 1..6 /\ 6 \in 1..6
    OBVIOUS
  <2>2. /\ bytes[1] = Xor((a \o b)[1], mask[1]) /\ bytes[2] = Xor((a \o b)[2], mask[2])
        /\ bytes[3] = Xor((a \o b)[3], mask[3]) /\ bytes[4] = Xor((a \o b)[4], mask[4])
        /\ bytes[5] = Xor((a \o b)[5], mask[5]) /\ bytes[6] = Xor((a \o b)[6], mask[6])
    BY <1>9, <2>1, Zenon
  <2> QED
    BY <1>4, <1>8, <2>2, Zenon
<1> DEFINE frame(w) == SubSeq(bytes, 3 * w - 2, 3 * w)
           good(w)  == sensirion_common_check_crc(SubSeq(frame(w), 1, 2), frame(w)[3])
<1>11. /\ frame(1) = <<bytes[1], bytes[2], bytes[3]>> /\ frame(2) = <<bytes[4], bytes[5], bytes[6]>>
  <2>1. /\ 3 * 1 - 2 = 1 /\ 3 * 1 = 3 /\ 3 * 2 - 2 = 4 /\ 3 * 2 = 6
    OBVIOUS
  <2>2. Len(bytes) >= 6
    BY <1>9
  <2>3. /\ SubSeq(bytes, 1, 3) = <<bytes[1], bytes[2], bytes[3]>>
        /\ SubSeq(bytes, 4, 6) = <<bytes[4], bytes[5], bytes[6]>>
    BY <1>9, <2>2, FramesOfSix, Zenon
  <2> QED
    BY <2>1, <2>3, Zenon
<1>12. /\ bytes[1] \in Byte /\ bytes[2] \in Byte /\ bytes[3] \in Byte
       /\ bytes[4] \in Byte /\ bytes[5] \in Byte /\ bytes[6] \in Byte
  <2>1. 1 \in 1..6 /\ 2 \in 1..6 /\ 3 \in 1..6 /\ 4 \in 1..6 /\ 5 \in 1..6 /\ 6 \in 1..6
    OBVIOUS
  <2>2. \A m \in 1..6 : bytes[m] \in Byte
    BY <1>9, ElementOfSeq, Zenon
  <2> QED
    BY <2>1, <2>2, Zenon
<1>13. /\ SubSeq(frame(1), 1, 2) = <<bytes[1], bytes[2]>> /\ frame(1)[3] = bytes[3]
      /\ SubSeq(frame(2), 1, 2) = <<bytes[4], bytes[5]>> /\ frame(2)[3] = bytes[6]
      /\ frame(1)[1] = bytes[1] /\ frame(1)[2] = bytes[2]
      /\ frame(2)[1] = bytes[4] /\ frame(2)[2] = bytes[5]
  <2> HIDE DEF frame
  <2> QED
    BY <1>11, <1>12, WordOfFrame
<1>14. read = IF Len(bytes) < 3 * 2 THEN [ret |-> FAIL, words |-> <<0, 0>>]
              ELSE IF \E w \in 1..2 : ~good(w) THEN [ret |-> FAIL, words |-> <<0, 0>>]
              ELSE [ret |-> OK, words |-> [w \in 1..2 |-> WordOf(frame(w))]]
  BY Zenon DEF sensirion_i2c_read_words, bytes
<1> HIDE DEF frame, read
<1>15. (good(1) <=> Hidden(f)) /\ (good(2) <=> Hidden(g))
  <2>1. /\ good(1) <=> sensirion_common_check_crc(<<Xor(a[1], f[1]), Xor(a[2], f[2])>>, Xor(a[3], f[3]))
        /\ good(2) <=> sensirion_common_check_crc(<<Xor(b[1], g[1]), Xor(b[2], g[2])>>, Xor(b[3], g[3]))
    BY <1>10, <1>13, Zenon
  <2> QED
    BY <1>1, <1>4, <2>1, ChecksumSeesDisturbances, Zenon DEF a, b
<1>16. ASSUME read.ret = OK
       PROVE  read.words[1] = words[1] /\ read.words[2] = words[2]
  <2>1. good(1) /\ good(2) /\ read.words = [w \in 1..2 |-> WordOf(frame(w))]
    <3> HIDE DEF good
    <3> QED
      BY <1>9, <1>14, <1>16 DEF OK, FAIL
  <2>2. f = Nothing /\ g = Nothing
    BY <1>15, <2>1 DEF f, g
  <2>3. /\ f[1] = 0 /\ f[2] = 0 /\ g[1] = 0 /\ g[2] = 0
    BY <2>2 DEF Nothing
  <2>4. /\ bytes[1] = a[1] /\ bytes[2] = a[2] /\ bytes[4] = b[1] /\ bytes[5] = b[2]
    <3>1. 0 \in Byte
      BY DEF Byte
    <3> QED
      BY <1>2, <1>3, <1>10, <2>3, <3>1, XorWithZero
  <2>5. WordOf(frame(1)) = words[1] /\ WordOf(frame(2)) = words[2]
    BY <1>2, <1>3, <1>13, <2>4 DEF WordOf
  <2> QED
    BY <2>1, <2>5
<1> QED
  BY <1>6, <1>7, <1>16 DEF wire

\* A disturbance that the checksum shows, or none, in either word.
Visible(mask) == \A w \in 1..2 : FrameOf(mask, w) = Nothing \/ ~Hidden(FrameOf(mask, w))

\* What is stored of an SHT3x is what it has measured, for any signals and for any
\* disturbances but those that its checksum cannot show.
THEOREM StoredValuesAreMeasured ==
    ASSUME \A mask \in Noise : Visible(mask)
    PROVE  Spec => []StoredIsMeasured
<1>1. Init => StoredIsMeasured
  BY DEF Init, StoredIsMeasured
<1>2. ASSUME StoredIsMeasured, [Next]_vars PROVE StoredIsMeasured'
  <2>1. CASE data' = {} \/ data' = data
    BY <1>2, <2>1 DEF StoredIsMeasured
  <2>2. ASSUME ReadSht PROVE StoredIsMeasured'
    <3>1. PICK m \in Measurements :
            IF m.read.ret # OK THEN data' = data
            ELSE data' = {[stored |-> m.read.data, measured |-> m.measured]}
      BY <2>2 DEF ReadSht, Exit, history
    <3>2. PICK words \in Signals, mask \in Noise :
            /\ m.measured = words
            /\ m.read = sht3x_measure_blocking_read(Disturbed(words, mask), None, <<0, 0>>)
      BY SMTT(30) DEF Measurements
    <3>3. words \in Word \X Word /\ mask \in [1..6 -> Byte]
      BY SignalAssumption, ZenonT(60) DEF Word, Byte
    <3>4. m.read.ret = OK => m.read.data = [temperature |-> tick_to_temperature(m.measured[1]),
                                            humidity |-> tick_to_humidity(m.measured[2])]
      BY <3>2, <3>3, ReadOfDisturbed DEF Visible
    <3> QED
      BY <1>2, <3>1, <3>4 DEF StoredIsMeasured
  <2>3. ASSUME ~ReadSht PROVE data' = {} \/ data' = data
    BY <1>2, <2>3 DEF Next, StartUp, Start, ProbeBme, ProbeSht, Unselect, Check, Connect, Segfault,
       ReadConfig, ReadBme, EndRound, BusFails, BmeSilent, ShtBusFails, Crash, Redis, Exit,
       history, vars
  <2> QED
    BY <2>1, <2>2, <2>3
<1> QED
  BY <1>1, <1>2, PTL DEF Spec

\* Disturbances within one byte, of two bits or of an odd number of bits in either
\* word are among them.
COROLLARY SmallDisturbancesAreSafe ==
    ASSUME \A mask \in Noise, w \in 1..2 :
             \/ FrameOf(mask, w) = Nothing
             \/ OneByte(FrameOf(mask, w)) \/ TwoBits(FrameOf(mask, w)) \/ OddBits(FrameOf(mask, w))
    PROVE  Spec => []StoredIsMeasured
<1>1. ASSUME NEW mask \in Noise PROVE Visible(mask)
  <2>1. ASSUME NEW w \in 1..2 PROVE FrameOf(mask, w) \in Frames
    BY SignalAssumption DEF FrameOf, Frames, Byte
  <2> QED
    BY <2>1, OneByteIsSeen, TwoBitsAreSeen, OddBitsAreSeen DEF Visible
<1> QED
  BY <1>1, StoredValuesAreMeasured

--------------------------------------------------------------------------------
(* Alert limits. *)

\* A humidity of at most 100 %RH, in thousandths, is a tick whose upper seven bits give it
\* back to 0.8 %RH, rounded down.
LEMMA HumidityLimit ==
    ASSUME NEW h \in Int, 0 <= h, h <= 100000,
           NEW tick \in Int, tick = (h * 21474) \div 32768,
           NEW q \in Int, q = tick \div 512,
           NEW r \in Int, r = (12500 * (q * 512)) \div 8192
    PROVE  0 <= tick /\ tick < 65536 /\ 0 <= h - r /\ h - r <= 800
<1>1. (32768 * tick) <= (21474 * h) /\ (21474 * h) <= (32768 * tick) + 32767
  BY SMTT(30)
<1>2. (512 * q) <= tick /\ tick <= (512 * q) + 511
  BY SMTT(30)
<1>3. (8192 * r) <= (6400000 * q) /\ (6400000 * q) <= (8192 * r) + 8191
  BY SMTT(30)
<1>4. 0 <= tick /\ tick < 65536
  BY <1>1, SMTT(30)
<1>5. 0 <= h - r /\ h - r <= 800
  BY <1>1, <1>2, <1>3, <1>4, SMTT(30)
<1> QED BY <1>4, <1>5

\* A temperature from -45 to 130 degrees is a tick whose upper nine bits give it back to
\* 0.35 degrees, rounded down.
LEMMA TemperatureLimit ==
    ASSUME NEW t \in Int, 0 - 45000 <= t, t <= 130000,
           NEW tick \in Int, tick = ((t * 12271) + 552195000) \div 32768,
           NEW q \in Int, q = tick \div 128,
           NEW r \in Int, r = ((21875 * (q * 128)) \div 8192) - 45000
    PROVE  0 <= tick /\ tick < 65536 /\ 0 <= t - r /\ t - r <= 350
<1>1. (32768 * tick) <= (12271 * t) + 552195000 /\ (12271 * t) + 552195000 <= (32768 * tick) + 32767
  BY SMTT(30)
<1>2. (128 * q) <= tick /\ tick <= (128 * q) + 127
  BY SMTT(30)
<1>3. (8192 * (r + 45000)) <= (2800000 * q) /\ (2800000 * q) <= (8192 * (r + 45000)) + 8191
  BY SMTT(30)
<1>4. 0 <= tick /\ tick < 65536
  BY <1>1, SMTT(30)
<1>5. 0 <= t - r /\ t - r <= 350
  BY <1>1, <1>2, <1>3, <1>4, SMTT(30)
<1> QED BY <1>4, <1>5

\* An integer between the bounds of an interval is in it.
LEMMA Between ==
    ASSUME NEW w \in Int, NEW m \in Int, 0 <= w, w <= m
    PROVE  w \in 0..m
OBVIOUS

\* What fits in sixteen bits is a word.
LEMMA WordIsBetween ==
    ASSUME NEW w \in Int, 0 <= w, w <= 256 * 256 - 1
    PROVE  w \in Word
<1> DEFINE m == 256 * 256 - 1
<1>1. m \in Int /\ w <= m
  BY SMT
<1>2. Word = 0..m
  BY Zenon DEF Word
<1> HIDE DEF m
<1>3. w \in 0..m
  BY <1>1, Between, SMT
<1> QED BY <1>2, <1>3, Zenon

\* The two parts of a word come out of it as they went in.
LEMMA PartsOfLimit ==
    ASSUME NEW a \in Int, 0 <= a, a < 128, NEW b \in Int, 0 <= b, b < 512,
           NEW word \in Int, word = (a * 512) + b
    PROVE  word \in Word /\ word \div 512 = a /\ word % 512 = b
<1>1. 0 <= word /\ word <= 256 * 256 - 1
  BY SMT
<1>2. word \in Word
  BY <1>1, WordIsBetween
<1>3. word \div 512 = a /\ word % 512 = b
  BY SMT
<1> QED BY <1>2, <1>3

\* Who reads one word from a bus with that word finds it.
LEMMA ReadOfFramed ==
    ASSUME NEW word \in Word, NEW garbage, NEW wire, wire.bytes = Framed(word)
    PROVE  sensirion_i2c_read_words(wire, 1, garbage) = [ret |-> OK, words |-> <<word>>]
<1> DEFINE f == Framed(word)
           frame(w) == SubSeq(wire.bytes, 3 * w - 2, 3 * w)
           good(w)  == sensirion_common_check_crc(SubSeq(frame(w), 1, 2), frame(w)[3])
<1>1. /\ f = <<f[1], f[2], f[3]>> /\ f[1] \in Byte /\ f[2] \in Byte /\ f[3] \in Byte
      /\ 256 * f[1] + f[2] = word /\ f[3] = sensirion_common_generate_crc(<<f[1], f[2]>>)
  BY FramedWord
<1> HIDE DEF f
<1>2. f \in Seq(Byte) /\ Len(f) = 3
  BY <1>1, ThreeBytes
<1>3. frame(1) = f
  <2>1. 3 * 1 - 2 = 1 /\ 3 * 1 = 3 /\ frame(1) = SubSeq(f, 3 * 1 - 2, 3 * 1)
    BY DEF f
  <2>2. SubSeq(f, 1, 3) = f
    BY <1>1, <1>2
  <2> QED BY <2>1, <2>2, Zenon
<1>4. SubSeq(f, 1, 2) = <<f[1], f[2]>>
  BY <1>1, WordOfFrame
<1>5. good(1)
  BY <1>1, <1>3, <1>4, Zenon DEF sensirion_common_check_crc
<1>6. WordOf(frame(1)) = word
  BY <1>1, <1>3, Zenon DEF WordOf
<1>7. sensirion_i2c_read_words(wire, 1, garbage) =
        IF Len(wire.bytes) < 3 * 1 THEN [ret |-> FAIL, words |-> garbage]
        ELSE IF \E w \in 1..1 : ~good(w) THEN [ret |-> FAIL, words |-> garbage]
        ELSE [ret |-> OK, words |-> [w \in 1..1 |-> WordOf(frame(w))]]
  BY Zenon DEF sensirion_i2c_read_words
<1> HIDE DEF good, frame
<1>8. Len(wire.bytes) = 3
  BY <1>2 DEF f
<1>9. [w \in 1..1 |-> WordOf(frame(w))] = <<word>>
  BY <1>6
<1>10. \A w \in 1..1 : w = 1
  OBVIOUS
<1>11. ~(Len(wire.bytes) < 3 * 1) /\ ~(\E w \in 1..1 : ~good(w))
  BY <1>5, <1>8, <1>10
<1> QED BY <1>7, <1>9, <1>11, Zenon

\* What HumidityLimit and TemperatureLimit say of ticks that are cut off at sixteen bits.
LEMMA TicksOfLimits ==
    ASSUME NEW humidity \in Int, 0 <= humidity, humidity <= 100000,
           NEW temperature \in Int, 0 - 45000 <= temperature, temperature <= 130000
    PROVE  LET a == humidity_to_tick(humidity) \div 512
               b == temperature_to_tick(temperature) \div 128
           IN  /\ a \in Int /\ 0 <= a /\ a < 128
               /\ b \in Int /\ 0 <= b /\ b < 512
               /\ 0 <= humidity - tick_to_humidity(a * 512)
               /\ humidity - tick_to_humidity(a * 512) <= 800
               /\ 0 <= temperature - tick_to_temperature(b * 128)
               /\ temperature - tick_to_temperature(b * 128) <= 350
<1>1. PICK rh \in Int : rh = (humidity * 21474) \div 32768
  BY SMT
<1>2. PICK rt \in Int : rt = ((temperature * 12271) + 552195000) \div 32768
  BY SMT
<1>3. PICK a \in Int : a = rh \div 512
  BY SMT
<1>4. PICK b \in Int : b = rt \div 128
  BY SMT
<1>5. PICK h \in Int : h = (12500 * (a * 512)) \div 8192
  BY SMT
<1>6. PICK t \in Int : t = ((21875 * (b * 128)) \div 8192) - 45000
  BY SMT
<1>7. 0 <= rh /\ rh < 65536 /\ 0 <= humidity - h /\ humidity - h <= 800
  BY <1>1, <1>3, <1>5, HumidityLimit, SMT
<1>8. 0 <= rt /\ rt < 65536 /\ 0 <= temperature - t /\ temperature - t <= 350
  BY <1>2, <1>4, <1>6, TemperatureLimit, SMT
<1>9. humidity_to_tick(humidity) = rh /\ temperature_to_tick(temperature) = rt
  BY <1>1, <1>2, <1>7, <1>8, SMT DEF humidity_to_tick, temperature_to_tick
<1>10. 0 <= a /\ a < 128 /\ 0 <= b /\ b < 512
  BY <1>3, <1>4, <1>7, <1>8, SMT
<1>11. tick_to_humidity(a * 512) = h /\ tick_to_temperature(b * 128) = t
  BY <1>5, <1>6, SMT DEF tick_to_humidity, tick_to_temperature
<1>12. humidity_to_tick(humidity) \div 512 = a /\ temperature_to_tick(temperature) \div 128 = b
  BY <1>3, <1>4, <1>9, SMT
<1> QED BY <1>7, <1>8, <1>10, <1>11, <1>12, SMT

\* What the bus carries from sht3x_set_alert_thd to sht3x_get_alert_thd is the word itself.
LEMMA LimitArrives ==
    ASSUME NEW thd \in Thresholds, NEW garbage, NEW humidity, NEW temperature,
           LimitWord(humidity, temperature) \in Word
    PROVE  LET set == sht3x_set_alert_thd([write |-> OK, bytes |-> <<>>], thd, humidity, temperature)
               got == sht3x_get_alert_thd([write |-> OK, bytes |-> set.sent], thd, garbage)
               word == LimitWord(humidity, temperature)
           IN  /\ set.ret = OK /\ got.ret = OK
               /\ got.humidity = tick_to_humidity((word \div 512) * 512)
               /\ got.temperature = tick_to_temperature((word % 512) * 128)
<1> DEFINE word == LimitWord(humidity, temperature)
           set == sht3x_set_alert_thd([write |-> OK, bytes |-> <<>>], thd, humidity, temperature)
           wire == [write |-> OK, bytes |-> set.sent]
           got == sht3x_get_alert_thd(wire, thd, garbage)
           read == sensirion_i2c_delayed_read_cmd(wire, 1, garbage)
<1>1. word \in Word
  OBVIOUS
<1>2. set = [ret |-> OK, sent |-> Framed(word)]
  BY DEF sht3x_set_alert_thd
<1>3. got = [ret |-> read.ret,
             humidity |-> tick_to_humidity((read.words[1] \div 512) * 512),
             temperature |-> tick_to_temperature((read.words[1] % 512) * 128)]
  BY Zenon DEF sht3x_get_alert_thd
<1> HIDE DEF word, set
<1>4. wire.write = OK /\ wire.bytes = Framed(word)
  BY <1>2
<1>5. read = sensirion_i2c_read_words(wire, 1, garbage)
  BY <1>4, Zenon DEF sensirion_i2c_delayed_read_cmd
<1> HIDE DEF wire
<1>6. sensirion_i2c_read_words(wire, 1, garbage) = [ret |-> OK, words |-> <<word>>]
  BY <1>1, <1>4, ReadOfFramed, Zenon
<1> HIDE DEF read
<1>7. read.ret = OK /\ read.words[1] = word
  BY <1>5, <1>6
<1>8. got = [ret |-> OK,
             humidity |-> tick_to_humidity((word \div 512) * 512),
             temperature |-> tick_to_temperature((word % 512) * 128)]
  BY <1>3, <1>7, ZenonT(60)
<1> HIDE DEF got
<1>9. /\ set.ret = OK /\ got.ret = OK
      /\ got.humidity = tick_to_humidity((word \div 512) * 512)
      /\ got.temperature = tick_to_temperature((word % 512) * 128)
  BY <1>2, <1>8
<1> QED BY <1>9, Zenon DEF got, wire, set, word

\* An alert limit, for any of the four thresholds, is read back as what was set: within
\* what its seven and nine bits can tell apart, and never above it (sht3x_set_alert_thd
\* and sht3x_get_alert_thd, with the conversions and the checksum between them).
THEOREM LimitsAreReadBack ==
    ASSUME NEW thd \in Thresholds, NEW garbage,
           NEW humidity \in Int, 0 <= humidity, humidity <= 100000,
           NEW temperature \in Int, 0 - 45000 <= temperature, temperature <= 130000
    PROVE  LET set == sht3x_set_alert_thd([write |-> OK, bytes |-> <<>>], thd, humidity, temperature)
               got == sht3x_get_alert_thd([write |-> OK, bytes |-> set.sent], thd, garbage)
           IN  /\ set.ret = OK /\ got.ret = OK
               /\ 0 <= humidity - got.humidity /\ humidity - got.humidity <= 800
               /\ 0 <= temperature - got.temperature /\ temperature - got.temperature <= 350
<1> DEFINE a == humidity_to_tick(humidity) \div 512
           b == temperature_to_tick(temperature) \div 128
           word == LimitWord(humidity, temperature)
           set == sht3x_set_alert_thd([write |-> OK, bytes |-> <<>>], thd, humidity, temperature)
           got == sht3x_get_alert_thd([write |-> OK, bytes |-> set.sent], thd, garbage)
<1>1. /\ a \in Int /\ 0 <= a /\ a < 128
      /\ b \in Int /\ 0 <= b /\ b < 512
      /\ 0 <= humidity - tick_to_humidity(a * 512)
      /\ humidity - tick_to_humidity(a * 512) <= 800
      /\ 0 <= temperature - tick_to_temperature(b * 128)
      /\ temperature - tick_to_temperature(b * 128) <= 350
  BY TicksOfLimits, SMT
<1>2. word = (a * 512) + (b % 512)
  BY SMT DEF LimitWord
<1> HIDE DEF a, b, word
<1>3. b % 512 = b
  BY <1>1, SMT
<1>4. word \in Int /\ word = (a * 512) + b
  BY <1>1, <1>2, <1>3, SMT
<1>5. word \in Word /\ word \div 512 = a /\ word % 512 = b
  BY <1>1, <1>4, PartsOfLimit, SMT
<1>6. /\ set.ret = OK /\ got.ret = OK
      /\ got.humidity = tick_to_humidity((word \div 512) * 512)
      /\ got.temperature = tick_to_temperature((word % 512) * 128)
  BY <1>5, LimitArrives, SMT DEF word
<1> HIDE DEF set, got
<1>7. got.humidity = tick_to_humidity(a * 512) /\ got.temperature = tick_to_temperature(b * 128)
  BY <1>5, <1>6, SMT
<1>8. /\ 0 <= humidity - got.humidity /\ humidity - got.humidity <= 800
      /\ 0 <= temperature - got.temperature /\ temperature - got.temperature <= 350
  BY <1>1, <1>7, SMT
<1> QED BY <1>6, <1>8, SMT DEF set, got
================================================================================
