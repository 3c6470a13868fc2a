-------------------------- MODULE WirelessSensorProofs --------------------------
(***************************************************************************)
(* WirelessSensor for any number of devices and servers, any ids, leases   *)
(* and delays of a restart that outlast them.                              *)
(***************************************************************************)
EXTENDS WirelessSensor, TLAPS

-------------------------------------------------------------------------------
(* Types. *)

Key == [ttl : 0..Lease, by : Devices \cup {None}]

\* Ids are numbers.
LEMMA IdsAreNumbers == \A n \in Ids : n \in Nat
BY WirelessAssumption DEF Ids

\* A preassigned id that is in range is an id.
LEMMA IdOfStored ==
    ASSUME TypeOK, NEW d \in Devices, simar_gia[d] # None, simar_gia[d] < PreassignedEnd
    PROVE  simar_gia[d] \in 0..PreassignedEnd - 1 /\ simar_gia[d] \in Ids
<1>1. Stored \subseteq Nat \cup {None} /\ PreassignedEnd \in Nat
  BY WirelessAssumption
<1>2. simar_gia[d] \in Nat
  BY <1>1, IdsAreNumbers DEF TypeOK
<1> QED BY <1>1, <1>2 DEF Ids

\* What a key may become.
LEMMA KeyType ==
    /\ Gone \in Key
    /\ \A d \in Devices : Written(d) \in Key
    /\ \A k \in Key : Older(k) \in Key
<1> USE DEF Key
<1>1. Lease \in Nat \ {0}
  BY WirelessAssumption
<1>2. Gone \in Key
  BY <1>1 DEF Gone
<1>3. \A d \in Devices : Written(d) \in Key
  BY <1>1 DEF Written
<1>4. ASSUME NEW k \in Key PROVE Older(k) \in Key
  <2>1. k.ttl \in 0..Lease /\ k.by \in Devices \cup {None}
    OBVIOUS
  <2>2. CASE k.ttl > 1
    <3>1. k.ttl - 1 \in 0..Lease
      BY <1>1, <2>1, <2>2
    <3> QED BY <2>1, <2>2, <3>1 DEF Older
  <2>3. CASE ~(k.ttl > 1)
    BY <1>2, <2>3 DEF Older
  <2> QED BY <2>2, <2>3
<1> QED BY <1>2, <1>3, <1>4

\* The end of a device leaves well-typed variables.
LEMMA ExitType == ASSUME TypeOK, NEW d \in Devices, Exit(d) PROVE TypeOK'
<1> USE DEF remote, Place
<1>1. /\ 1 \in 1..ScanEnd /\ RestartSec \in 0..RestartSec /\ 0 \in Nat
  BY WirelessAssumption
<1>2. /\ pc' \in [Devices -> Place]
      /\ wait' \in [Devices -> 0..RestartSec]
  BY <1>1 DEF Exit, TypeOK
<1>3. sensor_number' \in [Devices -> Ids \cup {None}] /\ i' \in [Devices -> 1..ScanEnd]
  BY <1>1 DEF Exit, TypeOK
<1>4. c' \in [Devices -> Servers \cup {None}] /\ data' \in [Devices -> Nat] /\ past_pres' \in [Devices -> Nat]
  BY <1>1 DEF Exit, TypeOK
<1>5. UNCHANGED <<simar_gia, key, up, outages, held>>
  BY DEF Exit
<1> QED BY <1>2, <1>3, <1>4, <1>5 DEF TypeOK

\* The actions that end a device, one way or the other.
Ends(d) == NullReply(d) \/ NoneFree(d) \/ Reconnected(d) \/ Accepted(d) \/ DbFail(d) \/ Crash(d)

\* Each of them is an exit.
LEMMA EndsExit == ASSUME NEW d, Ends(d) PROVE Exit(d)
BY DEF Ends, NullReply, NoneFree, Reconnected, Accepted, DbFail, Crash

\* A device has an id from the moment it takes one.
Numbered ==
    \A d \in Devices :
        pc[d] \in {"store", "calibrate", "read", "check", "pressure"} => sensor_number[d] \in Ids

TypeInv == TypeOK /\ Numbered

\* A step of a device keeps the types.
LEMMA DeviceType ==
    ASSUME TypeInv, NEW d \in Devices,
           \/ Start(d) \/ Connect(d) \/ Preassigned(d) \/ Scan(d) \/ Store(d) \/ Calibrate(d)
           \/ Reading(d) \/ SetTemperature(d) \/ SetPressure(d)
    PROVE  TypeOK'
<1> USE DEF remote, Go, Place
<1>0. /\ pc \in [Devices -> Place]
      /\ sensor_number \in [Devices -> Ids \cup {None}] /\ i \in [Devices -> 1..ScanEnd]
      /\ simar_gia \in [Devices -> Stored \cup Ids]
      /\ c \in [Devices -> Servers \cup {None}]
      /\ data \in [Devices -> Nat] /\ past_pres \in [Devices -> Nat]
      /\ key \in [Servers -> [Ids -> Key]]
      /\ held \in [Devices -> SUBSET (Servers \X Ids)]
  BY DEF TypeInv, TypeOK, Key
<1> TypeOK
  BY DEF TypeInv
<1>1. CASE Start(d)
  <2>1. held' \in [Devices -> SUBSET (Servers \X Ids)]
    BY <1>0, <1>1 DEF Start
  <2>2. pc' = [pc EXCEPT ![d] = "connect"] /\ UNCHANGED <<wait, sensor_number, i, simar_gia, c, data, past_pres, remote>>
    BY <1>1 DEF Start
  <2> QED BY <2>1, <2>2 DEF TypeOK
<1>2. CASE Connect(d)
  <2>1. sensor_number' \in [Devices -> Ids \cup {None}]
    BY <1>0, <1>2 DEF Connect, Ids
  <2>2. c' \in [Devices -> Servers \cup {None}]
    BY <1>0, <1>2 DEF Connect, Answering, TypeOK
  <2>3. pc' \in {[pc EXCEPT ![d] = "calibrate"], [pc EXCEPT ![d] = "preassigned"]}
        /\ UNCHANGED <<wait, i, simar_gia, data, past_pres, remote, held>>
    BY <1>2 DEF Connect
  <2> QED BY <2>1, <2>2, <2>3 DEF TypeOK
<1>3. ASSUME NEW n \in Ids, Take(d, n, "scan")
      PROVE  /\ sensor_number' \in [Devices -> Ids \cup {None}]
             /\ pc' \in {[pc EXCEPT ![d] = "store"], [pc EXCEPT ![d] = "scan"]}
             /\ UNCHANGED <<wait, simar_gia, c, data, past_pres, remote, held>>
  BY <1>0, <1>3 DEF Take
<1>4. CASE Preassigned(d)
  <2>1. i' = i
    BY <1>4 DEF Preassigned
  <2>2. CASE simar_gia[d] # None /\ simar_gia[d] < PreassignedEnd
    <3>1. simar_gia[d] \in Ids
      BY <2>2, IdOfStored
    <3>2. Take(d, simar_gia[d], "scan")
      BY <1>4, <2>2 DEF Preassigned
    <3> QED BY <1>3, <2>1, <3>1, <3>2 DEF TypeOK
  <2>3. CASE ~(simar_gia[d] # None /\ simar_gia[d] < PreassignedEnd)
    BY <1>4, <2>1, <2>3 DEF Preassigned, TypeOK
  <2> QED BY <2>2, <2>3
<1>5. CASE Scan(d)
  <2>1. i[d] \in Ids /\ i[d] < ScanEnd /\ i[d] \in 1..ScanEnd
    BY <1>0, <1>5, WirelessAssumption DEF Scan, Ids
  <2>2. Take(d, i[d], "scan")
    BY <1>5 DEF Scan
  <2>3. i' \in [Devices -> 1..ScanEnd]
    BY <1>0, <1>5, <2>1, WirelessAssumption DEF Scan
  <2> QED BY <1>3, <2>1, <2>2, <2>3 DEF TypeOK
<1>6. CASE Store(d)
  <2>1. sensor_number[d] \in Stored \cup Ids
    BY <1>6 DEF Store, TypeInv, Numbered
  <2>2. simar_gia' \in [Devices -> Stored \cup Ids]
    BY <1>0, <1>6, <2>1 DEF Store
  <2> QED BY <1>6, <2>2 DEF Store, TypeOK
<1>7. ASSUME NEW failed \in BOOLEAN, bme_read(d, failed) PROVE data' \in [Devices -> Nat]
  <2>1. \A x \in Nat : x \div 100 \in Nat
    OBVIOUS
  <2>2. data[d] \div 100 \in Nat
    BY <1>0, <2>1
  <2>3. \A p \in Nat : [data EXCEPT ![d] = p] \in [Devices -> Nat]
    BY <1>0
  <2>4. CASE failed
    BY <1>7, <2>2, <2>3, <2>4 DEF bme_read
  <2>5. CASE ~failed
    BY <1>7, <2>3, <2>5, WirelessAssumption DEF bme_read
  <2> QED BY <2>4, <2>5
<1>8. CASE Calibrate(d) \/ Reading(d)
  <2>1. data' \in [Devices -> Nat]
    BY <1>7, <1>8 DEF Calibrate, Reading
  <2>2. pc' \in {[pc EXCEPT ![d] = "read"], [pc EXCEPT ![d] = "check"]}
        /\ UNCHANGED <<wait, sensor_number, i, simar_gia, c, past_pres, remote, held>>
    BY <1>8 DEF Calibrate, Reading
  <2> QED BY <2>1, <2>2 DEF TypeOK
<1>9. CASE SetTemperature(d)
  BY <1>9 DEF SetTemperature, TypeOK
<1>10. CASE SetPressure(d)
  <2>1. past_pres' \in [Devices -> Nat]
    BY <1>0, <1>10 DEF SetPressure
  <2>2. \A x, n : [key EXCEPT ![x][n] = Written(d)] \in [Servers -> [Ids -> Key]]
    BY <1>0, KeyType
  <2>3. key' \in [Servers -> [Ids -> Key]]
    BY <1>0, <1>10, <2>2 DEF SetPressure
  <2>4. pc' = [pc EXCEPT ![d] = "read"]
        /\ UNCHANGED <<wait, sensor_number, i, simar_gia, c, data, up, outages, held>>
    BY <1>10 DEF SetPressure
  <2> QED BY <2>1, <2>3, <2>4 DEF TypeOK, Key
<1> QED BY <1>1, <1>2, <1>4, <1>5, <1>6, <1>8, <1>9, <1>10

\* The servers and time keep the types.
LEMMA ServerType ==
    ASSUME TypeOK, Tick \/ \E s \in Servers : ServerStops(s) \/ ServerReturns(s)
    PROVE  TypeOK'
<1> USE DEF remote, device
<1>0. /\ key \in [Servers -> [Ids -> Key]] /\ held \in [Devices -> SUBSET (Servers \X Ids)]
      /\ wait \in [Devices -> 0..RestartSec] /\ c \in [Devices -> Servers \cup {None}]
  BY DEF TypeOK, Key
<1>1. StillAlive \in [Devices -> SUBSET (Servers \X Ids)]
  BY <1>0 DEF StillAlive
<1>2. CASE Tick
  <2>1. wait' \in [Devices -> 0..RestartSec]
    <3>1. \A w \in 0..RestartSec : (IF w > 0 THEN w - 1 ELSE 0) \in 0..RestartSec
      BY WirelessAssumption
    <3> QED BY <1>0, <1>2, <3>1 DEF Tick
  <2>2. key' \in [Servers -> [Ids -> Key]]
    BY <1>0, <1>2, KeyType DEF Tick
  <2>3. held' = StillAlive /\ UNCHANGED <<pc, sensor_number, i, simar_gia, c, data, past_pres, up, outages>>
    BY <1>2 DEF Tick
  <2> QED BY <1>1, <2>1, <2>2, <2>3 DEF TypeOK, Key
<1>3. ASSUME NEW s \in Servers, ServerStops(s) PROVE TypeOK'
  <2>1. key' \in [Servers -> [Ids -> Key]]
    BY <1>0, <1>3, KeyType DEF ServerStops
  <2>2. c' \in [Devices -> Servers \cup {None}]
    BY <1>0, <1>3 DEF ServerStops
  <2>3. outages' \in 0..Outages /\ up' \subseteq Servers
    BY <1>3, WirelessAssumption DEF ServerStops, TypeOK
  <2>4. held' = StillAlive /\ UNCHANGED <<pc, wait, sensor_number, i, simar_gia, data, past_pres>>
    BY <1>3 DEF ServerStops
  <2> QED BY <1>1, <2>1, <2>2, <2>3, <2>4 DEF TypeOK, Key
<1>4. ASSUME NEW s \in Servers, ServerReturns(s) PROVE TypeOK'
  BY <1>4 DEF ServerReturns, TypeOK
<1> QED BY <1>2, <1>3, <1>4

\* What no step of a device changes of the other devices.
LEMMA OthersStay ==
    ASSUME TypeOK, NEW d \in Devices, Step(d) \/ Crash(d), NEW e \in Devices, e # d
    PROVE  /\ pc'[e] = pc[e] /\ sensor_number'[e] = sensor_number[e] /\ c'[e] = c[e]
           /\ wait'[e] = wait[e] /\ simar_gia'[e] = simar_gia[e] /\ held'[e] = held[e]
<1> USE DEF remote, Go
<1>1. CASE Ends(d)
  <2>1. Exit(d)
    BY <1>1, EndsExit
  <2> QED BY <2>1 DEF Exit, TypeOK
<1>2. CASE Start(d)
  BY <1>2 DEF Start, TypeOK
<1>3. CASE Connect(d)
  BY <1>3 DEF Connect, TypeOK
<1>4. CASE Preassigned(d) \/ Scan(d)
  BY <1>4 DEF Preassigned, Scan, Take, TypeOK
<1>5. CASE Store(d) \/ Calibrate(d) \/ Reading(d) \/ SetTemperature(d) \/ SetPressure(d)
  BY <1>5 DEF Store, Calibrate, Reading, SetTemperature, SetPressure, TypeOK
<1> QED BY <1>1, <1>2, <1>3, <1>4, <1>5 DEF Step, Ends

\* Every step keeps Numbered: an id is taken before it is stored.
LEMMA NumberedStep == ASSUME TypeInv, [Next]_vars PROVE Numbered'
<1> USE DEF remote, device, Go
<1>0. TypeOK /\ Numbered
  BY DEF TypeInv
<1>1. CASE Tick \/ (\E s \in Servers : ServerStops(s) \/ ServerReturns(s)) \/ UNCHANGED vars
  <2>1. pc' = pc /\ sensor_number' = sensor_number
    BY <1>1 DEF Tick, ServerStops, ServerReturns, vars
  <2> QED BY <1>0, <2>1 DEF Numbered
<1>2. ASSUME NEW d \in Devices, Step(d) \/ Crash(d),
             pc'[d] \in {"store", "calibrate", "read", "check", "pressure"}
      PROVE  sensor_number'[d] \in Ids
  <2>0. pc \in [Devices -> Place] /\ sensor_number \in [Devices -> Ids \cup {None}]
    BY <1>0 DEF TypeOK
  <2>1. CASE Ends(d)
    BY <1>2, <2>0, <2>1, EndsExit DEF Exit
  <2>2. CASE Start(d)
    BY <1>2, <2>0, <2>2 DEF Start
  <2>3. CASE Connect(d)
    BY <1>2, <2>0, <2>3 DEF Connect, Ids
  <2>4. CASE Preassigned(d) \/ Scan(d)
    <3>1. PICK n \in Ids : pc'[d] = "store" => sensor_number'[d] = n
      <4>1. CASE Scan(d)
        <5>1. i[d] \in Ids
          BY <1>0, <4>1, WirelessAssumption DEF Scan, Ids, TypeOK
        <5>2. pc'[d] = "store" => sensor_number'[d] = i[d]
          BY <2>0, <4>1 DEF Scan, Take
        <5> QED BY <5>1, <5>2
      <4>2. CASE Preassigned(d)
        <5>1. CASE simar_gia[d] # None /\ simar_gia[d] < PreassignedEnd
          <6>1. simar_gia[d] \in Ids
            BY <1>0, <5>1, IdOfStored
          <6>2. pc'[d] = "store" => sensor_number'[d] = simar_gia[d]
            BY <2>0, <4>2, <5>1 DEF Preassigned, Take
          <6> QED BY <6>1, <6>2
        <5>2. CASE ~(simar_gia[d] # None /\ simar_gia[d] < PreassignedEnd)
          <6>1. pc'[d] = "scan" /\ Offline \in Ids
            BY <2>0, <4>2, <5>2 DEF Preassigned, Ids
          <6> QED BY <6>1
        <5> QED BY <5>1, <5>2
      <4> QED BY <2>4, <4>1, <4>2
    <3>2. pc'[d] \in {"store", "scan"}
      BY <2>0, <2>4 DEF Preassigned, Scan, Take
    <3> QED BY <1>2, <3>1, <3>2
  <2>5. CASE Store(d) \/ Calibrate(d) \/ Reading(d) \/ SetTemperature(d) \/ SetPressure(d)
    <3>1. pc[d] \in {"store", "calibrate", "read", "check", "pressure"} /\ sensor_number' = sensor_number
      BY <2>5 DEF Store, Calibrate, Reading, SetTemperature, SetPressure
    <3> QED BY <1>0, <3>1 DEF Numbered
  <2> QED BY <1>2, <2>1, <2>2, <2>3, <2>4, <2>5 DEF Step, Ends
<1>3. ASSUME NEW d \in Devices, Step(d) \/ Crash(d) PROVE Numbered'
  BY <1>0, <1>2, <1>3, OthersStay DEF Numbered
<1> QED BY <1>1, <1>3 DEF Next

\* The type invariant, with its strengthening.
LEMMA TypeInvariant == Spec => []TypeInv
<1>1. Init => TypeInv
  <2> SUFFICES ASSUME Init PROVE TypeInv
    OBVIOUS
  <2>1. 0 \in 0..RestartSec /\ 1 \in 1..ScanEnd /\ 0 \in 0..Outages
    BY WirelessAssumption
  <2>2. key \in [Servers -> [Ids -> Key]]
    BY KeyType DEF Init
  <2>3. TypeOK
    BY <2>1, <2>2 DEF Init, TypeOK, Key, Place
  <2> QED BY <2>3 DEF Init, TypeInv, Numbered
<1>2. TypeInv /\ [Next]_vars => TypeInv'
  <2> SUFFICES ASSUME TypeInv, [Next]_vars PROVE TypeInv'
    OBVIOUS
  <2>1. CASE UNCHANGED vars
    <3>1. TypeOK'
      BY <2>1 DEF TypeInv, TypeOK, vars, device, remote
    <3> QED BY <3>1, NumberedStep DEF TypeInv
  <2>2. ASSUME NEW d \in Devices, Step(d) \/ Crash(d) PROVE TypeOK'
    BY <2>2, DeviceType, EndsExit, ExitType DEF Step, Ends, TypeInv
  <2>3. CASE Next
    <3>1. TypeOK'
      BY <2>2, <2>3, ServerType DEF Next, TypeInv
    <3> QED BY <3>1, NumberedStep DEF TypeInv
  <2> QED BY <2>1, <2>3
<1> QED BY <1>1, <1>2, PTL DEF Spec

\* Every variable keeps its type, for any number of devices and servers.
THEOREM TypeCorrect == Spec => []TypeOK
<1>1. TypeInv => TypeOK
  BY DEF TypeInv
<1> QED BY <1>1, TypeInvariant, PTL

-------------------------------------------------------------------------------
(* Ids that are alive. *)

\* What a device takes is not alive: it starts without an id or a connection, and
\* the keys it found alive, and which have been ever since, are.
Safe(d) ==
    /\ pc[d] \in {"down", "connect"} => c[d] = None
    /\ pc[d] \in {"down", "connect", "preassigned", "scan"} => sensor_number[d] = None
    /\ c[d] # None => sensor_number[d] # Offline
    /\ \A x \in held[d] : Alive(x[1], x[2])
    /\ c[d] # None /\ sensor_number[d] # None => <<c[d], sensor_number[d]>> \notin held[d]

SafeInv == OfflineIsNotPublished /\ \A d \in Devices : Safe(d)

\* Of all that a device does only SET touches a key, its own, on the server it is
\* connected to.
LEMMA KeysOfStep ==
    ASSUME TypeInv, NEW d \in Devices, Step(d) \/ Crash(d)
    PROVE  \/ key' = key
           \/ /\ pc[d] = "pressure" /\ c[d] # None
              /\ key' = [key EXCEPT ![c[d]][sensor_number[d]] = Written(d)]
<1> USE DEF remote, Go
<1>1. CASE Ends(d)
  BY <1>1, EndsExit DEF Exit
<1>2. CASE Preassigned(d) \/ Scan(d)
  BY <1>2 DEF Preassigned, Scan, Take
<1>3. CASE Start(d) \/ Connect(d) \/ Store(d) \/ Calibrate(d) \/ Reading(d) \/ SetTemperature(d)
  BY <1>3 DEF Start, Connect, Store, Calibrate, Reading, SetTemperature
<1>4. CASE SetPressure(d)
  BY <1>4 DEF SetPressure
<1> QED BY <1>1, <1>2, <1>3, <1>4 DEF Step, Ends

\* ... where it makes the key alive, and its own.
LEMMA KeyAfterStep ==
    ASSUME TypeInv, NEW d \in Devices, Step(d) \/ Crash(d), NEW s \in Servers, NEW n \in Ids
    PROVE  \/ key'[s][n] = key[s][n]
           \/ /\ key'[s][n] = Written(d) /\ Alive(s, n)'
              /\ pc[d] = "pressure" /\ c[d] = s /\ sensor_number[d] = n
<1>1. key \in [Servers -> [Ids -> Key]]
  BY DEF TypeInv, TypeOK, Key
<1>2. CASE key' = key
  BY <1>2
<1>3. CASE /\ pc[d] = "pressure" /\ c[d] # None
           /\ key' = [key EXCEPT ![c[d]][sensor_number[d]] = Written(d)]
  <2>1. CASE c[d] = s /\ sensor_number[d] = n
    <3>1. key'[s][n] = Written(d)
      BY <1>1, <1>3, <2>1
    <3>2. Written(d).ttl > 0
      BY WirelessAssumption DEF Written
    <3> QED BY <1>3, <2>1, <3>1, <3>2 DEF Alive
  <2>2. CASE ~(c[d] = s /\ sensor_number[d] = n)
    BY <1>1, <1>3, <2>2
  <2> QED BY <2>1, <2>2
<1> QED BY <1>2, <1>3, KeysOfStep

\* What time and servers leave of a key: it gets older, or is gone.
LEMMA KeyAfterTick ==
    ASSUME TypeInv, Tick, NEW s \in Servers, NEW n \in Ids, Alive(s, n)'
    PROVE  Alive(s, n) /\ key'[s][n].by = key[s][n].by /\ key'[s][n].ttl = key[s][n].ttl - 1 /\ key[s][n].ttl > 1
<1>1. key'[s][n] = Older(key[s][n]) /\ key[s][n] \in Key
  BY DEF Tick, TypeInv, TypeOK, Key
<1>2. key[s][n].ttl > 1
  BY <1>1 DEF Alive, Older, Gone
<1>3. key'[s][n] = [key[s][n] EXCEPT !.ttl = @ - 1]
  BY <1>1, <1>2 DEF Older
<1>4. Alive(s, n)
  BY <1>1, <1>2 DEF Alive, Key
<1> QED BY <1>1, <1>2, <1>3, <1>4 DEF Key

\* A server that stops or returns makes no key alive.
LEMMA KeyAfterServer ==
    ASSUME TypeInv, NEW t \in Servers, ServerStops(t) \/ ServerReturns(t),
           NEW s \in Servers, NEW n \in Ids, Alive(s, n)'
    PROVE  key'[s][n] = key[s][n]
<1>1. key \in [Servers -> [Ids -> Key]]
  BY DEF TypeInv, TypeOK, Key
<1>2. CASE key' = key
  BY <1>2
<1>3. CASE key' = [key EXCEPT ![t] = [m \in Ids |-> Gone]]
  BY <1>1, <1>3 DEF Alive, Gone
<1> QED BY <1>2, <1>3 DEF ServerStops, ServerReturns

\* No server step connects a device or gives it an id.
LEMMA ServerFrame ==
    ASSUME TypeInv, Tick \/ \E s \in Servers : ServerStops(s) \/ ServerReturns(s)
    PROVE  /\ UNCHANGED <<pc, sensor_number, simar_gia>>
           /\ \A d \in Devices : c'[d] \in {c[d], None}
           /\ held' = held \/ held' = StillAlive
<1> USE DEF device, remote
<1>1. CASE Tick
  BY <1>1 DEF Tick
<1>2. ASSUME NEW s \in Servers, ServerStops(s) \/ ServerReturns(s)
      PROVE  /\ UNCHANGED <<pc, sensor_number, simar_gia>>
             /\ \A d \in Devices : c'[d] \in {c[d], None}
             /\ held' = held \/ held' = StillAlive
  BY <1>2 DEF ServerStops, ServerReturns
<1> QED BY <1>1, <1>2

\* What Safe says of the device that makes a step.
LEMMA SafeDevice ==
    ASSUME TypeInv, NEW d \in Devices, Safe(d), Step(d) \/ Crash(d) PROVE Safe(d)'
<1> USE DEF remote, Go
<1>0. /\ pc \in [Devices -> Place] /\ c \in [Devices -> Servers \cup {None}]
      /\ sensor_number \in [Devices -> Ids \cup {None}] /\ held \in [Devices -> SUBSET (Servers \X Ids)]
      /\ i \in [Devices -> 1..ScanEnd]
  BY DEF TypeInv, TypeOK
<1>1. \A s \in Servers, n \in Ids : Alive(s, n) => Alive(s, n)'
  BY KeyAfterStep DEF Alive
<1>2. Offline # None
  BY WirelessAssumption DEF None
<1>3. CASE UNCHANGED held
  <2>1. held'[d] = held[d] /\ \A x \in held[d] : x[1] \in Servers /\ x[2] \in Ids
    BY <1>0, <1>3
  <2>2. \A x \in held'[d] : Alive(x[1], x[2])'
    BY <1>1, <2>1 DEF Safe
  <2>3. CASE Ends(d)
    <3>1. Exit(d)
      BY <2>3, EndsExit
    <3>2. pc'[d] = "down" /\ c'[d] = None /\ sensor_number'[d] = None
      BY <1>0, <3>1 DEF Exit
    <3> QED BY <1>2, <2>2, <3>2 DEF Safe
  <2>4. CASE Connect(d)
    <3>1. pc[d] = "connect" /\ pc'[d] \in {"calibrate", "preassigned"}
      BY <1>0, <2>4 DEF Connect
    <3>2. c[d] = None /\ sensor_number[d] = None
      BY <3>1 DEF Safe
    <3>3. CASE Answering = {}
      <4>1. pc'[d] = "calibrate" /\ c'[d] = None
        BY <1>0, <2>4, <3>2, <3>3 DEF Connect
      <4> QED BY <2>2, <4>1 DEF Safe
    <3>4. CASE Answering # {}
      <4>1. pc'[d] = "preassigned" /\ sensor_number'[d] = None
        BY <1>0, <2>4, <3>2, <3>4 DEF Connect
      <4> QED BY <1>2, <2>2, <4>1 DEF Safe
    <3> QED BY <3>3, <3>4
  <2>5. CASE Preassigned(d) \/ Scan(d)
    <3>1. pc[d] \in {"preassigned", "scan"} /\ sensor_number[d] = None /\ c[d] \in Servers /\ c'[d] = c[d]
      BY <1>0, <2>5 DEF Preassigned, Scan, Take, Safe
    <3>2. \/ pc'[d] = "scan" /\ sensor_number'[d] = sensor_number[d]
          \/ /\ pc'[d] = "store" /\ sensor_number'[d] \in Ids \ {Offline}
             /\ ~Alive(c[d], sensor_number'[d])
      <4>1. CASE Scan(d)
        <5>1. i[d] \in Ids \ {Offline}
          BY <1>0, <4>1, WirelessAssumption DEF Scan, Ids
        <5> QED BY <1>0, <4>1, <5>1 DEF Scan, Take
      <4>2. CASE Preassigned(d)
        <5>1. CASE simar_gia[d] # None /\ simar_gia[d] < PreassignedEnd
          <6>1. simar_gia[d] \in 0..PreassignedEnd - 1 /\ simar_gia[d] \in Ids
            BY <5>1, IdOfStored DEF TypeInv
          <6>2. simar_gia[d] # Offline
            BY <6>1, WirelessAssumption
          <6> QED BY <1>0, <4>2, <5>1, <6>1, <6>2 DEF Preassigned, Take
        <5>2. CASE ~(simar_gia[d] # None /\ simar_gia[d] < PreassignedEnd)
          BY <1>0, <4>2, <5>2 DEF Preassigned
        <5> QED BY <5>1, <5>2
      <4> QED BY <2>5, <4>1, <4>2
    <3>3. CASE pc'[d] = "scan" /\ sensor_number'[d] = sensor_number[d]
      BY <1>2, <2>2, <3>1, <3>3 DEF Safe
    <3>4. CASE /\ pc'[d] = "store" /\ sensor_number'[d] \in Ids \ {Offline}
               /\ ~Alive(c[d], sensor_number'[d])
      <4>1. <<c[d], sensor_number'[d]>> \notin held[d]
        BY <3>4 DEF Safe
      <4> QED BY <2>1, <2>2, <3>1, <3>4, <4>1 DEF Safe
    <3> QED BY <3>2, <3>3, <3>4
  <2>6. CASE Store(d) \/ Calibrate(d) \/ Reading(d) \/ SetTemperature(d) \/ SetPressure(d)
    <3>1. /\ pc'[d] \in {"calibrate", "read", "check", "pressure"}
          /\ UNCHANGED <<c, sensor_number>>
      BY <1>0, <2>6 DEF Store, Calibrate, Reading, SetTemperature, SetPressure
    <3> QED BY <2>1, <2>2, <3>1 DEF Safe
  <2>7. CASE Start(d)
    <3>1. pc'[d] = "connect" /\ c'[d] = None /\ sensor_number'[d] = None
      BY <1>0, <2>7 DEF Start, Safe
    <3> QED BY <1>2, <2>2, <3>1 DEF Safe
  <2> QED BY <2>3, <2>4, <2>5, <2>6, <2>7 DEF Step, Ends
<1>4. CASE Start(d)
  <2>1. pc'[d] = "connect" /\ c'[d] = None /\ sensor_number'[d] = None
    BY <1>0, <1>4 DEF Start, Safe
  <2>2. \A x \in held'[d] : Alive(x[1], x[2]) /\ x[1] \in Servers /\ x[2] \in Ids
    BY <1>0, <1>4 DEF Start
  <2> QED BY <1>1, <1>2, <2>1, <2>2 DEF Safe
<1>5. Start(d) \/ UNCHANGED held
  <2>1. CASE Ends(d)
    BY <2>1, EndsExit DEF Exit
  <2>2. CASE \/ Connect(d) \/ Preassigned(d) \/ Scan(d) \/ Store(d) \/ Calibrate(d) \/ Reading(d)
             \/ SetTemperature(d) \/ SetPressure(d)
    BY <2>2 DEF Connect, Preassigned, Scan, Take, Store, Calibrate, Reading, SetTemperature, SetPressure
  <2> QED BY <2>1, <2>2 DEF Step, Ends
<1> QED BY <1>3, <1>4, <1>5

\* Every step keeps SafeInv.
LEMMA SafeStep == ASSUME TypeInv, SafeInv, [Next]_vars PROVE SafeInv'
<1> USE DEF remote, device
<1>0. /\ c \in [Devices -> Servers \cup {None}] /\ held \in [Devices -> SUBSET (Servers \X Ids)]
      /\ sensor_number \in [Devices -> Ids \cup {None}] /\ Offline \in Ids
      /\ key \in [Servers -> [Ids -> Key]]
  BY DEF TypeInv, TypeOK, Ids, Key
<1>1. ASSUME NEW d \in Devices, Step(d) \/ Crash(d) PROVE SafeInv'
  <2>1. Safe(d)'
    BY <1>1, SafeDevice DEF SafeInv
  <2>2. ASSUME NEW e \in Devices, e # d PROVE Safe(e)'
    <3>1. /\ pc'[e] = pc[e] /\ sensor_number'[e] = sensor_number[e] /\ c'[e] = c[e] /\ held'[e] = held[e]
      BY <1>1, <2>2, OthersStay DEF TypeInv
    <3>2. \A s \in Servers, n \in Ids : Alive(s, n) => Alive(s, n)'
      BY <1>1, KeyAfterStep DEF Alive
    <3>3. \A x \in held[e] : x[1] \in Servers /\ x[2] \in Ids
      BY <1>0
    <3>4. Safe(e)
      BY DEF SafeInv
    <3> QED BY <3>1, <3>2, <3>3, <3>4 DEF Safe
  <2>3. ASSUME NEW s \in Servers, Alive(s, Offline)' PROVE FALSE
    <3>1. CASE key'[s][Offline] = key[s][Offline]
      BY <2>3, <3>1 DEF SafeInv, OfflineIsNotPublished, Alive
    <3>2. CASE c[d] = s /\ sensor_number[d] = Offline
      <4>1. s # None
        BY WirelessAssumption DEF None
      <4> QED BY <3>2, <4>1 DEF SafeInv, Safe
    <3> QED BY <1>0, <1>1, <3>1, <3>2, KeyAfterStep
  <2> QED BY <2>1, <2>2, <2>3 DEF SafeInv, OfflineIsNotPublished
<1>2. CASE Tick \/ \E s \in Servers : ServerStops(s) \/ ServerReturns(s)
  <2>1. /\ UNCHANGED <<pc, sensor_number, simar_gia>>
        /\ \A d \in Devices : c'[d] \in {c[d], None}
        /\ held' = held \/ held' = StillAlive
    BY <1>2, ServerFrame
  <2>2. ASSUME NEW s \in Servers, NEW n \in Ids, Alive(s, n)' PROVE Alive(s, n)
    <3>1. CASE Tick
      BY <2>2, <3>1, KeyAfterTick
    <3>2. ASSUME NEW t \in Servers, ServerStops(t) \/ ServerReturns(t) PROVE Alive(s, n)
      BY <2>2, <3>2, KeyAfterServer DEF Alive
    <3> QED BY <1>2, <3>1, <3>2
  <2>3. OfflineIsNotPublished'
    BY <1>0, <2>2 DEF SafeInv, OfflineIsNotPublished
  <2>4. ASSUME NEW d \in Devices PROVE /\ held'[d] \subseteq held[d]
                                       /\ \A x \in held'[d] : Alive(x[1], x[2])'
    <3>1. CASE held' = StillAlive
      BY <1>0, <3>1 DEF StillAlive, Alive
    <3>2. CASE held' = held /\ ~(held' = StillAlive)
      <4>1. \E s \in Servers : ServerReturns(s)
        BY <1>2, <3>2 DEF Tick, ServerStops
      <4>2. key' = key
        BY <4>1 DEF ServerReturns
      <4> QED BY <3>2, <4>2 DEF SafeInv, Safe, Alive
    <3> QED BY <2>1, <3>1, <3>2
  <2>5. ASSUME NEW d \in Devices PROVE Safe(d)'
    <3>1. Safe(d) /\ Offline # None
      BY WirelessAssumption DEF SafeInv, None
    <3> QED BY <2>1, <2>4, <3>1 DEF Safe
  <2> QED BY <2>3, <2>5 DEF SafeInv
<1>3. CASE UNCHANGED vars
  BY <1>3 DEF vars, SafeInv, Safe, OfflineIsNotPublished, Alive
<1> QED BY <1>1, <1>2, <1>3 DEF Next

\* Nothing alive is taken, and nothing is published offline.
LEMMA SafeInvariant == Spec => []SafeInv
<1>1. Init => SafeInv
  BY DEF Init, SafeInv, Safe, OfflineIsNotPublished, Alive, Gone, Ids
<1>2. TypeInv /\ SafeInv /\ [Next]_vars => SafeInv'
  BY SafeStep
<1> QED BY <1>1, <1>2, TypeInvariant, PTL DEF Spec

\* A device never takes an id that others have kept alive, on its server, ever
\* since it started (wireless.c:98-124).
THEOREM LiveIdsLeftAlone == Spec => []LiveIdsAreLeftAlone
<1>1. SafeInv => LiveIdsAreLeftAlone
  BY DEF SafeInv, Safe, LiveIdsAreLeftAlone
<1> QED BY <1>1, SafeInvariant, PTL

\* A device without a server publishes nothing, not even after one has returned
\* (wireless.c:197).
THEOREM OfflineNotPublished == Spec => []OfflineIsNotPublished
<1>1. SafeInv => OfflineIsNotPublished
  BY DEF SafeInv
<1> QED BY <1>1, SafeInvariant, PTL

-------------------------------------------------------------------------------
(* Leases and restarts. *)

\* A device's keys expire while it is down, so that until it publishes again it has
\* none; what it publishes is what it remembers.
Timed(d) ==
    /\ pc[d] \in {"connect", "preassigned", "scan", "store"} =>
          \A s \in Servers, n \in Ids : Alive(s, n) => key[s][n].by # d
    /\ pc[d] = "down" =>
          \A s \in Servers, n \in Ids : Alive(s, n) /\ key[s][n].by = d => key[s][n].ttl <= wait[d]
    /\ pc[d] \in {"calibrate", "read", "check", "pressure"} /\ c[d] # None =>
          simar_gia[d] = sensor_number[d]
    /\ \A s \in Servers, n \in Ids : Alive(s, n) /\ key[s][n].by = d => simar_gia[d] = n

TimeInv ==
    /\ \A s \in Servers, n \in Ids : Alive(s, n) => key[s][n].by \in Devices
    /\ \A d \in Devices : Timed(d)

\* What Timed says of the device that makes a step.
LEMMA TimedDevice ==
    ASSUME TypeInv, NEW d \in Devices, Safe(d), Timed(d), Step(d) \/ Crash(d) PROVE Timed(d)'
<1> USE DEF remote, Go
<1>0. /\ pc \in [Devices -> Place] /\ c \in [Devices -> Servers \cup {None}]
      /\ sensor_number \in [Devices -> Ids \cup {None}] /\ wait \in [Devices -> 0..RestartSec]
      /\ simar_gia \in [Devices -> Stored \cup Ids]
      /\ key \in [Servers -> [Ids -> Key]]
  BY DEF TypeInv, TypeOK, Key
<1>1. CASE Ends(d)
  <2>1. Exit(d)
    BY <1>1, EndsExit
  <2>2. pc'[d] = "down" /\ wait'[d] = RestartSec /\ simar_gia' = simar_gia /\ key' = key
    BY <1>0, <2>1 DEF Exit
  <2>3. \A s \in Servers, n \in Ids : key[s][n].ttl <= RestartSec
    <3>1. \A s \in Servers, n \in Ids : key[s][n].ttl \in 0..Lease
      BY <1>0 DEF Key
    <3> QED BY <3>1, WirelessAssumption
  <2> QED BY <2>2, <2>3 DEF Timed, Alive
<1>2. CASE Start(d)
  <2>1. pc[d] = "down" /\ pc'[d] = "connect" /\ wait[d] = 0 /\ UNCHANGED <<key, simar_gia>>
    BY <1>0, <1>2 DEF Start
  <2>2. ASSUME NEW s \in Servers, NEW n \in Ids, Alive(s, n), key[s][n].by = d PROVE FALSE
    <3>1. key[s][n].ttl <= 0 /\ key[s][n].ttl \in Nat
      BY <1>0, <2>1, <2>2, WirelessAssumption DEF Timed, Key
    <3> QED BY <2>2, <3>1 DEF Alive
  <2> QED BY <2>1, <2>2 DEF Timed, Alive
<1>3. CASE Connect(d)
  <2>1. pc[d] = "connect" /\ c[d] = None /\ UNCHANGED <<key, simar_gia>>
    BY <1>3 DEF Connect, Safe
  <2>2. pc'[d] = "preassigned" \/ (pc'[d] = "calibrate" /\ c'[d] = None)
    BY <1>0, <1>3, <2>1 DEF Connect
  <2> QED BY <2>1, <2>2 DEF Timed, Alive
<1>4. CASE Preassigned(d) \/ Scan(d)
  <2>1. pc[d] \in {"preassigned", "scan"} /\ pc'[d] \in {"scan", "store"} /\ UNCHANGED <<key, simar_gia>>
    BY <1>0, <1>4 DEF Preassigned, Scan, Take
  <2> QED BY <2>1 DEF Timed, Alive
<1>5. CASE Store(d)
  <2>1. pc[d] = "store" /\ pc'[d] = "calibrate" /\ UNCHANGED <<key, sensor_number>>
    BY <1>0, <1>5 DEF Store
  <2>2. simar_gia'[d] = sensor_number[d]
    BY <1>0, <1>5 DEF Store
  <2> QED BY <2>1, <2>2 DEF Timed, Alive
<1>6. CASE Calibrate(d) \/ Reading(d) \/ SetTemperature(d)
  <2>1. /\ pc[d] \in {"calibrate", "read", "check"} /\ pc'[d] \in {"read", "check", "pressure"}
        /\ UNCHANGED <<key, sensor_number, c, simar_gia>>
    BY <1>0, <1>6 DEF Calibrate, Reading, SetTemperature
  <2> QED BY <2>1 DEF Timed, Alive
<1>7. CASE SetPressure(d)
  <2>1. pc[d] = "pressure" /\ pc'[d] = "read" /\ UNCHANGED <<sensor_number, c, simar_gia>>
    BY <1>0, <1>7 DEF SetPressure
  <2>2. ASSUME NEW s \in Servers, NEW n \in Ids, Alive(s, n)', key'[s][n].by = d PROVE simar_gia[d] = n
    <3>1. CASE key'[s][n] = key[s][n]
      BY <2>2, <3>1 DEF Timed, Alive
    <3>2. CASE c[d] = s /\ sensor_number[d] = n
      <4>1. s # None
        BY WirelessAssumption DEF None
      <4> QED BY <2>1, <3>2, <4>1 DEF Timed
    <3>3. Step(d)
      BY <1>7 DEF Step
    <3> QED BY <3>1, <3>2, <3>3, KeyAfterStep
  <2> QED BY <2>1, <2>2 DEF Timed
<1> QED BY <1>1, <1>2, <1>3, <1>4, <1>5, <1>6, <1>7 DEF Step, Ends

\* Every step keeps TimeInv.
LEMMA TimeStep == ASSUME TypeInv, SafeInv, TimeInv, [Next]_vars PROVE TimeInv'
<1> USE DEF remote, device
<1>0. wait \in [Devices -> 0..RestartSec] /\ key \in [Servers -> [Ids -> Key]]
  BY DEF TypeInv, TypeOK, Key
<1>1. ASSUME NEW d \in Devices, Step(d) \/ Crash(d) PROVE TimeInv'
  <2>1. Timed(d)'
    BY <1>1, TimedDevice DEF SafeInv, TimeInv
  <2>2. ASSUME NEW e \in Devices, e # d PROVE Timed(e)'
    <3>1. /\ pc'[e] = pc[e] /\ sensor_number'[e] = sensor_number[e] /\ c'[e] = c[e]
          /\ wait'[e] = wait[e] /\ simar_gia'[e] = simar_gia[e]
      BY <1>1, <2>2, OthersStay DEF TypeInv
    <3>2. ASSUME NEW s \in Servers, NEW n \in Ids, key'[s][n].by = e PROVE key'[s][n] = key[s][n]
      <4>1. Written(d).by = d
        BY DEF Written
      <4> QED BY <1>1, <2>2, <3>2, <4>1, KeyAfterStep
    <3>3. Timed(e)
      BY DEF TimeInv
    <3> QED BY <3>1, <3>2, <3>3 DEF Timed, Alive
  <2>3. ASSUME NEW s \in Servers, NEW n \in Ids, Alive(s, n)' PROVE key'[s][n].by \in Devices
    <3>1. CASE key'[s][n] = key[s][n]
      BY <2>3, <3>1 DEF TimeInv, Alive
    <3>2. CASE key'[s][n] = Written(d)
      BY <3>2 DEF Written
    <3> QED BY <1>1, <3>1, <3>2, KeyAfterStep
  <2> QED BY <2>1, <2>2, <2>3 DEF TimeInv
<1>2. CASE Tick
  <2>1. UNCHANGED <<pc, sensor_number, simar_gia, c>>
    BY <1>2 DEF Tick
  <2>2. \A d \in Devices : wait'[d] = IF wait[d] > 0 THEN wait[d] - 1 ELSE 0
    BY <1>2 DEF Tick
  <2>3. ASSUME NEW s \in Servers, NEW n \in Ids, Alive(s, n)'
        PROVE  Alive(s, n) /\ key'[s][n].by = key[s][n].by /\ key'[s][n].ttl = key[s][n].ttl - 1 /\ key[s][n].ttl > 1
    BY <1>2, <2>3, KeyAfterTick
  <2>4. ASSUME NEW d \in Devices, NEW s \in Servers, NEW n \in Ids, Alive(s, n)', pc[d] = "down",
               key'[s][n].by = d
        PROVE  key'[s][n].ttl <= wait'[d]
    <3>1. key[s][n].ttl <= wait[d] /\ key'[s][n].ttl = key[s][n].ttl - 1 /\ key[s][n].ttl > 1
      BY <2>3, <2>4 DEF TimeInv, Timed
    <3>2. key[s][n].ttl \in Nat /\ wait[d] \in Nat
      BY <1>0, WirelessAssumption DEF Key
    <3> QED BY <2>2, <3>1, <3>2
  <2>5. ASSUME NEW d \in Devices PROVE Timed(d)'
    <3>1. Timed(d)
      BY DEF TimeInv
    <3> QED BY <2>1, <2>3, <2>4, <3>1 DEF Timed
  <2> QED BY <2>3, <2>5 DEF TimeInv
<1>3. ASSUME NEW t \in Servers, ServerStops(t) \/ ServerReturns(t) PROVE TimeInv'
  <2>1. UNCHANGED <<pc, sensor_number, simar_gia>> /\ \A d \in Devices : c'[d] \in {c[d], None}
    BY <1>3, ServerFrame
  <2>2. wait' = wait
    BY <1>3 DEF ServerStops, ServerReturns
  <2>3. ASSUME NEW s \in Servers, NEW n \in Ids, Alive(s, n)' PROVE key'[s][n] = key[s][n] /\ Alive(s, n)
    BY <1>3, <2>3, KeyAfterServer DEF Alive
  <2>4. ASSUME NEW d \in Devices PROVE Timed(d)'
    <3>1. Timed(d)
      BY DEF TimeInv
    <3> QED BY <2>1, <2>2, <2>3, <3>1 DEF Timed
  <2> QED BY <2>3, <2>4 DEF TimeInv
<1>4. CASE UNCHANGED vars
  BY <1>4 DEF vars, TimeInv, Timed, Alive
<1> QED BY <1>1, <1>2, <1>3, <1>4 DEF Next

\* Leases run out before restarts.
LEMMA TimeInvariant == Spec => []TimeInv
<1>1. Init => TimeInv
  BY DEF Init, TimeInv, Timed, Alive, Gone
<1>2. TypeInv /\ SafeInv /\ TimeInv /\ [Next]_vars => TimeInv'
  BY TimeStep
<1> QED BY <1>1, <1>2, TypeInvariant, SafeInvariant, PTL DEF Spec

\* A device has no key alive but the one of the id it remembers (EX 5 in
\* wireless.c:202-214, RestartSec=10 in the service).
THEOREM OneIdEach == Spec => []OneIdPerDevice
<1>1. TimeInv => OneIdPerDevice
  BY DEF TimeInv, Timed, OneIdPerDevice
<1> QED BY <1>1, TimeInvariant, PTL

\* A device that remembers an id is refused it for the sake of another one only.
THEOREM OwnIdIsNotRefused == Spec => RefusedForOthersOnly
<1> DEFINE Refusal(d) == pc[d] = "preassigned" /\ pc'[d] = "scan" /\ simar_gia[d] \in 0..PreassignedEnd - 1
<1>1. ASSUME TypeInv, TimeInv, [Next]_vars, NEW d \in Devices, Refusal(d)
      PROVE  key[c[d]][simar_gia[d]].by \in Devices \ {d}
  <2>1. Preassigned(d)
    <3>1. ASSUME NEW e \in Devices, Step(e) \/ Crash(e) PROVE e = d
      BY <1>1, <3>1, OthersStay DEF TypeInv
    <3>2. Step(d) \/ Crash(d)
      <4>1. pc' # pc
        BY <1>1
      <4>2. CASE UNCHANGED vars
        BY <4>1, <4>2 DEF vars, device
      <4>3. CASE Tick \/ \E s \in Servers : ServerStops(s) \/ ServerReturns(s)
        BY <1>1, <4>1, <4>3, ServerFrame
      <4> QED BY <1>1, <3>1, <4>2, <4>3 DEF Next
    <3>3. pc'[d] # "down" => ~Ends(d)
      BY <1>1, EndsExit DEF Exit, TypeInv, TypeOK
    <3> QED BY <1>1, <3>2, <3>3 DEF Step, Ends, Go, Start, Connect, Scan, Store, Calibrate, Reading,
                                   SetTemperature, SetPressure
  <2>2. simar_gia[d] # None /\ simar_gia[d] < PreassignedEnd /\ simar_gia[d] \in Ids
    BY <1>1, WirelessAssumption DEF None, Ids
  <2>3. Take(d, simar_gia[d], "scan") /\ c[d] # None
    BY <2>1, <2>2 DEF Preassigned
  <2>4. Alive(c[d], simar_gia[d])
    BY <1>1, <2>3 DEF Take, TypeInv, TypeOK
  <2>5. c[d] \in Servers
    BY <1>1, <2>3 DEF TypeInv, TypeOK
  <2> QED BY <1>1, <2>2, <2>4, <2>5 DEF TimeInv, Timed
<1>2. TypeInv /\ TimeInv /\ [Next]_vars =>
          [\A d \in Devices : Refusal(d) => key[c[d]][simar_gia[d]].by \in Devices \ {d}]_vars
  BY <1>1
<1> QED BY <1>2, TypeInvariant, TimeInvariant, PTL DEF Spec, RefusedForOthersOnly
===============================================================================
