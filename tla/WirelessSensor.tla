----------------------------- MODULE WirelessSensor -----------------------------
(***************************************************************************)
(* main of src/main/wireless.c on several devices: each one looks for an   *)
(* id whose key has expired on the first remote server that answers,       *)
(* remembers it in a Redis of its own, and keeps the key alive with every  *)
(* reading it publishes.  Time passes in ticks, in which leases run out    *)
(* and systemd waits before it restarts a device.                          *)
(***************************************************************************)
EXTENDS Integers, FiniteSets

CONSTANTS
    Devices,
    Servers,        \* the remote servers, 1..3 in the code
    ScanEnd,        \* ids below this one are looked for, 10
    PreassignedEnd, \* ids below this one may be preassigned, 20
    Offline,        \* the id of a device that found no server, 99
    Stored,         \* what simar_gia may hold at first: a number, or None
    Lease,          \* EX 5
    RestartSec,     \* 10
    Pressures,      \* what a sensor measures, in hPa
    Outages         \* bound: how often a server goes down

None == -1

Ids == (0..PreassignedEnd - 1) \cup {Offline}

ASSUME WirelessAssumption ==
    /\ Servers \subseteq Nat \ {0}
    /\ ScanEnd \in Nat \ {0} /\ PreassignedEnd \in Nat /\ ScanEnd <= PreassignedEnd /\ Offline >= PreassignedEnd
    /\ Lease \in Nat \ {0} /\ RestartSec \in Nat /\ Lease < RestartSec
    /\ Stored \subseteq Nat \cup {None} /\ Pressures \subseteq Nat /\ Outages \in Nat

VARIABLES
    pc,             \* where main is, or "down"
    wait,           \* ticks until systemd starts the device
    sensor_number,
    i,              \* the scan's loop variable
    simar_gia,      \* the local Redis
    c,              \* the server that c is connected to, None when c is in error
    data, past_pres,
    key,            \* wgen<id>_pressure on every server: ticks to live, and who wrote it
    up,             \* servers that answer
    outages,
    held            \* history: keys alive ever since a device started, by others

device == <<pc, wait, sensor_number, i, simar_gia, c, data, past_pres>>
remote == <<key, up, outages>>
vars   == <<device, remote, held>>

Gone == [ttl |-> 0, by |-> None]

Init ==
    /\ pc = [d \in Devices |-> "down"] /\ wait = [d \in Devices |-> 0]
    /\ sensor_number = [d \in Devices |-> None] /\ i = [d \in Devices |-> 1]
    /\ simar_gia \in [Devices -> Stored]
    /\ c = [d \in Devices |-> None]
    /\ data = [d \in Devices |-> 0] /\ past_pres = [d \in Devices |-> 0]
    /\ key = [s \in Servers |-> [n \in Ids |-> Gone]]
    /\ up \in SUBSET Servers /\ outages = 0
    /\ held = [d \in Devices |-> {}]

Alive(s, n) == key[s][n].ttl > 0

-------------------------------------------------------------------------------
(* One device. *)

Go(d, from, to) == pc[d] = from /\ pc' = [pc EXCEPT ![d] = to]

\* Mutant: the service comes back at once.
Exit_AtOnce(d) ==
    /\ pc' = [pc EXCEPT ![d] = "down"] /\ wait' = [wait EXCEPT ![d] = 0]
    /\ sensor_number' = [sensor_number EXCEPT ![d] = None] /\ i' = [i EXCEPT ![d] = 1]
    /\ c' = [c EXCEPT ![d] = None]
    /\ data' = [data EXCEPT ![d] = 0] /\ past_pres' = [past_pres EXCEPT ![d] = 0]
    /\ UNCHANGED <<simar_gia, remote, held>>

\* main returns, exits or is killed: its memory is gone, simar_gia is not.
Exit(d) ==
    /\ pc' = [pc EXCEPT ![d] = "down"] /\ wait' = [wait EXCEPT ![d] = RestartSec]
    /\ sensor_number' = [sensor_number EXCEPT ![d] = None] /\ i' = [i EXCEPT ![d] = 1]
    /\ c' = [c EXCEPT ![d] = None]
    /\ data' = [data EXCEPT ![d] = 0] /\ past_pres' = [past_pres EXCEPT ![d] = 0]
    /\ UNCHANGED <<simar_gia, remote, held>>

Start(d) ==
    /\ Go(d, "down", "connect") /\ wait[d] = 0
    /\ held' = [held EXCEPT ![d] = {x \in Servers \X Ids : Alive(x[1], x[2]) /\ key[x[1]][x[2]].by # d}]
    /\ UNCHANGED <<wait, sensor_number, i, simar_gia, c, data, past_pres, remote>>

\* Mutant: only the first server is tried.
Answering_First == up \cap {1}

\* redis_connect: the first server that answers.
Answering == {s \in up : \A t \in up : s <= t}

Connect(d) ==
    /\ pc[d] = "connect"
    /\ IF Answering = {}
         THEN /\ pc' = [pc EXCEPT ![d] = "calibrate"]
              /\ sensor_number' = [sensor_number EXCEPT ![d] = Offline]
              /\ UNCHANGED c
         ELSE /\ pc' = [pc EXCEPT ![d] = "preassigned"]
              /\ \E s \in Answering : c' = [c EXCEPT ![d] = s]
              /\ UNCHANGED sensor_number
    /\ UNCHANGED <<wait, i, simar_gia, data, past_pres, remote, held>>

Take(d, n, else) ==
    /\ \/ ~Alive(c[d], n) /\ pc' = [pc EXCEPT ![d] = "store"]
                          /\ sensor_number' = [sensor_number EXCEPT ![d] = n]
       \/ Alive(c[d], n)  /\ pc' = [pc EXCEPT ![d] = else] /\ UNCHANGED sensor_number
    /\ UNCHANGED <<wait, simar_gia, c, data, past_pres, remote, held>>

\* A lost connection answers NULL, which main dereferences.
NullReply(d) == pc[d] \in {"preassigned", "scan"} /\ c[d] = None /\ Exit(d)

\* Mutant: the preassigned id is used without a look at its key.
Preassigned_Unchecked(d) ==
    /\ pc[d] = "preassigned" /\ c[d] # None
    /\ IF simar_gia[d] # None /\ simar_gia[d] < PreassignedEnd
         THEN Go(d, "preassigned", "store") /\ sensor_number' = [sensor_number EXCEPT ![d] = simar_gia[d]]
         ELSE Go(d, "preassigned", "scan") /\ UNCHANGED sensor_number
    /\ UNCHANGED <<wait, i, simar_gia, c, data, past_pres, remote, held>>

\* HGET device simar_gia, and GET of its key.
Preassigned(d) ==
    /\ pc[d] = "preassigned" /\ c[d] # None
    /\ IF simar_gia[d] # None /\ simar_gia[d] < PreassignedEnd
         THEN Take(d, simar_gia[d], "scan")
         ELSE /\ Go(d, "preassigned", "scan")
              /\ UNCHANGED <<wait, sensor_number, simar_gia, c, data, past_pres, remote, held>>
    /\ UNCHANGED i

\* The loop over the other ids, one GET a turn.
Scan(d) ==
    /\ pc[d] = "scan" /\ c[d] # None /\ i[d] < ScanEnd
    /\ Take(d, i[d], "scan") /\ i' = [i EXCEPT ![d] = IF Alive(c[d], @) THEN @ + 1 ELSE 1]

\* exit(SENSOR_FAIL): all ids are taken.
NoneFree(d) == pc[d] = "scan" /\ i[d] = ScanEnd /\ Exit(d)

\* Mutant: the id is remembered for devices without one only.
Store_Once(d) ==
    /\ Go(d, "store", "calibrate")
    /\ simar_gia' = [simar_gia EXCEPT ![d] = IF @ = None THEN sensor_number[d] ELSE @]
    /\ UNCHANGED <<wait, sensor_number, i, c, data, past_pres, remote, held>>

\* HSET device simar_gia.  The local Redis is taken to answer: the reply is not looked
\* at (line 137), and a device whose id it loses goes by the one that it had before.
Store(d) ==
    /\ Go(d, "store", "calibrate")
    /\ simar_gia' = [simar_gia EXCEPT ![d] = sensor_number[d]]
    /\ UNCHANGED <<wait, sensor_number, i, c, data, past_pres, remote, held>>

\* bme_read: data keeps its value when the driver fails, and is scaled all the same.
bme_read(d, failed) ==
    IF failed THEN data' = [data EXCEPT ![d] = @ \div 100]
              ELSE \E p \in Pressures : data' = [data EXCEPT ![d] = p]

\* The readings before the loop, of which the last is left.
Calibrate(d) ==
    /\ Go(d, "calibrate", "read")
    /\ \E failed \in BOOLEAN : bme_read(d, failed)
    /\ UNCHANGED <<wait, sensor_number, i, simar_gia, c, past_pres, remote, held>>

Abs(x) == IF x < 0 THEN -x ELSE x

\* check_alteration: accepted.
Plausible(past, pres) == pres > 800 /\ pres < 1000 /\ (past = 0 \/ 7 * Abs(past - pres) < past)

\* sensor_number == 99 && redis_connect(): main ends to look for an id again.
Reconnected(d) == pc[d] = "read" /\ sensor_number[d] = Offline /\ Answering # {} /\ Exit(d)

\* Mutant: main goes on with the new connection.
Reading_Reconnects(d) ==
    /\ Go(d, "read", "check")
    /\ \E failed \in BOOLEAN : bme_read(d, failed)
    /\ IF sensor_number[d] = Offline /\ Answering # {}
         THEN \E s \in Answering : c' = [c EXCEPT ![d] = s]
         ELSE UNCHANGED c
    /\ UNCHANGED <<wait, sensor_number, i, simar_gia, past_pres, remote, held>>

Reading(d) ==
    /\ Go(d, "read", "check") /\ ~(sensor_number[d] = Offline /\ Answering # {})
    /\ \E failed \in BOOLEAN : bme_read(d, failed)
    /\ UNCHANGED <<wait, sensor_number, i, simar_gia, c, past_pres, remote, held>>

\* return SENSOR_FAIL, for a reading that check_alteration accepts: its result,
\* zero for a good reading, is taken for a truth value.
Accepted(d) == pc[d] = "check" /\ Plausible(past_pres[d], data[d]) /\ Exit(d)

\* The first SET, of the temperature, and the only one whose reply is looked at.
SetTemperature(d) ==
    /\ Go(d, "check", "pressure") /\ ~Plausible(past_pres[d], data[d]) /\ c[d] # None
    /\ UNCHANGED <<wait, sensor_number, i, simar_gia, c, data, past_pres, remote, held>>

\* return DB_FAIL
DbFail(d) == pc[d] = "check" /\ ~Plausible(past_pres[d], data[d]) /\ c[d] = None /\ Exit(d)

Written(d) == [ttl |-> Lease, by |-> d]

\* SET wgen<id>_pressure, and of the humidity.
SetPressure(d) ==
    /\ Go(d, "pressure", "read") /\ past_pres' = [past_pres EXCEPT ![d] = data[d]]
    /\ key' = IF c[d] = None THEN key ELSE [key EXCEPT ![c[d]][sensor_number[d]] = Written(d)]
    /\ UNCHANGED <<wait, sensor_number, i, simar_gia, c, data, up, outages, held>>

Step(d) ==
    \/ Start(d) \/ Connect(d) \/ NullReply(d) \/ Preassigned(d) \/ Scan(d) \/ NoneFree(d) \/ Store(d)
    \/ Calibrate(d) \/ Reconnected(d) \/ Reading(d) \/ Accepted(d) \/ SetTemperature(d) \/ DbFail(d)
    \/ SetPressure(d)

\* A kill, a power cut, no sensor, no local Redis.
Crash(d) == pc[d] # "down" /\ Exit(d)

-------------------------------------------------------------------------------
(* The servers, and time. *)

\* A key that is gone has not been alive ever since.
StillAlive == [d \in Devices |-> {x \in held[d] : key'[x[1]][x[2]].ttl > 0}]

\* A server that stops may lose its keys, and closes its connections.
ServerStops(s) ==
    /\ s \in up /\ outages < Outages /\ outages' = outages + 1 /\ up' = up \ {s}
    /\ c' = [d \in Devices |-> IF c[d] = s THEN None ELSE c[d]]
    /\ \E lost \in BOOLEAN : key' = IF lost THEN [key EXCEPT ![s] = [n \in Ids |-> Gone]] ELSE key
    /\ held' = StillAlive
    /\ UNCHANGED <<pc, wait, sensor_number, i, simar_gia, data, past_pres>>

ServerReturns(s) ==
    /\ s \notin up /\ up' = up \cup {s}
    /\ UNCHANGED <<device, key, outages, held>>

Older(k) == IF k.ttl > 1 THEN [k EXCEPT !.ttl = @ - 1] ELSE Gone

Tick ==
    /\ (\E d \in Devices : wait[d] > 0) \/ (\E s \in Servers, n \in Ids : Alive(s, n))
    /\ wait' = [d \in Devices |-> IF wait[d] > 0 THEN wait[d] - 1 ELSE 0]
    /\ key' = [s \in Servers |-> [n \in Ids |-> Older(key[s][n])]]
    /\ held' = StillAlive
    /\ UNCHANGED <<pc, sensor_number, i, simar_gia, c, data, past_pres, up, outages>>

Next ==
    \/ \E d \in Devices : Step(d) \/ Crash(d)
    \/ \E s \in Servers : ServerStops(s) \/ ServerReturns(s)
    \/ Tick

Spec == Init /\ [][Next]_vars

\* The devices run and are restarted (Restart=always), and time passes.  That
\* servers return is not assumed.
FairSpec == Spec /\ WF_vars(Tick) /\ \A d \in Devices : WF_vars(Step(d))

-------------------------------------------------------------------------------
Place ==
    {"down", "connect", "preassigned", "scan", "store", "calibrate", "read", "check", "pressure"}

TypeOK ==
    /\ pc \in [Devices -> Place]
    /\ wait \in [Devices -> 0..RestartSec]
    /\ sensor_number \in [Devices -> Ids \cup {None}] /\ i \in [Devices -> 1..ScanEnd]
    /\ simar_gia \in [Devices -> Stored \cup Ids]
    /\ c \in [Devices -> Servers \cup {None}]
    /\ data \in [Devices -> Nat] /\ past_pres \in [Devices -> Nat]
    /\ key \in [Servers -> [Ids -> [ttl : 0..Lease, by : Devices \cup {None}]]]
    /\ up \subseteq Servers /\ outages \in 0..Outages
    /\ held \in [Devices -> SUBSET (Servers \X Ids)]

\* A device never takes an id whose key other devices have kept alive, on the
\* same server, ever since it started (main, lines 98-124).
LiveIdsAreLeftAlone ==
    \A d \in Devices : c[d] # None /\ sensor_number[d] # None => <<c[d], sensor_number[d]>> \notin held[d]

\* The id of a device that found no server is never published under: offline, c
\* stays in error, and a server that returns makes main start over (line 197).
OfflineIsNotPublished == \A s \in Servers : ~Alive(s, Offline)

\* A key that is alive belongs to the id that its writer remembers now: a device
\* that changes its id has none alive, for its last one expired while it was down.
\* Where the local Redis loses the HSET of line 137 (see Store) this need not be so.
OneIdPerDevice ==
    \A s \in Servers, n \in Ids : Alive(s, n) => simar_gia[key[s][n].by] = n

\* A device that remembers an id is refused it for the sake of another device only,
\* never for its own key from before the restart (EX 5 against RestartSec=10).
RefusedForOthersOnly ==
    [][\A d \in Devices :
        pc[d] = "preassigned" /\ pc'[d] = "scan" /\ simar_gia[d] \in 0..PreassignedEnd - 1
            => key[c[d]][simar_gia[d]].by \in Devices \ {d}]_vars

\* Once some server stays up every device is back from offline mode for good.
BackOnline == <>[](up # {}) => \A d \in Devices : <>[](sensor_number[d] # Offline)
===============================================================================
