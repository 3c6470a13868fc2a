-------------------------------- MODULE VoltSpi --------------------------------
(***************************************************************************)
(* The SPI bus of the AC board: the two threads of src/main/volt.c that    *)
(* share it under spi_mutex - main's ADC loop and command_listener's       *)
(* write_data - through the helpers of src/spi/common.c.                   *)
(*                                                                         *)
(* spidev keeps the mode and the word size of a device for all who open    *)
(* it, and the boards remember the module selected last, so that every     *)
(* ioctl, pin write and transfer is a step of its own.  The leak service   *)
(* (src/main/leak.c), another process on the same device, may take part.   *)
(***************************************************************************)
EXTENDS Integers

CONSTANTS
    Channels,       \* conversions in a round of main: 7 currents, 1 voltage
    MaxReadFails,   \* invalid voltages forgiven in the life of the process (10)
    Leak            \* {"leak"} where the leak service runs too, else {}

ASSUME VoltSpiAssumption ==
    /\ Channels \in Nat \ {0, 1} /\ MaxReadFails \in Nat
    /\ Leak \subseteq {"leak"}

Volt   == {"main", "cmd"}
Thread == Volt \cup Leak
Free   == "free"

VARIABLES
    \* the device and the boards
    mode, bits,     \* of /dev/spidev0.0
    ds,             \* ds_pin: while low, a transfer addresses the selector
    selected,       \* the module the boards have selected
    \* the processes
    mutex,          \* spi_mutex: Free or its owner
    pc,             \* pc[t]: what thread t does next
    step,           \* step[t]: the conversion of main, the select of leak
    read_fails

bus  == <<mode, bits, ds, selected>>
vars == <<bus, mutex, pc, step, read_fails>>

\* _mode and _bits: what spi_open was called with.
OwnMode(t) == IF t = "leak" THEN 3 ELSE 1
OwnBits(t) == IF t = "leak" THEN 8 ELSE 16

\* The module whose selection thread t sends.
Target(t) ==
    CASE t = "main" -> "adc"
      [] t = "cmd"  -> "outlets"
      [] t = "leak" -> IF step[t] = 1 THEN "latch" ELSE "inputs"

Goto(t, here, there) == pc[t] = here /\ pc' = [pc EXCEPT ![t] = there]

-------------------------------------------------------------------------------
(* spi_mod_comm: the selection of a module, seven steps of any thread. *)

SelectMode(t) ==
    /\ Goto(t, "select mode", "select bits")
    /\ mode' = IF OwnMode(t) # 3 THEN 3 ELSE mode
    /\ UNCHANGED <<bits, ds, selected, mutex, step, read_fails>>

SelectBits(t) ==
    /\ Goto(t, "select bits", "select low")
    /\ bits' = IF OwnBits(t) # 8 THEN 8 ELSE bits
    /\ UNCHANGED <<mode, ds, selected, mutex, step, read_fails>>

SelectLow(t) ==
    /\ Goto(t, "select low", "select transfer")
    /\ ds' = "low"
    /\ UNCHANGED <<mode, bits, selected, mutex, step, read_fails>>

\* The transfer names its word size; the mode is the device's.
SelectTransfer(t) ==
    /\ Goto(t, "select transfer", "select high")
    /\ selected' = CASE ds = "high"             -> selected
                     [] ds = "low" /\ mode = 3  -> Target(t)
                     [] ds = "low" /\ mode # 3  -> "unknown"
    /\ UNCHANGED <<mode, bits, ds, mutex, step, read_fails>>

SelectHigh(t) ==
    /\ Goto(t, "select high", "select mode back")
    /\ ds' = "high"
    /\ UNCHANGED <<mode, bits, selected, mutex, step, read_fails>>

\* Mutant: the mode is not put back.
SelectModeBack_Forgotten(t) ==
    /\ Goto(t, "select mode back", "select bits back")
    /\ UNCHANGED <<bus, mutex, step, read_fails>>

SelectModeBack(t) ==
    /\ Goto(t, "select mode back", "select bits back")
    /\ mode' = IF OwnMode(t) # 3 THEN OwnMode(t) ELSE mode
    /\ UNCHANGED <<bits, ds, selected, mutex, step, read_fails>>

Selected(t) ==
    CASE t = "main" -> "write"
      [] t = "cmd"  -> "set mode"
      [] t = "leak" -> "dummy"

SelectBitsBack(t) ==
    /\ Goto(t, "select bits back", Selected(t))
    /\ bits' = IF OwnBits(t) # 8 THEN OwnBits(t) ELSE bits
    /\ UNCHANGED <<mode, ds, selected, mutex, step, read_fails>>

spi_mod_comm(t) ==
    \/ SelectMode(t) \/ SelectBits(t) \/ SelectLow(t) \/ SelectTransfer(t)
    \/ SelectHigh(t) \/ SelectModeBack(t) \/ SelectBitsBack(t)

-------------------------------------------------------------------------------
(* spi_mutex. *)

\* Mutant: a lock that does not wait.
Lock_NoWait(t) ==
    /\ Goto(t, "ready", "select mode")
    /\ mutex' = t
    /\ step' = [step EXCEPT ![t] = 1]
    /\ UNCHANGED <<bus, read_fails>>

Lock(t) ==
    /\ mutex = Free
    /\ Goto(t, "ready", "select mode")
    /\ mutex' = t
    /\ step' = [step EXCEPT ![t] = 1]
    /\ UNCHANGED <<bus, read_fails>>

Unlock(t) ==
    /\ Goto(t, "unlock", IF t = "main" THEN "check" ELSE "ready")
    /\ mutex' = Free
    /\ UNCHANGED <<bus, step, read_fails>>

-------------------------------------------------------------------------------
(* main of volt. *)

\* The volt process ends: its threads and its mutex are gone, the bus is not.
Exit ==
    /\ pc' = [t \in Thread |-> IF t \in Volt THEN "off" ELSE pc[t]]
    /\ mutex' = Free
    /\ read_fails' = 0
    /\ UNCHANGED <<bus, step>>

Crash == pc["main"] # "off" /\ Exit

\* spi_open, then the threads.  The level of ds_pin is left as it is.
Start ==
    /\ pc["main"] = "off"
    /\ mode' = OwnMode("main") /\ bits' = OwnBits("main")
    /\ pc' = [pc EXCEPT !["main"] = "dummy lock", !["cmd"] = "ready"]
    /\ UNCHANGED <<ds, selected, mutex, step, read_fails>>

DummyLock ==
    /\ mutex = Free
    /\ Goto("main", "dummy lock", "dummy conversions")
    /\ mutex' = "main"
    /\ UNCHANGED <<bus, step, read_fails>>

\* Two transfers to whatever is selected, or to the selector.
DummyConversions ==
    /\ Goto("main", "dummy conversions", "ready")
    /\ selected' = IF ds = "low" THEN "unknown" ELSE selected
    /\ mutex' = Free
    /\ UNCHANGED <<mode, bits, ds, step, read_fails>>

\* A channel: the request, and the answer to it.  Either may fail.
AdcWrite ==
    \/ /\ Goto("main", "write", "read")
       /\ UNCHANGED <<bus, mutex, step, read_fails>>
    \/ pc["main"] = "write" /\ Exit

\* Mutant: a round checked before it unlocks.
AdcRead_StillLocked ==
    /\ Goto("main", "read", IF step["main"] < Channels THEN "write" ELSE "check")
    /\ step' = IF step["main"] < Channels THEN [step EXCEPT !["main"] = @ + 1] ELSE step
    /\ UNCHANGED <<bus, mutex, read_fails>>

AdcRead ==
    \/ /\ Goto("main", "read", IF step["main"] < Channels THEN "write" ELSE "unlock")
       /\ step' = IF step["main"] < Channels THEN [step EXCEPT !["main"] = @ + 1] ELSE step
       /\ UNCHANGED <<bus, mutex, read_fails>>
    \/ pc["main"] = "read" /\ Exit

\* A valid voltage is published and the loop sleeps; an invalid one is counted,
\* over the whole life of the process, and the next round follows at once.
ValidVoltage ==
    /\ Goto("main", "check", "ready")
    /\ UNCHANGED <<bus, mutex, step, read_fails>>

InvalidVoltage ==
    /\ pc["main"] = "check"
    /\ \/ /\ read_fails <= MaxReadFails
          /\ read_fails' = read_fails + 1
          /\ pc' = [pc EXCEPT !["main"] = "ready"]
          /\ UNCHANGED <<bus, mutex, step>>
       \/ read_fails > MaxReadFails /\ Exit

-------------------------------------------------------------------------------
(* write_data, called by command_listener, after its select_module. *)

\* Mutant: the byte goes out in the ADC's mode.
SetMode_Forgotten ==
    /\ Goto("cmd", "set mode", "set bits")
    /\ UNCHANGED <<bus, mutex, step, read_fails>>

SetMode ==
    /\ Goto("cmd", "set mode", "set bits")
    /\ mode' = 3
    /\ UNCHANGED <<bits, ds, selected, mutex, step, read_fails>>

SetBits ==
    /\ Goto("cmd", "set bits", "data")
    /\ bits' = 8
    /\ UNCHANGED <<mode, ds, selected, mutex, step, read_fails>>

\* The strobes of cs_pin and the byte of the seven outlets.
WriteOutlets ==
    /\ Goto("cmd", "data", "mode back")
    /\ UNCHANGED <<bus, mutex, step, read_fails>>

ModeBack ==
    /\ Goto("cmd", "mode back", "bits back")
    /\ mode' = OwnMode("cmd")
    /\ UNCHANGED <<bits, ds, selected, mutex, step, read_fails>>

BitsBack ==
    /\ Goto("cmd", "bits back", "unlock")
    /\ bits' = OwnBits("cmd")
    /\ UNCHANGED <<mode, ds, selected, mutex, step, read_fails>>

write_data == SetMode \/ SetBits \/ WriteOutlets \/ ModeBack \/ BitsBack

-------------------------------------------------------------------------------
(* The leak service: read_data selects twice, with a dummy transfer after   *)
(* each, and reads; the loop then reads once more.  It knows no mutex.      *)

LeakOpen ==
    /\ Goto("leak", "off", "select mode")
    /\ mode' = OwnMode("leak") /\ bits' = OwnBits("leak")
    /\ step' = [step EXCEPT !["leak"] = 1]
    /\ UNCHANGED <<ds, selected, mutex, read_fails>>

LeakDummy ==
    /\ Goto("leak", "dummy", IF step["leak"] = 1 THEN "select mode" ELSE "read inputs")
    /\ step' = IF step["leak"] = 1 THEN [step EXCEPT !["leak"] = 2] ELSE step
    /\ selected' = IF ds = "low" THEN "unknown" ELSE selected
    /\ UNCHANGED <<mode, bits, ds, mutex, read_fails>>

LeakRead ==
    /\ Goto("leak", "read inputs", "select mode")
    /\ step' = [step EXCEPT !["leak"] = 1]
    /\ UNCHANGED <<bus, mutex, read_fails>>

-------------------------------------------------------------------------------
\* Nothing runs, and nothing is known of what the boards were left with.
Init ==
    /\ mode \in {1, 3} /\ bits \in {8, 16} /\ ds \in {"low", "high"}
    /\ selected = "unknown"
    /\ mutex = Free
    /\ pc = [t \in Thread |-> "off"]
    /\ step = [t \in Thread |-> 1]
    /\ read_fails = 0

MainThread ==
    \/ Start \/ DummyLock \/ DummyConversions
    \/ Lock("main") \/ spi_mod_comm("main") \/ AdcWrite \/ AdcRead \/ Unlock("main")
    \/ ValidVoltage \/ InvalidVoltage

CommandThread == Lock("cmd") \/ spi_mod_comm("cmd") \/ write_data \/ Unlock("cmd")

LeakService ==
    "leak" \in Leak /\ (LeakOpen \/ spi_mod_comm("leak") \/ LeakDummy \/ LeakRead)

Next == MainThread \/ CommandThread \/ LeakService \/ Crash

Spec == Init /\ [][Next]_vars

\* The kernel runs every thread that can run.
FairSpec == Spec /\ WF_vars(MainThread) /\ WF_vars(CommandThread)

-------------------------------------------------------------------------------
(* Properties. *)

Selecting == {"select mode", "select bits", "select low", "select transfer",
              "select high", "select mode back", "select bits back"}
Writing   == {"set mode", "set bits", "data", "mode back", "bits back"}

\* Where a thread of volt has the bus.
Owning == Selecting \cup Writing \cup {"dummy conversions", "write", "read", "unlock"}

TypeOK ==
    /\ mode \in {1, 3} /\ bits \in {8, 16} /\ ds \in {"low", "high"}
    /\ selected \in {"unknown", "adc", "outlets", "latch", "inputs"}
    /\ mutex \in Volt \cup {Free}
    /\ pc \in [Thread -> Owning \cup {"off", "ready", "dummy lock", "check", "dummy",
                                      "read inputs"}]
    /\ step \in [Thread -> 1 .. Channels]
    /\ read_fails \in 0 .. MaxReadFails + 1

\* Two threads of volt never use the bus at once, over crashes and restarts.
MutualExclusion == ~(pc["main"] \in Owning /\ pc["cmd"] \in Owning)

\* The leak service, which asks nobody, has not been started.
Alone == \A t \in Leak : pc[t] = "off"

\* While volt has the bus for itself - no leak service, and no bme that reads behind an
\* extension board, which uses it without the lock too (module SensorScan) - every
\* conversion of main runs in the ADC's mode and word size, with the ADC
\* selected and the selector closed: command_listener, which changes all four,
\* and a crash in the middle of any helper leave nothing behind.
ConversionsReachTheAdc ==
    Alone /\ pc["main"] \in {"write", "read"} =>
        mode = 1 /\ bits = 16 /\ ds = "high" /\ selected = "adc"

\* While volt has the bus for itself, the byte of the outlets goes out in their
\* module's mode, to their module.
OutletsReachTheirModule ==
    Alone /\ pc["cmd"] = "data" =>
        mode = 3 /\ bits = 8 /\ ds = "high" /\ selected = "outlets"

\* Whoever takes the mutex finds the device as spi_open set it up.
DeviceIsHandedBack ==
    Alone /\ mutex = Free /\ pc["main"] # "off" => mode = 1 /\ bits = 16

\* Whoever takes the mutex gives it up again: no path of either thread, the ones
\* that skip the rest of a round included, keeps it.
MutexIsReleased == mutex # Free ~> mutex = Free
===============================================================================
