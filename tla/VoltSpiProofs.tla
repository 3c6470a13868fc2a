----------------------------- MODULE VoltSpiProofs -----------------------------
(***************************************************************************)
(* VoltSpi for any number of channels and of forgiven failures: the two    *)
(* threads exclude each other, whatever the leak service does, and without *)
(* it every transfer finds the bus in the state it needs; and every step   *)
(* of the thread that has the mutex is a step towards its release.         *)
(***************************************************************************)
EXTENDS VoltSpi, TLAPS

\* Where each of the two threads can be: they come and go together.
Places ==
    /\ pc["main"] \in Selecting \cup {"off", "dummy lock", "dummy conversions",
                                      "ready", "write", "read", "unlock", "check"}
    /\ pc["cmd"] \in Selecting \cup Writing \cup {"off", "ready", "unlock"}
    /\ pc["main"] = "off" <=> pc["cmd"] = "off"

\* The mutex belongs to the thread that uses the bus.
OwnerHolds == \A t \in Volt : pc[t] \in Owning <=> mutex = t

\* The processes' part of the type invariant.
ProcessType ==
    /\ pc \in [Thread -> Owning \cup {"off", "ready", "dummy lock", "check", "dummy",
                                      "read inputs"}]
    /\ mutex \in Volt \cup {Free}

MutexInv == ProcessType /\ Places /\ OwnerHolds

\* The two threads are not the leak service, and no thread is called "free".
LEMMA ThreadNames ==
    /\ Volt \subseteq Thread /\ "main" \in Volt /\ "cmd" \in Volt /\ Free \notin Volt
    /\ "leak" \notin Volt /\ \A t \in Volt : t = "main" \/ t = "cmd"
    /\ \A t \in Thread : t \in Volt \/ t = "leak"
BY VoltSpiAssumption DEF Volt, Thread, Free

\* With no process running, no thread owns the bus.
LEMMA InitMutex == Init => MutexInv
BY ThreadNames DEF Init, MutexInv, ProcessType, Places, OwnerHolds, Owning, Selecting,
   Writing, Volt, Thread, Free

\* A step of a thread that does not take or give up the mutex moves it from one
\* place where it owns the bus to another, or from one where it does not.
LEMMA MovesInPlace ==
    ASSUME MutexInv, NEW t \in Thread, NEW here, NEW there,
           Goto(t, here, there), mutex' = mutex,
           t \in Volt => (here \in Owning <=> there \in Owning),
           there \in Owning \cup {"off", "ready", "dummy lock", "check", "dummy",
                                  "read inputs"},
           Places'
    PROVE  MutexInv'
<1>1. pc[t] = here /\ pc' = [pc EXCEPT ![t] = there]
  BY DEF Goto
<1>2. pc \in [Thread -> Owning \cup {"off", "ready", "dummy lock", "check", "dummy",
                                     "read inputs"}]
  BY DEF MutexInv, ProcessType
<1>3. ProcessType'
  BY <1>1, <1>2 DEF MutexInv, ProcessType
<1>4. ASSUME NEW u \in Volt
      PROVE  (pc[u] \in Owning <=> mutex = u)'
  <2>1. pc'[u] \in Owning <=> pc[u] \in Owning
    BY <1>1, <1>2, ThreadNames
  <2> QED BY <2>1 DEF MutexInv, OwnerHolds
<1> QED BY <1>3, <1>4 DEF MutexInv, OwnerHolds


\* The steps of spi_mod_comm leave the mutex alone and stay where it is needed.
LEMMA SelectingKeepsMutex ==
    ASSUME MutexInv, NEW t \in Thread, spi_mod_comm(t)
    PROVE  MutexInv'
<1> USE ThreadNames
<1>1. PICK here \in Selecting, there \in Selecting \cup {Selected(t)} :
        Goto(t, here, there) /\ mutex' = mutex
  BY DEF spi_mod_comm, SelectMode, SelectBits, SelectLow, SelectTransfer, SelectHigh,
         SelectModeBack, SelectBitsBack, Selecting
<1>2. /\ t = "main" => Selected(t) = "write"
      /\ t = "cmd" => Selected(t) = "set mode"
      /\ t = "leak" => Selected(t) = "dummy"
  BY DEF Selected
<1>3. pc' = [pc EXCEPT ![t] = there]
  BY <1>1 DEF Goto
<1>4. /\ pc'["main"] = IF t = "main" THEN there ELSE pc["main"]
      /\ pc'["cmd"] = IF t = "cmd" THEN there ELSE pc["cmd"]
  BY <1>3 DEF MutexInv, ProcessType
<1>5. Places'
  <2>1. pc[t] \in Selecting /\ "off" \notin Selecting /\ there # "off"
    BY <1>1, <1>2 DEF Goto, Selecting
  <2>2. CASE t = "main"
    BY <1>1, <1>2, <1>4, <2>1, <2>2 DEF MutexInv, Places
  <2>3. CASE t = "cmd"
    BY <1>1, <1>2, <1>4, <2>1, <2>3 DEF MutexInv, Places, Writing
  <2>4. CASE t = "leak"
    BY <1>4, <2>4 DEF MutexInv, Places
  <2> QED BY <2>2, <2>3, <2>4
<1>6. /\ t \in Volt => there \in Owning
      /\ there \in Owning \cup {"dummy"}
      /\ here \in Owning
  BY <1>2 DEF Owning, Writing
<1> QED BY <1>1, <1>5, <1>6, MovesInPlace

\* A step of one thread of volt between two given places, without the mutex.
LEMMA VoltMovesInPlace ==
    ASSUME MutexInv, NEW t \in Volt, NEW here, NEW there,
           Goto(t, here, there), mutex' = mutex,
           here # "off", here \in Owning <=> there \in Owning,
           \/ t = "main" /\ there \in {"ready", "write", "read", "unlock"}
           \/ t = "cmd" /\ there \in Writing \cup {"unlock"}
    PROVE  MutexInv'
<1> USE ThreadNames
<1>1. pc' = [pc EXCEPT ![t] = there]
  BY DEF Goto
<1>2. /\ pc'["main"] = IF t = "main" THEN there ELSE pc["main"]
      /\ pc'["cmd"] = IF t = "cmd" THEN there ELSE pc["cmd"]
  BY <1>1 DEF MutexInv, ProcessType
<1>3. Places'
  BY <1>2 DEF MutexInv, Places, Owning, Writing, Goto
<1>4. there \in Owning \cup {"ready"}
  BY DEF Owning
<1> QED BY <1>3, <1>4, MovesInPlace

\* A step that takes the free mutex, or gives it up, moves its thread with it.
LEMMA MutexChangesHands ==
    ASSUME MutexInv, NEW t \in Volt, NEW here, NEW there, Goto(t, here, there),
           here # "off",
           \/ mutex = Free /\ mutex' = t /\ there \in Owning
           \/ here \in Owning /\ mutex' = Free /\ there \notin Owning,
           there \in Selecting \cup {"dummy conversions", "ready", "check"},
           t = "cmd" => there \in Selecting \cup {"ready"}
    PROVE  MutexInv'
<1> USE ThreadNames
<1>1. pc[t] = here /\ pc' = [pc EXCEPT ![t] = there]
  BY DEF Goto
<1>2. pc \in [Thread -> Owning \cup {"off", "ready", "dummy lock", "check", "dummy",
                                     "read inputs"}]
  BY DEF MutexInv, ProcessType
<1>3. \A u \in Thread : pc'[u] = IF u = t THEN there ELSE pc[u]
  BY <1>1, <1>2
<1>4. there \in Owning \cup {"ready", "check"}
  BY DEF Owning
<1>5. ProcessType'
  BY <1>1, <1>2, <1>4 DEF MutexInv, ProcessType
<1>6. Places'
  <2>1. there # "off" /\ pc[t] # "off"
    BY <1>1 DEF Selecting
  <2>2. CASE t = "main"
    BY <1>3, <2>1, <2>2 DEF MutexInv, Places
  <2>3. CASE t = "cmd"
    BY <1>3, <2>1, <2>3 DEF MutexInv, Places
  <2> QED BY <2>2, <2>3
<1>7. ASSUME NEW u \in Volt
      PROVE  (pc[u] \in Owning <=> mutex = u)'
  BY <1>1, <1>3 DEF MutexInv, OwnerHolds
<1> QED BY <1>5, <1>6, <1>7 DEF MutexInv, OwnerHolds

\* When the process ends nobody owns the mutex, and nobody uses the bus.
LEMMA ExitFreesMutex == MutexInv /\ Exit => MutexInv'
<1> SUFFICES ASSUME MutexInv, Exit PROVE MutexInv'
  OBVIOUS
<1> USE ThreadNames
<1>1. pc' = [t \in Thread |-> IF t \in Volt THEN "off" ELSE pc[t]] /\ mutex' = Free
  BY DEF Exit
<1>2. ProcessType'
  BY <1>1 DEF MutexInv, ProcessType
<1>3. \A t \in Volt : pc'[t] = "off"
  BY <1>1
<1>4. Places'
  BY <1>3 DEF Places
<1>5. OwnerHolds'
  BY <1>1, <1>3 DEF OwnerHolds, Owning, Selecting, Writing
<1> QED BY <1>2, <1>4, <1>5 DEF MutexInv

\* A start puts both threads where they own nothing.
LEMMA StartKeepsMutex == MutexInv /\ Start => MutexInv'
<1> SUFFICES ASSUME MutexInv, Start PROVE MutexInv'
  OBVIOUS
<1> USE ThreadNames
<1>1. /\ pc["main"] = "off" /\ pc["cmd"] = "off" /\ mutex' = mutex
      /\ pc' = [pc EXCEPT !["main"] = "dummy lock", !["cmd"] = "ready"]
  BY DEF Start, MutexInv, Places
<1>2. /\ pc'["main"] = "dummy lock" /\ pc'["cmd"] = "ready"
      /\ ProcessType'
  BY <1>1 DEF MutexInv, ProcessType
<1>3. Places'
  BY <1>2 DEF Places
<1>4. mutex = Free
  BY <1>1 DEF MutexInv, OwnerHolds, ProcessType, Owning, Selecting, Writing
<1>5. OwnerHolds'
  BY <1>1, <1>2, <1>4 DEF OwnerHolds, Owning, Selecting, Writing
<1> QED BY <1>2, <1>3, <1>5 DEF MutexInv

\* The leak service moves without any regard to the mutex, or harm to it.
LEMMA LeakKeepsMutex ==
    ASSUME MutexInv, "leak" \in Leak, LeakOpen \/ LeakDummy \/ LeakRead
    PROVE  MutexInv'
<1> USE ThreadNames
<1>1. "leak" \in Thread
  BY DEF Thread
<1>2. PICK here \in {"off", "dummy", "read inputs"},
           there \in {"select mode", "read inputs"} :
        Goto("leak", here, there) /\ mutex' = mutex
  BY DEF LeakOpen, LeakDummy, LeakRead
<1>3. pc' = [pc EXCEPT !["leak"] = there]
  BY <1>2 DEF Goto
<1>4. pc'["main"] = pc["main"] /\ pc'["cmd"] = pc["cmd"]
  BY <1>3 DEF MutexInv, ProcessType
<1>5. Places'
  BY <1>4 DEF MutexInv, Places
<1>6. there \in Owning \cup {"read inputs"}
  BY DEF Owning, Selecting
<1> QED BY <1>1, <1>2, <1>5, <1>6, MovesInPlace

-------------------------------------------------------------------------------
(* Every step, and mutual exclusion. *)

\* MutexInv is inductive: one step per action of Next.
LEMMA NextKeepsMutex == MutexInv /\ [Next]_vars => MutexInv'
<1> SUFFICES ASSUME MutexInv, [Next]_vars PROVE MutexInv'
  OBVIOUS
<1> USE ThreadNames DEF Owning, Selecting, Writing
<1>1. CASE Start
  BY <1>1, StartKeepsMutex
<1>2. CASE DummyLock
  BY <1>2, MutexChangesHands DEF DummyLock
<1>3. CASE DummyConversions
  BY <1>3, MutexChangesHands DEF DummyConversions
<1>4. CASE AdcWrite
  BY <1>4, VoltMovesInPlace, ExitFreesMutex DEF AdcWrite
<1>5. CASE AdcRead
  <2>1. CASE Exit
    BY <2>1, ExitFreesMutex
  <2>2. CASE ~Exit
    BY <1>5, <2>2, VoltMovesInPlace DEF AdcRead
  <2> QED BY <2>1, <2>2
<1>6. CASE ValidVoltage
  BY <1>6, VoltMovesInPlace DEF ValidVoltage
<1>7. CASE InvalidVoltage
  BY <1>7, VoltMovesInPlace, ExitFreesMutex DEF InvalidVoltage, Goto
<1>8. CASE write_data
  BY <1>8, VoltMovesInPlace DEF write_data, SetMode, SetBits, WriteOutlets, ModeBack, BitsBack
<1>9. CASE Crash
  BY <1>9, ExitFreesMutex DEF Crash
<1>10. ASSUME NEW t \in Volt, Lock(t) PROVE MutexInv'
  BY <1>10, MutexChangesHands DEF Lock
<1>11. ASSUME NEW t \in Volt, Unlock(t) PROVE MutexInv'
  BY <1>11, MutexChangesHands DEF Unlock
<1>12. ASSUME NEW t \in Thread, spi_mod_comm(t) PROVE MutexInv'
  BY <1>12, SelectingKeepsMutex
<1>13. CASE LeakService
  <2>1. "leak" \in Leak /\ "leak" \in Thread
    BY <1>13 DEF LeakService, Thread
  <2> QED BY <1>12, <1>13, <2>1, LeakKeepsMutex DEF LeakService
<1>14. CASE UNCHANGED vars
  BY <1>14 DEF vars, MutexInv, ProcessType, Places, OwnerHolds
<1>15. CASE MainThread
  BY <1>1, <1>2, <1>3, <1>4, <1>5, <1>6, <1>7, <1>10, <1>11, <1>12, <1>15 DEF MainThread
<1>16. CASE CommandThread
  BY <1>8, <1>10, <1>11, <1>12, <1>16 DEF CommandThread
<1> QED BY <1>9, <1>13, <1>14, <1>15, <1>16 DEF Next

\* spi_mutex: of the two threads of volt, one at a time uses the SPI device,
\* over any number of crashes and restarts, with or without the leak service.
THEOREM MutexExcludes == Spec => []MutualExclusion
<1>1. MutexInv => MutualExclusion
  BY ThreadNames DEF MutexInv, OwnerHolds, MutualExclusion
<1> QED BY <1>1, InitMutex, NextKeepsMutex, PTL DEF Spec

-------------------------------------------------------------------------------
(* The bus, until the leak service is started. *)

\* Where a thread of volt has the device in mode 3, and with words of 8 bits.
InMode3 == {"select bits", "select low", "select transfer", "select high",
            "select mode back", "set bits", "data", "mode back"}
In8Bits == {"select low", "select transfer", "select high", "select mode back",
            "select bits back", "data", "mode back", "bits back"}

\* Where the selector must be closed again, and where the module was selected.
Closed == {"select mode back", "select bits back", "write", "read"} \cup Writing
Chosen == {"select high"} \cup Closed

\* What the thread that owns the bus has made of it.
BusOf(t) ==
    pc[t] \in Owning =>
        /\ mode = IF pc[t] \in InMode3 THEN 3 ELSE 1
        /\ bits = IF pc[t] \in In8Bits THEN 8 ELSE 16
        /\ pc[t] = "select transfer" => ds = "low"
        /\ pc[t] \in Closed => ds = "high"
        /\ pc[t] \in Chosen => selected = Target(t)

BusInv == Alone => DeviceIsHandedBack /\ \A t \in Volt : BusOf(t)

\* Both threads were started by the same spi_open, and each has one module.
LEMMA VoltOwn ==
    ASSUME NEW t \in Volt
    PROVE  /\ OwnMode(t) = 1 /\ OwnBits(t) = 16
           /\ Target(t) = IF t = "main" THEN "adc" ELSE "outlets"
           /\ (Target(t))' = Target(t)
BY DEF OwnMode, OwnBits, Target, Volt

\* The owner of the mutex alone decides what the bus is like.
LEMMA OwnerDecides ==
    ASSUME MutexInv', NEW t \in Volt, mutex' = t, BusOf(t)'
    PROVE  BusInv'
<1>1. mutex' # Free
  BY ThreadNames
<1>2. ASSUME NEW u \in Volt, u # t PROVE BusOf(u)'
  BY <1>2 DEF BusOf, MutexInv, OwnerHolds
<1> QED BY <1>1, <1>2 DEF BusInv, DeviceIsHandedBack

\* With no process at work the bus is nobody's.
LEMMA IdleBus ==
    ASSUME MutexInv', mutex' = Free, pc'["main"] # "off" => mode' = 1 /\ bits' = 16
    PROVE  BusInv'
<1>1. ASSUME NEW u \in Volt PROVE BusOf(u)'
  BY ThreadNames DEF BusOf, MutexInv, OwnerHolds
<1> QED BY <1>1 DEF BusInv, DeviceIsHandedBack

\* A step of a thread of volt leaves the leak service where it is.
LEMMA StillAlone ==
    ASSUME MutexInv, NEW t \in Volt, NEW here, NEW there, Goto(t, here, there), Alone'
    PROVE  /\ Alone
           /\ pc[t] = here /\ pc'[t] = there
           /\ \A u \in Volt : u # t => pc'[u] = pc[u]
<1> USE ThreadNames
<1>1. pc[t] = here /\ pc' = [pc EXCEPT ![t] = there]
  BY DEF Goto
<1>2. pc'[t] = there /\ \A u \in Thread : u # t => pc'[u] = pc[u]
  BY <1>1 DEF MutexInv, ProcessType
<1>3. \A u \in Leak : u \in Thread /\ u # t
  BY VoltSpiAssumption DEF Thread
<1> QED BY <1>1, <1>2, <1>3 DEF Alone

\* While it is off the leak service does nothing but start, and is not off then.
LEMMA LeakEndsAlone ==
    ASSUME MutexInv, LeakService
    PROVE  ~Alone'
<1> USE ThreadNames
<1>1. "leak" \in Leak /\ "leak" \in Thread
  BY DEF LeakService, Thread
<1>2. ASSUME NEW here, NEW there, Goto("leak", here, there), there # "off"
      PROVE  ~Alone'
  BY <1>1, <1>2 DEF Goto, MutexInv, ProcessType, Alone
<1>3. CASE LeakOpen \/ LeakDummy \/ LeakRead
  BY <1>2, <1>3 DEF LeakOpen, LeakDummy, LeakRead
<1>4. CASE spi_mod_comm("leak")
  BY <1>2, <1>4 DEF spi_mod_comm, SelectMode, SelectBits, SelectLow, SelectTransfer,
     SelectHigh, SelectModeBack, SelectBitsBack, Selected
<1> QED BY <1>3, <1>4 DEF LeakService

\* A step of the owner of the mutex that does not give it up.
LEMMA OwnerMoves ==
    ASSUME MutexInv, MutexInv', BusInv, Alone', NEW t \in Volt, NEW here \in Owning,
           NEW there, Goto(t, here, there), mutex' = mutex
    PROVE  /\ pc[t] = here /\ pc'[t] = there
           /\ BusOf(t)
           /\ BusOf(t)' => BusInv'
<1> USE ThreadNames
<1>1. Alone /\ pc[t] = here /\ pc'[t] = there
  BY StillAlone
<1>2. mutex = t
  BY <1>1 DEF MutexInv, OwnerHolds
<1> QED BY <1>1, <1>2, OwnerDecides DEF BusInv

\* spi_mod_comm opens the selector in mode 3, closes it, and puts mode and word
\* size back.
LEMMA SelectingKeepsBus ==
    ASSUME MutexInv, MutexInv', BusInv, NEW t \in Volt, spi_mod_comm(t)
    PROVE  BusInv'
<1> SUFFICES ASSUME Alone' PROVE BusInv'
  BY DEF BusInv
<1> USE ThreadNames
<1>1. CASE SelectMode(t)
  <2>1. /\ pc[t] = "select mode" /\ pc'[t] = "select bits"
        /\ BusOf(t) /\ (BusOf(t)' => BusInv')
    BY <1>1, OwnerMoves DEF SelectMode, Owning, Selecting, Writing
  <2>2. BusOf(t)'
    BY <1>1, <2>1, VoltOwn DEF SelectMode, BusOf, Owning, Selecting, Writing, InMode3,
       In8Bits, Closed, Chosen
  <2> QED BY <2>1, <2>2
<1>2. CASE SelectBits(t)
  <2>1. /\ pc[t] = "select bits" /\ pc'[t] = "select low"
        /\ BusOf(t) /\ (BusOf(t)' => BusInv')
    BY <1>2, OwnerMoves DEF SelectBits, Owning, Selecting, Writing
  <2>2. BusOf(t)'
    BY <1>2, <2>1, VoltOwn DEF SelectBits, BusOf, Owning, Selecting, Writing, InMode3,
       In8Bits, Closed, Chosen
  <2> QED BY <2>1, <2>2
<1>3. CASE SelectLow(t)
  <2>1. /\ pc[t] = "select low" /\ pc'[t] = "select transfer"
        /\ BusOf(t) /\ (BusOf(t)' => BusInv')
    BY <1>3, OwnerMoves DEF SelectLow, Owning, Selecting, Writing
  <2>2. BusOf(t)'
    BY <1>3, <2>1, VoltOwn DEF SelectLow, BusOf, Owning, Selecting, Writing, InMode3,
       In8Bits, Closed, Chosen
  <2> QED BY <2>1, <2>2
<1>4. CASE SelectTransfer(t)
  <2>1. /\ pc[t] = "select transfer" /\ pc'[t] = "select high"
        /\ BusOf(t) /\ (BusOf(t)' => BusInv')
    BY <1>4, OwnerMoves DEF SelectTransfer, Owning, Selecting, Writing
  <2>2. BusOf(t)'
    BY <1>4, <2>1, VoltOwn DEF SelectTransfer, BusOf, Owning, Selecting, Writing, InMode3,
       In8Bits, Closed, Chosen
  <2> QED BY <2>1, <2>2
<1>5. CASE SelectHigh(t)
  <2>1. /\ pc[t] = "select high" /\ pc'[t] = "select mode back"
        /\ BusOf(t) /\ (BusOf(t)' => BusInv')
    BY <1>5, OwnerMoves DEF SelectHigh, Owning, Selecting, Writing
  <2>2. BusOf(t)'
    BY <1>5, <2>1, VoltOwn DEF SelectHigh, BusOf, Owning, Selecting, Writing, InMode3,
       In8Bits, Closed, Chosen
  <2> QED BY <2>1, <2>2
<1>6. CASE SelectModeBack(t)
  <2>1. /\ pc[t] = "select mode back" /\ pc'[t] = "select bits back"
        /\ BusOf(t) /\ (BusOf(t)' => BusInv')
    BY <1>6, OwnerMoves DEF SelectModeBack, Owning, Selecting, Writing
  <2>2. BusOf(t)'
    BY <1>6, <2>1, VoltOwn DEF SelectModeBack, BusOf, Owning, Selecting, Writing, InMode3,
       In8Bits, Closed, Chosen
  <2> QED BY <2>1, <2>2
<1>7. CASE SelectBitsBack(t)
  <2>1. /\ pc[t] = "select bits back" /\ pc'[t] = Selected(t)
        /\ BusOf(t) /\ (BusOf(t)' => BusInv')
    BY <1>7, OwnerMoves DEF SelectBitsBack, Owning, Selecting, Writing
  <2>2. BusOf(t)'
    BY <1>7, <2>1, VoltOwn DEF SelectBitsBack, Selected, BusOf, Owning, Selecting, Writing, InMode3,
       In8Bits, Closed, Chosen
  <2> QED BY <2>1, <2>2
<1> QED BY <1>1, <1>2, <1>3, <1>4, <1>5, <1>6, <1>7 DEF spi_mod_comm

\* write_data sets the outlets' mode and word size and puts them back.
LEMMA WritingKeepsBus ==
    ASSUME MutexInv, MutexInv', BusInv, write_data
    PROVE  BusInv'
<1> SUFFICES ASSUME Alone' PROVE BusInv'
  BY DEF BusInv
<1> USE ThreadNames
<1>1. CASE SetMode
  <2>1. /\ pc["cmd"] = "set mode" /\ pc'["cmd"] = "set bits"
        /\ BusOf("cmd") /\ (BusOf("cmd")' => BusInv')
    BY <1>1, OwnerMoves DEF SetMode, Owning, Selecting, Writing
  <2>2. BusOf("cmd")'
    BY <1>1, <2>1, VoltOwn DEF SetMode, BusOf, Owning, Selecting, Writing, InMode3,
       In8Bits, Closed, Chosen
  <2> QED BY <2>1, <2>2
<1>2. CASE SetBits
  <2>1. /\ pc["cmd"] = "set bits" /\ pc'["cmd"] = "data"
        /\ BusOf("cmd") /\ (BusOf("cmd")' => BusInv')
    BY <1>2, OwnerMoves DEF SetBits, Owning, Selecting, Writing
  <2>2. BusOf("cmd")'
    BY <1>2, <2>1, VoltOwn DEF SetBits, BusOf, Owning, Selecting, Writing, InMode3,
       In8Bits, Closed, Chosen
  <2> QED BY <2>1, <2>2
<1>3. CASE WriteOutlets
  <2>1. /\ pc["cmd"] = "data" /\ pc'["cmd"] = "mode back"
        /\ BusOf("cmd") /\ (BusOf("cmd")' => BusInv')
    BY <1>3, OwnerMoves DEF WriteOutlets, Owning, Selecting, Writing
  <2>2. BusOf("cmd")'
    BY <1>3, <2>1, VoltOwn DEF WriteOutlets, bus, BusOf, Owning, Selecting, Writing, InMode3,
       In8Bits, Closed, Chosen
  <2> QED BY <2>1, <2>2
<1>4. CASE ModeBack
  <2>1. /\ pc["cmd"] = "mode back" /\ pc'["cmd"] = "bits back"
        /\ BusOf("cmd") /\ (BusOf("cmd")' => BusInv')
    BY <1>4, OwnerMoves DEF ModeBack, Owning, Selecting, Writing
  <2>2. BusOf("cmd")'
    BY <1>4, <2>1, VoltOwn DEF ModeBack, BusOf, Owning, Selecting, Writing, InMode3,
       In8Bits, Closed, Chosen
  <2> QED BY <2>1, <2>2
<1>5. CASE BitsBack
  <2>1. /\ pc["cmd"] = "bits back" /\ pc'["cmd"] = "unlock"
        /\ BusOf("cmd") /\ (BusOf("cmd")' => BusInv')
    BY <1>5, OwnerMoves DEF BitsBack, Owning, Selecting, Writing
  <2>2. BusOf("cmd")'
    BY <1>5, <2>1, VoltOwn DEF BitsBack, BusOf, Owning, Selecting, Writing, InMode3,
       In8Bits, Closed, Chosen
  <2> QED BY <2>1, <2>2
<1> QED BY <1>1, <1>2, <1>3, <1>4, <1>5 DEF write_data

\* The conversions of main leave the bus as its selection made it.
LEMMA ConvertingKeepsBus ==
    ASSUME MutexInv, MutexInv', BusInv, NEW here \in {"write", "read"},
           NEW there \in {"write", "read", "unlock"},
           Goto("main", here, there), UNCHANGED <<bus, mutex>>
    PROVE  BusInv'
<1> SUFFICES ASSUME Alone' PROVE BusInv'
  BY DEF BusInv
<1> USE ThreadNames, VoltOwn
<1>1. /\ Alone /\ pc["main"] = here /\ pc'["main"] = there
      /\ here \in Owning
  BY StillAlone DEF Owning
<1>2. mutex = "main" /\ BusOf("main")
  BY <1>1 DEF MutexInv, OwnerHolds, BusInv
<1>3. BusOf("main")'
  BY <1>1, <1>2 DEF BusOf, bus, Closed, Chosen, Writing, InMode3, In8Bits
<1> QED BY <1>2, <1>3, OwnerDecides

\* Between rounds main does not touch the bus, whoever has it.
LEMMA CheckingKeepsBus ==
    ASSUME MutexInv, MutexInv', BusInv, Goto("main", "check", "ready"),
           UNCHANGED <<bus, mutex>>
    PROVE  BusInv'
<1> SUFFICES ASSUME Alone' PROVE BusInv'
  BY DEF BusInv
<1> USE ThreadNames, VoltOwn
<1>1. /\ Alone /\ pc["main"] = "check" /\ pc'["main"] = "ready" /\ pc'["cmd"] = pc["cmd"]
  BY StillAlone
<1>2. BusOf("main")' /\ DeviceIsHandedBack'
  BY <1>1 DEF BusOf, Owning, Selecting, Writing, BusInv, DeviceIsHandedBack, bus
<1>3. BusOf("cmd")'
  BY <1>1 DEF BusInv, BusOf, bus, Target
<1> QED BY <1>2, <1>3 DEF BusInv

\* Taking the mutex and giving it up, the device is as spi_open left it.
LEMMA HandingOverKeepsBus ==
    ASSUME MutexInv, MutexInv', BusInv, NEW t \in Volt, NEW here, NEW there,
           Goto(t, here, there), UNCHANGED <<mode, bits>>,
           \/ /\ mutex = Free /\ mutex' = t /\ here # "off"
              /\ there \in {"select mode", "dummy conversions"}
           \/ here \in {"unlock", "dummy conversions"} /\ mutex' = Free
    PROVE  BusInv'
<1> SUFFICES ASSUME Alone' PROVE BusInv'
  BY DEF BusInv
<1> USE ThreadNames, VoltOwn
<1>1. Alone /\ pc[t] = here /\ pc'[t] = there
  BY StillAlone, ZenonT(60)
<1>2. CASE mutex = Free /\ mutex' = t
  <2>1. here # "off" /\ there \in {"select mode", "dummy conversions"}
    BY <1>2
  <2>2. mode = 1 /\ bits = 16
    BY <1>1, <1>2, <2>1 DEF BusInv, DeviceIsHandedBack, MutexInv, Places
  <2>3. BusOf(t)'
    BY <1>1, <2>1, <2>2 DEF BusOf, InMode3, In8Bits, Closed, Chosen, Writing
  <2> QED BY <1>2, <2>3, OwnerDecides
<1>3. CASE here \in {"unlock", "dummy conversions"} /\ mutex' = Free
  <2>1. mode = 1 /\ bits = 16
    BY <1>1, <1>3 DEF BusInv, BusOf, InMode3, In8Bits, Owning
  <2> QED BY <1>3, <2>1, IdleBus
<1> QED BY <1>2, <1>3

\* The end of the process leaves the bus to the next one, which sets it up.
LEMMA ExitKeepsBus == MutexInv' /\ Exit => BusInv'
<1> SUFFICES ASSUME MutexInv', Exit PROVE BusInv'
  OBVIOUS
<1>1. mutex' = Free /\ pc'["main"] = "off"
  BY ThreadNames DEF Exit
<1> QED BY <1>1, IdleBus

\* BusInv is inductive, given MutexInv: one step per action of Next.
LEMMA NextKeepsBus == MutexInv /\ BusInv /\ [Next]_vars => BusInv'
<1> SUFFICES ASSUME MutexInv, BusInv, [Next]_vars PROVE BusInv'
  OBVIOUS
<1> USE ThreadNames
<1>0. MutexInv'
  BY NextKeepsMutex
<1>1. CASE Start
  <2>1. pc["cmd"] = "off" /\ pc["main"] = "off" /\ mutex' = mutex
    BY <1>1 DEF Start, MutexInv, Places
  <2>2. mutex = Free
    BY <2>1 DEF MutexInv, OwnerHolds, ProcessType, Owning, Selecting, Writing
  <2>3. mode' = 1 /\ bits' = 16
    BY <1>1, VoltOwn DEF Start
  <2> QED BY <1>0, <2>1, <2>2, <2>3, IdleBus
<1>2. CASE DummyLock
  BY <1>0, <1>2, HandingOverKeepsBus DEF DummyLock, bus
<1>3. CASE DummyConversions
  BY <1>0, <1>3, HandingOverKeepsBus DEF DummyConversions
<1>4. CASE AdcWrite
  BY <1>0, <1>4, ConvertingKeepsBus, ExitKeepsBus DEF AdcWrite
<1>5. CASE AdcRead
  <2>1. CASE Exit
    BY <1>0, <2>1, ExitKeepsBus
  <2>2. CASE ~Exit
    BY <1>0, <1>5, <2>2, ConvertingKeepsBus DEF AdcRead
  <2> QED BY <2>1, <2>2
<1>6. CASE ValidVoltage
  BY <1>0, <1>6, CheckingKeepsBus DEF ValidVoltage
<1>7. CASE InvalidVoltage
  BY <1>0, <1>7, CheckingKeepsBus, ExitKeepsBus DEF InvalidVoltage, Goto
<1>8. CASE write_data
  BY <1>0, <1>8, WritingKeepsBus
<1>9. CASE Crash
  BY <1>0, <1>9, ExitKeepsBus DEF Crash
<1>10. ASSUME NEW t \in Volt, Lock(t) PROVE BusInv'
  BY <1>0, <1>10, HandingOverKeepsBus DEF Lock, bus
<1>11. ASSUME NEW t \in Volt, Unlock(t) PROVE BusInv'
  BY <1>0, <1>11, HandingOverKeepsBus DEF Unlock, bus
<1>12. ASSUME NEW t \in Volt, spi_mod_comm(t) PROVE BusInv'
  BY <1>0, <1>12, SelectingKeepsBus
<1>13. CASE LeakService
  BY <1>13, LeakEndsAlone DEF BusInv
<1>14. CASE UNCHANGED vars
  BY <1>14 DEF vars, bus, BusInv, Alone, DeviceIsHandedBack, BusOf, Target
<1>15. CASE MainThread
  BY <1>1, <1>2, <1>3, <1>4, <1>5, <1>6, <1>7, <1>10, <1>11, <1>12, <1>15 DEF MainThread
<1>16. CASE CommandThread
  BY <1>8, <1>10, <1>11, <1>12, <1>16 DEF CommandThread
<1> QED BY <1>9, <1>13, <1>14, <1>15, <1>16 DEF Next

\* Both invariants hold in every reachable state.
THEOREM BusInvariant == Spec => [](MutexInv /\ BusInv)
<1>1. Init => MutexInv /\ BusInv
  <2>1. Init => \A t \in Volt : pc[t] = "off"
    BY ThreadNames DEF Init
  <2>2. Init => BusInv
    BY <2>1, ThreadNames DEF BusInv, DeviceIsHandedBack, BusOf, Owning, Selecting, Writing
  <2> QED BY <2>2, InitMutex
<1>2. MutexInv /\ BusInv /\ [Next]_vars => (MutexInv /\ BusInv)'
  BY NextKeepsMutex, NextKeepsBus
<1> QED BY <1>1, <1>2, PTL DEF Spec

\* transfer_module and the mutex together: every request to the ADC and every
\* answer goes through in its mode, with its module selected, after any crash.
THEOREM AdcIsReached == Spec => []ConversionsReachTheAdc
<1>1. MutexInv /\ BusInv => ConversionsReachTheAdc
  <2> SUFFICES ASSUME BusInv, Alone, pc["main"] \in {"write", "read"}
               PROVE  mode = 1 /\ bits = 16 /\ ds = "high" /\ selected = "adc"
    BY DEF ConversionsReachTheAdc
  <2>1. BusOf("main") /\ Target("main") = "adc"
    BY ThreadNames, VoltOwn DEF BusInv
  <2> QED BY <2>1 DEF BusOf, Owning, InMode3, In8Bits, Closed, Chosen
<1> QED BY <1>1, BusInvariant, PTL

\* write_data's byte goes out in the outlets' mode, to the outlets' module.
THEOREM OutletsAreReached == Spec => []OutletsReachTheirModule
<1>1. MutexInv /\ BusInv => OutletsReachTheirModule
  <2> SUFFICES ASSUME BusInv, Alone, pc["cmd"] = "data"
               PROVE  mode = 3 /\ bits = 8 /\ ds = "high" /\ selected = "outlets"
    BY DEF OutletsReachTheirModule
  <2>1. BusOf("cmd") /\ Target("cmd") = "outlets"
    BY ThreadNames, VoltOwn DEF BusInv
  <2> QED BY <2>1 DEF BusOf, Owning, Writing, InMode3, In8Bits, Closed, Chosen
<1> QED BY <1>1, BusInvariant, PTL

\* Whoever gives up spi_mutex has put mode and word size back.
THEOREM DeviceIsReturned == Spec => []DeviceIsHandedBack
<1>1. MutexInv /\ BusInv => DeviceIsHandedBack
  BY DEF BusInv, DeviceIsHandedBack
<1> QED BY <1>1, BusInvariant, PTL

-------------------------------------------------------------------------------
(* The types of the device, the boards and the counters. *)

\* The device, the boards and the counters of the two loops.
BusType ==
    /\ mode \in {1, 3} /\ bits \in {8, 16} /\ ds \in {"low", "high"}
    /\ selected \in {"unknown", "adc", "outlets", "latch", "inputs"}
    /\ step \in [Thread -> 1 .. Channels]
    /\ read_fails \in 0 .. MaxReadFails + 1

\* The selection of a module, by any of the three threads.
LEMMA SelectingKeepsTypes ==
    ASSUME BusType, NEW t \in Thread, spi_mod_comm(t)
    PROVE  BusType' /\ step' = step
<1>1. OwnMode(t) \in {1, 3} /\ OwnBits(t) \in {8, 16}
  BY DEF OwnMode, OwnBits
<1>2. Target(t) \in {"adc", "outlets", "latch", "inputs"}
  BY ThreadNames DEF Target
<1>3. CASE SelectTransfer(t)
  <2>1. selected' \in {selected, Target(t), "unknown"} /\ UNCHANGED <<mode, bits, ds, step, read_fails>>
    BY <1>3 DEF SelectTransfer, BusType
  <2> QED BY <1>2, <2>1 DEF BusType
<1>4. CASE SelectMode(t) \/ SelectModeBack(t)
  BY <1>1, <1>4 DEF SelectMode, SelectModeBack, BusType
<1>5. CASE SelectBits(t) \/ SelectBitsBack(t)
  BY <1>1, <1>5 DEF SelectBits, SelectBitsBack, BusType
<1>6. CASE SelectLow(t) \/ SelectHigh(t)
  BY <1>6 DEF SelectLow, SelectHigh, BusType
<1> QED BY <1>3, <1>4, <1>5, <1>6 DEF spi_mod_comm

\* The counter of one thread is set.
LEMMA StepIsSet ==
    ASSUME BusType, NEW t \in Thread, NEW n \in 1 .. Channels,
           step' = [step EXCEPT ![t] = n], UNCHANGED <<mode, bits, ds, selected, read_fails>>
    PROVE  BusType'
BY DEF BusType

\* A conversion more, of which there is a round's worth at most.
LEMMA ConversionIsCounted == ASSUME BusType, AdcRead PROVE BusType'
<1> USE ThreadNames, VoltSpiAssumption
<1>1. CASE Exit
  BY <1>1 DEF Exit, bus, BusType
<1>2. CASE step["main"] < Channels /\ ~Exit
  <2>1. /\ step' = [step EXCEPT !["main"] = step["main"] + 1]
        /\ UNCHANGED <<mode, bits, ds, selected, read_fails>>
    BY <1>2 DEF AdcRead, bus
  <2>2. step["main"] + 1 \in 1 .. Channels
    BY <1>2 DEF BusType
  <2> QED BY <2>1, <2>2, StepIsSet
<1>3. CASE ~(step["main"] < Channels) /\ ~Exit
  BY <1>3 DEF AdcRead, bus, BusType
<1> QED BY <1>1, <1>2, <1>3

\* BusType is inductive.
LEMMA NextKeepsTypes == BusType /\ [Next]_vars => BusType'
<1> SUFFICES ASSUME BusType, [Next]_vars PROVE BusType'
  OBVIOUS
<1> USE ThreadNames, VoltSpiAssumption DEF bus
<1>0. 1 \in 1 .. Channels /\ 2 \in 1 .. Channels
  OBVIOUS
<1>1. CASE Start
  BY <1>1 DEF Start, BusType, OwnMode, OwnBits
<1>2. CASE DummyLock \/ DummyConversions \/ AdcWrite \/ ValidVoltage
  <2>1. /\ UNCHANGED <<mode, bits, ds, step>> /\ read_fails' \in {read_fails, 0}
        /\ selected' \in {selected, "unknown"}
    BY <1>2 DEF DummyLock, DummyConversions, AdcWrite, ValidVoltage, Exit
  <2> QED BY <2>1 DEF BusType
<1>3. CASE InvalidVoltage
  <2>1. /\ UNCHANGED <<mode, bits, ds, selected, step>>
        /\ read_fails' = 0 \/ (read_fails <= MaxReadFails /\ read_fails' = read_fails + 1)
    BY <1>3 DEF InvalidVoltage, Exit
  <2>2. read_fails' \in 0 .. MaxReadFails + 1
    BY <2>1 DEF BusType
  <2> QED BY <2>1, <2>2 DEF BusType
<1>4. CASE AdcRead
  BY <1>4, ConversionIsCounted
<1>5. CASE write_data
  BY <1>5 DEF write_data, SetMode, SetBits, WriteOutlets, ModeBack, BitsBack, OwnMode, OwnBits, BusType
<1>6. CASE Crash
  BY <1>6 DEF Crash, Exit, BusType
<1>7. ASSUME NEW t \in Volt, Lock(t) PROVE BusType'
  BY <1>0, <1>7, StepIsSet DEF Lock
<1>8. ASSUME NEW t \in Volt, Unlock(t) PROVE BusType'
  BY <1>8 DEF Unlock, BusType
<1>9. CASE LeakService
  <2>1. "leak" \in Thread
    BY <1>9 DEF LeakService, Thread
  <2>2. CASE LeakOpen
    BY <1>0, <2>1, <2>2 DEF LeakOpen, BusType, OwnMode, OwnBits
  <2>3. CASE LeakDummy
    BY <1>0, <2>1, <2>3 DEF LeakDummy, BusType
  <2>4. CASE LeakRead
    BY <1>0, <2>1, <2>4, StepIsSet DEF LeakRead
  <2> QED BY <1>9, <2>1, <2>2, <2>3, <2>4, SelectingKeepsTypes DEF LeakService
<1>10. CASE UNCHANGED vars
  BY <1>10 DEF vars, BusType
<1> QED BY <1>1, <1>2, <1>3, <1>4, <1>5, <1>6, <1>7, <1>8, <1>9, <1>10, SelectingKeepsTypes
        DEF Next, MainThread, CommandThread

\* Everything keeps its type, for any number of channels; and a round never counts
\* more conversions than there are (main's loop over the channels, volt.c).
THEOREM TypesAreKept == Spec => []TypeOK
<1>1. Init => BusType
  BY VoltSpiAssumption DEF Init, BusType
<1>2. MutexInv /\ BusType => TypeOK
  BY DEF MutexInv, ProcessType, BusType, TypeOK
<1> QED BY <1>1, <1>2, InitMutex, NextKeepsMutex, NextKeepsTypes, PTL DEF Spec

-------------------------------------------------------------------------------
(* The way to the unlock. *)

\* What a thread of volt does after its selection: two steps a channel or the five
\* of write_data, and the unlock.
Rest(t) == IF t = "main" THEN 2 * Channels + 1 ELSE 6

\* What is left of the selection and of the rest r, at place p in conversion n.
Left(r, p, n) ==
    CASE p = "select mode"      -> 7 + r
      [] p = "select bits"      -> 6 + r
      [] p = "select low"       -> 5 + r
      [] p = "select transfer"  -> 4 + r
      [] p = "select high"      -> 3 + r
      [] p = "select mode back" -> 2 + r
      [] p = "select bits back" -> 1 + r
      [] p = "set mode"         -> 6
      [] p = "set bits"         -> 5
      [] p = "data"             -> 4
      [] p = "mode back"        -> 3
      [] p = "bits back"        -> 2
      [] p = "write"            -> 2 * (Channels - n) + 3
      [] p = "read"             -> 2 * (Channels - n) + 2
      [] OTHER                  -> 1

\* The steps that the owner of the mutex takes before it is free again, at most.
StepsToUnlock(t) == Left(Rest(t), pc[t], step[t])

\* Every step of its owner brings the mutex nearer to its release, or is the release;
\* no step of another thread takes it away or sends the owner back.
OwnerGetsOn ==
    \A t \in Volt : mutex = t =>
        /\ StepsToUnlock(t) \in 1 .. 7 + Rest(t)
        /\ \/ mutex' = Free
           \/ mutex' = t /\ pc'[t] # pc[t] /\ StepsToUnlock(t)' < StepsToUnlock(t)
           \/ mutex' = t /\ pc'[t] = pc[t] /\ StepsToUnlock(t)' = StepsToUnlock(t)

\* From where to where the owner goes without giving the mutex up, its conversions
\* being m and n.
Goes(t, p, q, m, n) ==
    \/ p = "select mode" /\ q = "select bits"
    \/ p = "select bits" /\ q = "select low"
    \/ p = "select low" /\ q = "select transfer"
    \/ p = "select transfer" /\ q = "select high"
    \/ p = "select high" /\ q = "select mode back"
    \/ p = "select mode back" /\ q = "select bits back"
    \/ p = "select bits back" /\ t = "main" /\ q = "write"
    \/ p = "select bits back" /\ t = "cmd" /\ q = "set mode"
    \/ p = "set mode" /\ q = "set bits"
    \/ p = "set bits" /\ q = "data"
    \/ p = "data" /\ q = "mode back"
    \/ p = "mode back" /\ q = "bits back"
    \/ p = "bits back" /\ q = "unlock"
    \/ p = "write" /\ q = "read" /\ n = m
    \/ p = "read" /\ q = "write" /\ n = m + 1
    \/ p = "read" /\ q = "unlock" /\ m = Channels

\* The selection is followed by two steps a channel, or by six steps.
LEMMA RestOf ==
    ASSUME NEW t \in Volt
    PROVE  /\ Rest(t) \in Nat
           /\ t = "main" => Rest(t) = 2 * Channels + 1
           /\ t = "cmd" => Rest(t) = 6
BY VoltSpiAssumption DEF Rest

\* On each of these ways there is less left.
LEMMA LessIsLeft ==
    ASSUME NEW t \in Volt, NEW p, NEW q, NEW m \in 1 .. Channels, NEW n \in 1 .. Channels,
           NEW r \in Nat, t = "main" => r = 2 * Channels + 1, t = "cmd" => r = 6,
           Goes(t, p, q, m, n)
    PROVE  p # q /\ Left(r, q, n) < Left(r, p, m)
<1>1. Channels \in Int /\ m \in Int /\ n \in Int /\ m <= Channels /\ n >= 1
  BY VoltSpiAssumption
<1>2. PICK k, l : k = Left(r, q, n) /\ l = Left(r, p, m)
  OBVIOUS
<1>3. p # q
  BY DEF Goes
<1>4. CASE p = "select bits back"
  <2>1. l = 1 + r
    BY <1>2, <1>4 DEF Left
  <2>2. \/ r = 2 * Channels + 1 /\ k = 2 * (Channels - n) + 3
        \/ r = 6 /\ k = 6
    BY <1>2, <1>4 DEF Goes, Left
  <2>3. k < l
    BY <1>1, <2>1, <2>2
  <2> QED BY <1>2, <1>3, <2>3
<1>5. CASE p \in Selecting /\ p # "select bits back"
  <2>1. \/ l = 7 + r /\ k = 6 + r
        \/ l = 6 + r /\ k = 5 + r
        \/ l = 5 + r /\ k = 4 + r
        \/ l = 4 + r /\ k = 3 + r
        \/ l = 3 + r /\ k = 2 + r
        \/ l = 2 + r /\ k = 1 + r
    BY <1>2, <1>5 DEF Goes, Selecting, Left
  <2>2. k < l
    BY <2>1
  <2> QED BY <1>2, <1>3, <2>2
<1>6. CASE p \in Writing
  <2>1. \/ l = 6 /\ k = 5
        \/ l = 5 /\ k = 4
        \/ l = 4 /\ k = 3
        \/ l = 3 /\ k = 2
        \/ l = 2 /\ k = 1
    BY <1>2, <1>6 DEF Goes, Writing, Left
  <2>2. k < l
    BY <2>1
  <2> QED BY <1>2, <1>3, <2>2
<1>7. CASE p \in {"write", "read"}
  <2>1. \/ l = 2 * (Channels - m) + 3 /\ k = 2 * (Channels - n) + 2 /\ n = m
        \/ l = 2 * (Channels - m) + 2 /\ k = 2 * (Channels - n) + 3 /\ n = m + 1
        \/ l = 2 * (Channels - m) + 2 /\ k = 1
    BY <1>2, <1>7 DEF Goes, Left
  <2>2. k < l
    BY <1>1, <2>1
  <2> QED BY <1>2, <1>3, <2>2
<1> QED BY <1>4, <1>5, <1>6, <1>7 DEF Goes, Selecting, Writing

\* Wherever the owner is, there is something left, and no more than all of it.
LEMMA LeftIsBounded ==
    ASSUME NEW t \in Volt, NEW p \in Owning, NEW n \in 1 .. Channels,
           p \in {"write", "read"} => t = "main",
           NEW r \in Nat, t = "main" => r = 2 * Channels + 1
    PROVE  Left(r, p, n) \in 1 .. 7 + r
<1>1. Channels \in Int /\ n \in Int /\ n >= 1 /\ n <= Channels
  BY VoltSpiAssumption
<1>2. PICK l : l = Left(r, p, n)
  OBVIOUS
<1>3. CASE p \in Selecting
  <2>1. l \in {7 + r, 6 + r, 5 + r, 4 + r, 3 + r, 2 + r, 1 + r}
    BY <1>2, <1>3 DEF Selecting, Left
  <2>2. l \in 1 .. 7 + r
    BY <2>1
  <2> QED BY <1>2, <2>2
<1>4. CASE p \in Writing \cup {"unlock", "dummy conversions"}
  <2>1. l \in {6, 5, 4, 3, 2, 1}
    BY <1>2, <1>4 DEF Writing, Left
  <2>2. l \in 1 .. 7 + r
    BY <2>1
  <2> QED BY <1>2, <2>2
<1>5. CASE p \in {"write", "read"}
  <2>1. l \in {2 * (Channels - n) + 3, 2 * (Channels - n) + 2} /\ r = 2 * Channels + 1
    BY <1>2, <1>5 DEF Left
  <2>2. l \in 1 .. 7 + r
    BY <1>1, <2>1
  <2> QED BY <1>2, <2>2
<1> QED BY <1>3, <1>4, <1>5 DEF Owning

\* There is a step to take, and a known number at most.
LEMMA RankBounded ==
    ASSUME MutexInv, BusType, NEW t \in Volt, mutex = t
    PROVE  StepsToUnlock(t) \in 1 .. 7 + Rest(t)
<1>1. pc[t] \in Owning /\ step[t] \in 1 .. Channels
  BY ThreadNames DEF MutexInv, OwnerHolds, BusType
<1>2. pc[t] \in {"write", "read"} => t = "main"
  BY ThreadNames DEF MutexInv, Places, Writing, Selecting
<1> QED BY <1>1, <1>2, RestOf, LeftIsBounded DEF StepsToUnlock

\* A thread that stays where it is has as much left as before.
LEMMA StaysThere ==
    ASSUME NEW t \in Volt, pc'[t] = pc[t], step'[t] = step[t]
    PROVE  StepsToUnlock(t)' = StepsToUnlock(t)
BY DEF StepsToUnlock, Rest

\* While volt is off nobody has the mutex.
LEMMA StartFindsItFree ==
    ASSUME MutexInv, NEW t \in Volt, mutex = t
    PROVE  ~Start
<1>1. pc[t] \in Owning
  BY DEF MutexInv, OwnerHolds
<1>2. pc[t] # "off"
  BY <1>1 DEF Owning, Selecting, Writing
<1> QED BY <1>2, ThreadNames DEF Start, MutexInv, Places

\* A step of another thread neither takes the mutex away nor moves the owner.
LEMMA OthersStayAway ==
    ASSUME MutexInv, BusType, NEW t \in Volt, mutex = t, NEW u \in Thread, u # t,
           \/ u \in Volt /\ (Lock(u) \/ spi_mod_comm(u) \/ Unlock(u))
           \/ u = "main" /\ (DummyLock \/ DummyConversions \/ AdcWrite \/ AdcRead \/ ValidVoltage \/ InvalidVoltage)
           \/ u = "cmd" /\ write_data
           \/ u = "leak" /\ (LeakOpen \/ spi_mod_comm(u) \/ LeakDummy \/ LeakRead)
    PROVE  mutex' = Free \/ (mutex' = mutex /\ pc'[t] = pc[t] /\ step'[t] = step[t])
<1> USE ThreadNames
<1>0. u \in Volt => pc[u] \notin Owning
  BY DEF MutexInv, OwnerHolds
<1>1. mutex # Free /\ pc \in [Thread -> Owning \cup {"off", "ready", "dummy lock", "check", "dummy", "read inputs"}]
      /\ step \in [Thread -> 1 .. Channels]
  BY DEF MutexInv, ProcessType, BusType
<1>2. ASSUME NEW here, NEW there, Goto(u, here, there)
      PROVE  pc'[t] = pc[t] /\ pc[u] = here
  BY <1>1, <1>2 DEF Goto
<1>3. ASSUME NEW n, step' = [step EXCEPT ![u] = n]
      PROVE  step'[t] = step[t]
  BY <1>1, <1>3
<1>4. CASE spi_mod_comm(u)
  BY <1>2, <1>4 DEF spi_mod_comm, SelectMode, SelectBits, SelectLow, SelectTransfer, SelectHigh,
                    SelectModeBack, SelectBitsBack
<1>5. CASE u \in Volt /\ (Lock(u) \/ Unlock(u))
  BY <1>0, <1>1, <1>2, <1>5 DEF Lock, Unlock, Owning
<1>6. CASE u = "main" /\ (DummyLock \/ DummyConversions \/ AdcWrite \/ AdcRead)
  BY <1>0, <1>1, <1>6 DEF DummyLock, DummyConversions, AdcWrite, AdcRead, Goto, Exit, Owning
<1>7. CASE u = "main" /\ (ValidVoltage \/ InvalidVoltage)
  <2>1. CASE Exit
    BY <2>1 DEF Exit
  <2>2. CASE ~Exit
    BY <1>1, <1>7, <2>2 DEF ValidVoltage, InvalidVoltage, Goto
  <2> QED BY <2>1, <2>2
<1>8. CASE u = "cmd" /\ write_data
  BY <1>0, <1>8 DEF write_data, SetMode, SetBits, WriteOutlets, ModeBack, BitsBack, Goto, Owning, Writing
<1>9. CASE u = "leak" /\ (LeakOpen \/ LeakDummy \/ LeakRead)
  <2>1. pc'[t] = pc[t] /\ mutex' = mutex
    BY <1>2, <1>9 DEF LeakOpen, LeakDummy, LeakRead
  <2>2. step'[t] = step[t]
    BY <1>3, <1>9 DEF LeakOpen, LeakDummy, LeakRead
  <2> QED BY <2>1, <2>2
<1> QED BY <1>4, <1>5, <1>6, <1>7, <1>8, <1>9

\* The owner itself moves on, or releases the mutex, or ends with the process.
LEMMA OwnerMovesOn ==
    ASSUME MutexInv, BusType, NEW t \in Volt, mutex = t,
           \/ Lock(t) \/ spi_mod_comm(t) \/ Unlock(t)
           \/ t = "main" /\ (DummyLock \/ DummyConversions \/ AdcWrite \/ AdcRead \/ ValidVoltage \/ InvalidVoltage)
           \/ t = "cmd" /\ write_data
    PROVE  mutex' = Free \/ (mutex' = t /\ pc'[t] # pc[t] /\ StepsToUnlock(t)' < StepsToUnlock(t))
<1> USE ThreadNames
<1>0. /\ mutex # Free /\ pc[t] \in Owning /\ step[t] \in 1 .. Channels /\ Channels \in Nat
      /\ pc \in [Thread -> Owning \cup {"off", "ready", "dummy lock", "check", "dummy", "read inputs"}]
      /\ step \in [Thread -> 1 .. Channels]
  BY VoltSpiAssumption DEF MutexInv, OwnerHolds, ProcessType, BusType
<1>1. ASSUME NEW here, NEW there, Goto(t, here, there)
      PROVE  pc[t] = here /\ pc'[t] = there
  BY <1>0, <1>1 DEF Goto
<1>9. ASSUME step'[t] \in 1 .. Channels, Goes(t, pc[t], pc'[t], step[t], step'[t])
      PROVE  pc'[t] # pc[t] /\ StepsToUnlock(t)' < StepsToUnlock(t)
  <2>1. PICK p, q, m, n : p = pc[t] /\ q = pc'[t] /\ m = step[t] /\ n = step'[t]
    OBVIOUS
  <2>2. p # q /\ Left(Rest(t), q, n) < Left(Rest(t), p, m)
    BY <1>0, <1>9, <2>1, RestOf, LessIsLeft
  <2>3. /\ StepsToUnlock(t) = Left(Rest(t), pc[t], step[t])
        /\ StepsToUnlock(t)' = Left(Rest(t), pc'[t], step'[t])
    BY DEF StepsToUnlock, Rest
  <2> QED BY <2>1, <2>2, <2>3
<1>2. CASE spi_mod_comm(t)
  <2>1. step' = step /\ mutex' = mutex
    BY <1>2 DEF spi_mod_comm, SelectMode, SelectBits, SelectLow, SelectTransfer, SelectHigh,
                SelectModeBack, SelectBitsBack
  <2>2. \/ pc[t] = "select mode" /\ pc'[t] = "select bits"
        \/ pc[t] = "select bits" /\ pc'[t] = "select low"
        \/ pc[t] = "select low" /\ pc'[t] = "select transfer"
        \/ pc[t] = "select transfer" /\ pc'[t] = "select high"
        \/ pc[t] = "select high" /\ pc'[t] = "select mode back"
        \/ pc[t] = "select mode back" /\ pc'[t] = "select bits back"
        \/ pc[t] = "select bits back" /\ pc'[t] = Selected(t)
    BY <1>1, <1>2 DEF spi_mod_comm, SelectMode, SelectBits, SelectLow, SelectTransfer, SelectHigh,
                      SelectModeBack, SelectBitsBack
  <2>3. (t = "main" /\ Selected(t) = "write") \/ (t = "cmd" /\ Selected(t) = "set mode")
    BY DEF Selected
  <2>4. Goes(t, pc[t], pc'[t], step[t], step'[t])
    BY <2>2, <2>3 DEF Goes
  <2> QED BY <1>0, <1>9, <2>1, <2>4
<1>3. CASE Lock(t) \/ Unlock(t)
  BY <1>0, <1>3 DEF Lock, Unlock
<1>4. CASE t = "main" /\ (DummyLock \/ DummyConversions)
  BY <1>0, <1>4 DEF DummyLock, DummyConversions
<1>5. CASE t = "main" /\ AdcWrite
  <2>1. CASE Exit
    BY <2>1 DEF Exit
  <2>2. CASE ~Exit
    <3>1. pc[t] = "write" /\ pc'[t] = "read" /\ step' = step /\ mutex' = mutex
      BY <1>1, <1>5, <2>2 DEF AdcWrite
    <3>2. Goes(t, pc[t], pc'[t], step[t], step'[t]) /\ step'[t] \in 1 .. Channels
      BY <1>0, <3>1 DEF Goes
    <3> QED BY <1>9, <3>1, <3>2
  <2> QED BY <2>1, <2>2
<1>6. CASE t = "main" /\ AdcRead
  <2>1. CASE Exit
    BY <2>1 DEF Exit
  <2>2. CASE ~Exit /\ step[t] < Channels
    <3>1. pc[t] = "read" /\ pc'[t] = "write" /\ step'[t] = step[t] + 1 /\ mutex' = mutex
      BY <1>0, <1>1, <1>6, <2>2 DEF AdcRead
    <3>3. step[t] + 1 \in 1 .. Channels
      <4>1. step[t] \in 1 .. Channels /\ Channels \in Nat
        BY <1>0
      <4> QED BY <2>2, <4>1
    <3>2. Goes(t, pc[t], pc'[t], step[t], step'[t]) /\ step'[t] \in 1 .. Channels
      BY <3>1, <3>3 DEF Goes
    <3> QED BY <1>9, <3>1, <3>2
  <2>3. CASE ~Exit /\ ~(step[t] < Channels)
    <3>3. step[t] = Channels
      <4>1. step[t] \in 1 .. Channels /\ Channels \in Nat
        BY <1>0
      <4> QED BY <2>3, <4>1
    <3>1. pc[t] = "read" /\ pc'[t] = "unlock" /\ step[t] = Channels /\ step' = step /\ mutex' = mutex
      BY <1>1, <1>6, <2>3, <3>3 DEF AdcRead
    <3>2. Goes(t, pc[t], pc'[t], step[t], step'[t]) /\ step'[t] \in 1 .. Channels
      BY <1>0, <3>1 DEF Goes
    <3> QED BY <1>9, <3>1, <3>2
  <2> QED BY <2>1, <2>2, <2>3
<1>7. CASE t = "main" /\ (ValidVoltage \/ InvalidVoltage)
  BY <1>0, <1>7 DEF ValidVoltage, InvalidVoltage, Goto, Owning, Selecting, Writing
<1>8. CASE t = "cmd" /\ write_data
  <2>1. /\ mutex' = mutex /\ step' = step
        /\ \/ pc[t] = "set mode" /\ pc'[t] = "set bits"
           \/ pc[t] = "set bits" /\ pc'[t] = "data"
           \/ pc[t] = "data" /\ pc'[t] = "mode back"
           \/ pc[t] = "mode back" /\ pc'[t] = "bits back"
           \/ pc[t] = "bits back" /\ pc'[t] = "unlock"
    BY <1>1, <1>8 DEF write_data, SetMode, SetBits, WriteOutlets, ModeBack, BitsBack
  <2>2. Goes(t, pc[t], pc'[t], step[t], step'[t]) /\ step'[t] = step[t]
    BY <2>1 DEF Goes
  <2> QED BY <1>0, <1>9, <2>1, <2>2
<1> QED BY <1>2, <1>3, <1>4, <1>5, <1>6, <1>7, <1>8

\* Neither main, however a round goes, nor command_listener keeps spi_mutex: its
\* owner has the seven of the selection before it and what
\* Rest says, two a channel for main: each of its steps
\* is one of them, and nothing that another process does adds to them.  What the
\* kernel contributes, that the owner runs, is left to MutexIsReleased.
THEOREM OwnersGetOn == Spec => [][OwnerGetsOn]_vars
<1> USE ThreadNames
<1>1. MutexInv /\ BusType /\ [Next]_vars => OwnerGetsOn
  <2> SUFFICES ASSUME MutexInv, BusType, [Next]_vars, NEW t \in Volt, mutex = t
               PROVE  /\ StepsToUnlock(t) \in 1 .. 7 + Rest(t)
                      /\ \/ mutex' = Free
                         \/ mutex' = t /\ pc'[t] # pc[t] /\ StepsToUnlock(t)' < StepsToUnlock(t)
                         \/ mutex' = t /\ pc'[t] = pc[t] /\ StepsToUnlock(t)' = StepsToUnlock(t)
    BY DEF OwnerGetsOn
  <2>1. StepsToUnlock(t) \in 1 .. 7 + Rest(t)
    BY RankBounded
  <2>2. CASE MainThread
    <3>1. CASE Start
      BY <3>1, StartFindsItFree
    <3>2. CASE ~Start /\ t = "main"
      BY <2>1, <2>2, <3>2, OwnerMovesOn DEF MainThread
    <3>3. CASE ~Start /\ t # "main"
      BY <2>1, <2>2, <3>3, OthersStayAway, StaysThere DEF MainThread
    <3> QED BY <3>1, <3>2, <3>3
  <2>3. CASE CommandThread
    <3>1. CASE t = "cmd"
      BY <2>1, <2>3, <3>1, OwnerMovesOn DEF CommandThread
    <3>2. CASE t # "cmd"
      BY <2>1, <2>3, <3>2, OthersStayAway, StaysThere DEF CommandThread
    <3> QED BY <3>1, <3>2
  <2>4. CASE LeakService
    <3>1. "leak" \in Thread /\ (LeakOpen \/ spi_mod_comm("leak") \/ LeakDummy \/ LeakRead)
      BY <2>4 DEF LeakService, Thread
    <3> QED BY <2>1, <3>1, OthersStayAway, StaysThere
  <2>5. CASE Crash
    BY <2>1, <2>5 DEF Crash, Exit
  <2>6. CASE UNCHANGED vars
    BY <2>1, <2>6, StaysThere DEF vars
  <2> QED BY <2>2, <2>3, <2>4, <2>5, <2>6 DEF Next
<1>2. Init => BusType
  BY VoltSpiAssumption DEF Init, BusType
<1> QED BY <1>1, <1>2, InitMutex, NextKeepsMutex, NextKeepsTypes, PTL DEF Spec
===============================================================================
