----------------------------- MODULE MCVoltCommand -----------------------------
(* VoltCommand for TLC. *)
EXTENDS VoltCommand

\* "Listens for commands sent to the Redis key on the main server" (volt.c): an
\* outlet is switched on only if that was commanded in the board's key, ever.
OnlyCommandedOutlets ==
    [][\A o \in Outlet : relay[o] = 0 /\ relay'[o] = 1 => o \in asked]_vars

\* "Received malformed command" (volt.c): these the listener repairs, and well-formed
\* ones are replaced by users only, but for the defaults.
CommandsAreKept ==
    [][\A o \in Outlet : commands[Board][o] \in {0, 1} /\ commands'[Board][o] # commands[Board][o]
         => Defaults \/ \E p \in Outlet : Send(p)]_vars

\* Once users and failures pause, volt no longer faults.
FaultsEnd == Quiet => <>[][~NullReadback]_vars
===============================================================================
