------------------------------ MODULE VoltCommand ------------------------------
(***************************************************************************)
(* The outlets of an AC board: command_listener of src/main/volt.c, the    *)
(* hash of commands that users write on the remote Redis, and the hash     *)
(* name:RB in which the listener acknowledges them.  One step is one Redis *)
(* command, the check of one outlet, or one write_data (see VoltSpi).      *)
(*                                                                         *)
(* The threads start before main has filled in name, so that the first     *)
(* Redis commands may go to the hash of another name: the empty one, or    *)
(* one half filled in, which no user writes either (here Unnamed).         *)
(***************************************************************************)
EXTENDS Integers

CONSTANTS
    None,       \* a field that Redis does not hold
    Bad,        \* a command whose first character is neither 0 nor 1
    Outlets     \* the number of outlets (7)

ASSUME CommandAssumption ==
    Outlets \in Nat \ {0} /\ {None, Bad} \cap Int = {} /\ None # Bad

Outlet  == 1..Outlets
Unnamed == ""
Board   == "SIMAR:ip:name"
Key     == {Unnamed, Board}

VARIABLES
    commands,   \* commands[k][o]: field o of the hash k
    rb,         \* rb[k][o]: field o of the hash k:RB
    relay,      \* relay[o]: 1 while outlet o has power
    name,       \* as main and the threads see it
    pc, i,      \* where the listener is, and the outlet at hand
    reply,      \* the commands it read
    up_reply,   \* and the acknowledgements
    msg_command,\* the byte to be sent, as a function
    asked,      \* history: the outlets ever commanded on in the board's hash
    from,       \* history: the hash that reply was read from
    failed      \* history: a command or a transfer of this round failed unnoticed

remote == <<commands, rb, asked>>
memory == <<reply, up_reply, msg_command, from, failed>>
vars   == <<remote, relay, name, pc, i, memory>>

Nothing == [o \in Outlet |-> None]
AllOff  == [o \in Outlet |-> 0]

\* Mutant: the repaired command goes to the other hash.
SetCommand_Readback(o, v) ==
    rb' = [rb EXCEPT ![name][o] = v] /\ UNCHANGED <<commands, asked>>

\* HSET name o v.
SetCommand(o, v) ==
    /\ commands' = [commands EXCEPT ![name][o] = v]
    /\ asked' = IF name = Board /\ v = 1 THEN asked \cup {o} ELSE asked
    /\ UNCHANGED rb

\* Mutant: an acknowledgement is never replaced.
Acknowledge_Once(o, v) ==
    /\ rb' = IF rb[name][o] = None THEN [rb EXCEPT ![name][o] = v] ELSE rb
    /\ UNCHANGED <<commands, asked>>

\* HSET name:RB o v.
Acknowledge(o, v) ==
    rb' = [rb EXCEPT ![name][o] = v] /\ UNCHANGED <<commands, asked>>

\* The replies to these are not looked at: an error is a command without effect.
Refused == failed' = TRUE /\ UNCHANGED remote

Exists(k) == \E o \in Outlet : commands[k][o] # None

Init ==
    /\ commands = [k \in Key |-> Nothing] /\ rb = [k \in Key |-> Nothing] /\ asked = {}
    /\ relay \in [Outlet -> {0, 1}]
    /\ pc = "off" /\ i = 1 /\ name = Unnamed
    /\ reply = Nothing /\ up_reply = Nothing /\ msg_command = AllOff /\ from = Unnamed
    /\ failed = FALSE

\* The process is gone: nothing of it remains but the outlets.
Exit ==
    /\ pc' = "off" /\ i' = 1 /\ name' = Unnamed
    /\ reply' = Nothing /\ up_reply' = Nothing /\ msg_command' = AllOff /\ from' = Unnamed
    /\ failed' = FALSE
    /\ UNCHANGED <<remote, relay>>

\* A kill, a connection lost (hiredis answers NULL from then on, and the code
\* looks into every reply), an error instead of the acknowledgements (the code looks
\* into its elements), or a server that connect_remote does not find.
Crash == pc # "off" /\ Exit

-------------------------------------------------------------------------------
Start ==
    /\ pc = "off" /\ pc' = "exists"
    /\ UNCHANGED <<remote, relay, name, i, memory>>

\* main reads its own address and name from the local Redis.
FillName ==
    /\ pc # "off" /\ name = Unnamed
    /\ name' = Board
    /\ UNCHANGED <<remote, relay, pc, i, memory>>

\* EXISTS name, then HMGET of the commands or HSET of the defaults: these too if
\* the reply is an error, whatever users have commanded.
ExistsName ==
    /\ pc = "exists"
    /\ \/ pc' = (IF Exists(name) THEN "first read" ELSE "defaults") /\ UNCHANGED failed
       \/ pc' = "defaults" /\ failed' = TRUE
    /\ UNCHANGED <<remote, relay, name, i, reply, up_reply, msg_command, from>>

Defaults ==
    /\ pc = "defaults" /\ pc' = "read"
    /\ \/ /\ commands' = [commands EXCEPT ![name] = [o \in Outlet |-> 1]]
          /\ asked' = IF name = Board THEN Outlet ELSE asked
          /\ UNCHANGED <<rb, failed>>
       \/ Refused
    /\ UNCHANGED <<relay, name, i, reply, up_reply, msg_command, from>>

\* HMGET of the commands, at the start or in the loop.
ReadCommands ==
    /\ \/ pc = "first read" /\ pc' = "first check"
       \/ pc = "read" /\ pc' = "read back"
    /\ reply' = commands[name] /\ from' = name
    /\ msg_command' = AllOff /\ failed' = FALSE
    /\ UNCHANGED <<remote, relay, name, i, up_reply>>

\* A reply of type error: the first one has no elements, so that all outlets are
\* switched off; later the listener connects again and sleeps.
ReplyIsError ==
    /\ \/ pc = "first read" /\ pc' = "first write"
       \/ pc = "read" /\ pc' = "sleep"
    /\ reply' = Nothing /\ from' = name /\ msg_command' = AllOff /\ failed' = TRUE
    /\ UNCHANGED <<remote, relay, name, i, up_reply>>

ReadReadback ==
    /\ pc = "read back" /\ pc' = "check"
    /\ up_reply' = rb[name]
    /\ UNCHANGED <<remote, relay, name, i, reply, msg_command, from, failed>>

NextOutlet(check, write) ==
    IF i < Outlets THEN i' = i + 1 /\ pc' = check ELSE i' = 1 /\ pc' = write

Missing == reply[i] = None /\ UNCHANGED <<remote, msg_command>>

\* A command of the right form sets the outlet's bit.
Valid == reply[i] \in {0, 1} /\ msg_command' = [msg_command EXCEPT ![i] = reply[i]]

\* The first check: a malformed command becomes 1, and the bit stays 0.
FirstCheck ==
    /\ pc = "first check" /\ NextOutlet("first check", "first write")
    /\ \/ Missing /\ UNCHANGED failed
       \/ Valid /\ UNCHANGED <<remote, failed>>
       \/ /\ reply[i] = Bad /\ UNCHANGED msg_command
          /\ (SetCommand(i, 1) /\ UNCHANGED failed) \/ Refused
    /\ UNCHANGED <<relay, name, reply, up_reply, from>>

\* The check of the loop: a malformed command goes back to the acknowledged
\* one, a new one is acknowledged.
Check ==
    /\ pc = "check" /\ NextOutlet("check", "write")
    /\ \/ Missing /\ UNCHANGED failed
       \/ Valid /\ up_reply[i] = reply[i] /\ UNCHANGED <<remote, failed>>
       \/ /\ Valid /\ up_reply[i] # reply[i]
          /\ (Acknowledge(i, reply[i]) /\ UNCHANGED failed) \/ Refused
       \/ /\ reply[i] = Bad /\ up_reply[i] # None /\ UNCHANGED msg_command
          /\ (SetCommand(i, up_reply[i]) /\ UNCHANGED failed) \/ Refused
    /\ UNCHANGED <<relay, name, reply, up_reply, from>>

\* A malformed command that was never acknowledged: up_reply holds no string.
NullReadback ==
    /\ pc = "check" /\ reply[i] = Bad /\ up_reply[i] = None
    /\ Exit

\* write_data, under the mutex: all the outlets at once, or none.  Its result is not
\* looked at.
Write ==
    /\ \/ pc = "first write" /\ pc' = "read"
       \/ pc = "write" /\ pc' = "sleep"
    /\ \/ relay' = msg_command /\ UNCHANGED failed
       \/ failed' = TRUE /\ UNCHANGED relay
    /\ UNCHANGED <<remote, name, i, reply, up_reply, msg_command, from>>

Wake ==
    /\ pc = "sleep" /\ pc' = "read"
    /\ UNCHANGED <<remote, relay, name, i, memory>>

Listener ==
    \/ Start \/ ExistsName \/ Defaults \/ ReadCommands \/ ReadReadback
    \/ FirstCheck \/ Check \/ NullReadback \/ Write \/ Wake

\* A user sends a command, well-formed or not.
Send(o) ==
    /\ \E v \in {0, 1, Bad} :
          /\ commands' = [commands EXCEPT ![Board][o] = v]
          /\ asked' = IF v = 1 THEN asked \cup {o} ELSE asked
    /\ UNCHANGED <<rb, relay, name, pc, i, memory>>

Next == Listener \/ FillName \/ ReplyIsError \/ Crash \/ \E o \in Outlet : Send(o)

Spec == Init /\ [][Next]_vars

\* systemd starts volt again, and both its threads run.
FairSpec == Spec /\ WF_vars(Listener) /\ WF_vars(FillName)

-------------------------------------------------------------------------------
Field == {None, Bad, 0, 1}

TypeOK ==
    /\ commands \in [Key -> [Outlet -> Field]]
    /\ rb \in [Key -> [Outlet -> {None, 0, 1}]]
    /\ relay \in [Outlet -> {0, 1}] /\ name \in Key
    /\ pc \in {"off", "exists", "defaults", "first read", "first check", "first write",
              "read", "read back", "check", "write", "sleep"}
    /\ i \in Outlet /\ from \in Key /\ asked \subseteq Outlet /\ failed \in BOOLEAN
    /\ reply \in [Outlet -> Field] /\ up_reply \in [Outlet -> {None, 0, 1}]
    /\ msg_command \in [Outlet -> {0, 1}]

\* When the listener has done a round over the board's own hashes in which nothing
\* failed, every outlet with a well-formed command is as commanded and is acknowledged
\* that way, whatever users, crashes, lost acknowledgements and lost writes of earlier
\* rounds left in the two hashes and on the board.
ReadbackTellsTheTruth ==
    pc = "sleep" /\ from = Board /\ ~failed =>
        \A o \in Outlet : reply[o] \in {0, 1} =>
            relay[o] = reply[o] /\ rb[Board][o] = reply[o]

\* From some time on no user sends a command, no command or transfer fails and nothing
\* kills volt.  That it faults by itself is not excluded.
Quiet ==
    /\ <>[]~failed
    /\ <>[][(Crash => NullReadback) /\ \A o \in Outlet : ~Send(o)]_vars

\* A malformed command has an acknowledged one to go back to; or the name is filled in
\* before the listener's first command, whose check repairs malformed commands without.
Answerable == \A o \in Outlet : commands[Board][o] = Bad => rb[Board][o] # None

NameInTime == <>[][ExistsName => name = Board]_vars

\* Once users and failures pause, malformed commands are gone, and the outlets
\* and their acknowledgements are what was commanded, for good: volt's own faults
\* over malformed commands come to an end, and so do acknowledgements that were
\* written before the outlets were.
Settled ==
    \A o \in Outlet :
        /\ commands[Board][o] # Bad
        /\ commands[Board][o] # None => relay[o] = commands[Board][o] /\ rb[Board][o] = relay[o]
        /\ commands[Board][o] = None => relay[o] = 0

Converges == Quiet /\ (<>[]Answerable \/ NameInTime) => <>[]Settled
===============================================================================
