--------------------------- MODULE VoltCommandProofs ---------------------------
(***************************************************************************)
(* VoltCommand for any number of outlets: the acknowledgements agree with  *)
(* the outlets after every round in which nothing failed, whatever users,  *)
(* crashes and earlier rounds did, and only outlets that were commanded on *)
(* are switched on.                                                        *)
(***************************************************************************)
EXTENDS VoltCommand, TLAPS

\* main fills in the name once; what was read under it stays read under it.
NameStays == from = Board => name = Board

\* What outlet o's check leaves behind.
Checked(o) ==
    reply[o] \in {0, 1} => msg_command[o] = reply[o] /\ rb[Board][o] = reply[o]

\* A round in which nothing has failed: the outlets before i are checked, and of the
\* others the acknowledgements are still as they were read.
RoundInv ==
    from = Board /\ ~failed =>
        /\ pc = "check" => \A o \in Outlet : IF o < i THEN Checked(o)
                                             ELSE up_reply[o] = rb[Board][o]
        /\ pc = "write" => \A o \in Outlet : Checked(o)
        /\ pc = "sleep" => \A o \in Outlet :
              reply[o] \in {0, 1} => relay[o] = reply[o] /\ rb[Board][o] = reply[o]

\* The checks start with the first outlet.
StartsAtFirst == pc \notin {"check", "first check"} => i = 1

IInv == TypeOK /\ NameStays /\ RoundInv /\ StartsAtFirst

\* The outlets are numbered from 1, and two keys are two keys.
LEMMA Basics ==
    /\ Outlets \in Nat \ {0} /\ 1 \in Outlet /\ Outlet \subseteq Int
    /\ Board # Unnamed /\ Board \in Key /\ Unnamed \in Key
    /\ None \notin {0, 1} /\ Bad \notin {0, 1} /\ None # Bad
BY CommandAssumption DEF Outlet, Board, Unnamed, Key

-------------------------------------------------------------------------------
(* Types. *)

\* A command in a field of the right hash.
LEMMA SetCommandType ==
    ASSUME TypeOK, NEW o \in Outlet, NEW v \in {0, 1}, SetCommand(o, v)
    PROVE  /\ commands' \in [Key -> [Outlet -> Field]]
           /\ asked' \subseteq Outlet
           /\ rb' = rb
BY DEF SetCommand, TypeOK, Field

\* An acknowledgement changes its own field and no other.
LEMMA AcknowledgeEffect ==
    ASSUME TypeOK, NEW o \in Outlet, NEW v \in {0, 1}, Acknowledge(o, v)
    PROVE  /\ rb' \in [Key -> [Outlet -> {None, 0, 1}]]
           /\ \A p \in Outlet : rb'[name][p] = IF p = o THEN v ELSE rb[name][p]
           /\ UNCHANGED <<commands, asked>>
BY DEF Acknowledge, TypeOK

\* The listener goes from outlet to outlet.
LEMMA NextOutletType ==
    ASSUME TypeOK, NEW check, NEW write, NextOutlet(check, write)
    PROVE  i' \in Outlet /\ pc' \in {check, write}
<1>1. i \in 1 .. Outlets /\ Outlets \in Nat \ {0}
  BY Basics DEF TypeOK, Outlet
<1> QED BY <1>1 DEF NextOutlet, Outlet

\* The memory of a process that ended is as it began.
LEMMA ExitType == TypeOK /\ Exit => TypeOK'
BY Basics DEF Exit, TypeOK, remote, Nothing, AllOff, Field

\* Each check keeps the types.
LEMMA ChecksType == TypeOK /\ (FirstCheck \/ Check) => TypeOK'
<1> SUFFICES ASSUME TypeOK, FirstCheck \/ Check PROVE TypeOK'
  OBVIOUS
<1> USE Basics
<1>1. /\ i' \in Outlet /\ pc' \in {"check", "first check", "first write", "write"}
      /\ failed' \in BOOLEAN
  BY NextOutletType DEF FirstCheck, Check, Refused, TypeOK
<1>2. UNCHANGED <<relay, name, reply, up_reply, from>>
  BY DEF FirstCheck, Check
<1>3. i \in Outlet /\ reply[i] \in Field /\ up_reply[i] \in {None, 0, 1}
  BY DEF TypeOK
<1>4. msg_command' \in [Outlet -> {0, 1}]
  BY <1>3 DEF FirstCheck, Check, Missing, Valid, TypeOK
<1>5. /\ commands' \in [Key -> [Outlet -> Field]]
      /\ rb' \in [Key -> [Outlet -> {None, 0, 1}]]
      /\ asked' \subseteq Outlet
  <2>1. CASE UNCHANGED remote
    BY <2>1 DEF remote, TypeOK
  <2>2. CASE \E v \in {0, 1} : SetCommand(i, v)
    BY <1>3, <2>2, SetCommandType DEF TypeOK
  <2>3. CASE \E v \in {0, 1} : Acknowledge(i, v)
    BY <1>3, <2>3, AcknowledgeEffect DEF TypeOK
  <2> QED BY <1>3, <2>1, <2>2, <2>3 DEF FirstCheck, Check, Missing, Valid, Refused, remote
<1> QED BY <1>1, <1>2, <1>4, <1>5 DEF TypeOK

\* Every step keeps the types.
LEMMA TypeStep == TypeOK /\ [Next]_vars => TypeOK'
<1> SUFFICES ASSUME TypeOK, [Next]_vars PROVE TypeOK'
  OBVIOUS
<1> USE Basics
<1>1. CASE Start \/ ExistsName \/ Wake \/ FillName
  BY <1>1 DEF Start, ExistsName, Wake, FillName, TypeOK, remote, memory
<1>2. CASE Defaults
  <2>1. commands' \in [Key -> [Outlet -> Field]] /\ asked' \subseteq Outlet /\ failed' \in BOOLEAN
    <3>1. CASE Refused
      BY <3>1 DEF Refused, TypeOK, remote
    <3>2. CASE ~Refused
      <4>1. /\ commands' = [commands EXCEPT ![name] = [o \in Outlet |-> 1]]
            /\ asked' = (IF name = Board THEN Outlet ELSE asked) /\ failed' = failed
        BY <1>2, <3>2 DEF Defaults
      <4> QED BY <4>1 DEF TypeOK, Field
    <3> QED BY <3>1, <3>2
  <2>2. UNCHANGED <<rb, relay, name, i, reply, up_reply, msg_command, from>> /\ pc' = "read"
    BY <1>2 DEF Defaults, Refused, remote
  <2> QED BY <2>1, <2>2 DEF TypeOK
<1>3. CASE ReadCommands \/ ReplyIsError
  <2>1. reply' \in [Outlet -> Field] /\ from' \in Key
    <3>1. Nothing \in [Outlet -> Field] /\ commands[name] \in [Outlet -> Field]
      BY DEF TypeOK, Nothing, Field
    <3>2. name \in Key /\ from' = name /\ reply' \in {commands[name], Nothing}
      BY <1>3 DEF ReadCommands, ReplyIsError, TypeOK
    <3> QED BY <3>1, <3>2
  <2>2. msg_command' \in [Outlet -> {0, 1}]
    BY <1>3 DEF ReadCommands, ReplyIsError, AllOff
  <2> QED BY <1>3, <2>1, <2>2 DEF ReadCommands, ReplyIsError, TypeOK, remote
<1>4. CASE ReadReadback
  BY <1>4 DEF ReadReadback, TypeOK, remote
<1>5. CASE FirstCheck \/ Check
  BY <1>5, ChecksType
<1>6. CASE NullReadback \/ Crash
  BY <1>6, ExitType DEF NullReadback, Crash
<1>7. CASE Write
  BY <1>7 DEF Write, TypeOK, remote, memory
<1>8. ASSUME NEW o \in Outlet, Send(o) PROVE TypeOK'
  <2>1. PICK v \in Field : commands' = [commands EXCEPT ![Board][o] = v]
    BY <1>8 DEF Send, Field
  <2>2. commands' \in [Key -> [Outlet -> Field]]
    BY <2>1 DEF TypeOK
  <2>3. asked' \subseteq Outlet
    BY <1>8 DEF Send, TypeOK
  <2> QED BY <1>8, <2>2, <2>3 DEF Send, TypeOK, memory
<1>9. CASE UNCHANGED vars
  BY <1>9 DEF vars, TypeOK, remote, memory
<1> QED BY <1>1, <1>2, <1>3, <1>4, <1>5, <1>6, <1>7, <1>8, <1>9 DEF Next, Listener

-------------------------------------------------------------------------------
(* Rounds. *)

\* The check of an outlet checks it, and disturbs no other.
LEMMA CheckStep == IInv /\ Check => RoundInv'
<1> SUFFICES ASSUME IInv, Check, from' = Board, ~failed' PROVE RoundInv'
  BY DEF RoundInv
<1> USE Basics
<1>0. ~Refused /\ ~failed
  BY DEF Refused, Check, IInv, TypeOK
<1>1. /\ from = Board /\ name = Board /\ pc = "check" /\ i \in Outlet
      /\ UNCHANGED <<reply, up_reply>>
      /\ reply[i] \in Field /\ up_reply[i] \in {None, 0, 1}
  BY DEF IInv, NameStays, Check, TypeOK
<1>2. \A o \in Outlet : o # i =>
          rb'[Board][o] = rb[Board][o] /\ msg_command'[o] = msg_command[o]
  <2>1. CASE rb' = rb
    BY <1>1, <2>1 DEF IInv, TypeOK, Check, Missing, Valid
  <2>2. CASE Valid /\ Acknowledge(i, reply[i])
    BY <1>1, <2>2, AcknowledgeEffect DEF IInv, TypeOK, Valid
  <2> QED BY <1>0, <1>1, <2>1, <2>2 DEF Check, Missing, SetCommand, remote
<1>3. ASSUME NEW o \in Outlet, o = i PROVE Checked(o)'
  <2>1. CASE Valid /\ up_reply[i] = reply[i] /\ UNCHANGED remote
    BY <1>0, <1>1, <1>3, <2>1 DEF Valid, IInv, RoundInv, TypeOK, remote, Checked
  <2>2. CASE Valid /\ Acknowledge(i, reply[i])
    BY <1>1, <1>3, <2>2, AcknowledgeEffect DEF IInv, TypeOK, Valid, Checked
  <2>3. CASE reply[i] \in {None, Bad}
    BY <1>1, <1>3, <2>3 DEF Checked
  <2> QED BY <1>0, <1>1, <2>1, <2>2, <2>3 DEF Check, Missing, Field
<1>4. ASSUME NEW o \in Outlet, o <= i PROVE Checked(o)'
  <2>1. CASE o = i
    BY <1>3, <2>1
  <2>2. CASE o < i
    <3>1. Checked(o)
      BY <1>0, <1>1, <2>2 DEF IInv, RoundInv
    <3> QED BY <1>1, <1>2, <2>2, <3>1 DEF Checked
  <2> QED BY <1>1, <1>4, <2>1, <2>2
<1>5. ASSUME NEW o \in Outlet, o > i PROVE up_reply'[o] = rb'[Board][o]
  <2>1. up_reply[o] = rb[Board][o]
    BY <1>0, <1>1, <1>5 DEF IInv, RoundInv
  <2>2. o # i /\ up_reply' = up_reply
    BY <1>1, <1>5
  <2> QED BY <1>2, <2>1, <2>2
<1>6. CASE i < Outlets /\ i' = i + 1 /\ pc' = "check"
  <2>1. \A o \in Outlet : (o < i' => o <= i) /\ (~(o < i') => o > i)
    BY <1>1, <1>6
  <2> QED BY <1>4, <1>5, <1>6, <2>1 DEF RoundInv
<1>7. CASE ~(i < Outlets) /\ i' = 1 /\ pc' = "write"
  <2>1. \A o \in Outlet : o <= i
    BY <1>1, <1>7 DEF Outlet
  <2> QED BY <1>4, <1>7, <2>1 DEF RoundInv
<1> QED BY <1>6, <1>7 DEF Check, NextOutlet

\* Every step keeps the round's invariant.
LEMMA RoundStep == IInv /\ [Next]_vars => RoundInv'
<1> SUFFICES ASSUME IInv, [Next]_vars PROVE RoundInv'
  OBVIOUS
<1> USE Basics
<1>1. CASE Start \/ ExistsName \/ Defaults \/ ReadCommands \/ Wake
  <2>1. pc' \notin {"check", "write", "sleep"}
    BY <1>1 DEF Start, ExistsName, Defaults, ReadCommands, Wake
  <2> QED BY <2>1 DEF RoundInv
<1>2. CASE ReplyIsError
  BY <1>2 DEF ReplyIsError, RoundInv, Nothing
<1>3. CASE ReadReadback
  <2>1. i' = 1 /\ pc' = "check"
    BY <1>3 DEF ReadReadback, IInv, StartsAtFirst
  <2>2. \A o \in Outlet : ~(o < 1)
    BY DEF Outlet
  <2>3. from' = Board => up_reply' = rb'[Board]
    BY <1>3 DEF ReadReadback, remote, IInv, NameStays
  <2> QED BY <2>1, <2>2, <2>3 DEF RoundInv
<1>4. CASE FirstCheck
  BY <1>4 DEF FirstCheck, NextOutlet, RoundInv
<1>5. CASE Check
  BY <1>5, CheckStep
<1>6. CASE NullReadback \/ Crash
  BY <1>6 DEF NullReadback, Crash, Exit, RoundInv
<1>7. CASE Write
  <2>1. CASE failed'
    BY <2>1 DEF RoundInv
  <2>2. CASE ~failed'
    <3>1. relay' = msg_command /\ failed = failed'
      BY <1>7, <2>2 DEF Write
    <3> QED BY <1>7, <3>1 DEF Write, RoundInv, remote, IInv, Checked
  <2> QED BY <2>1, <2>2
<1>8. CASE FillName
  BY <1>8 DEF FillName, RoundInv, remote, memory, IInv, Checked
<1>9. ASSUME NEW o \in Outlet, Send(o) PROVE RoundInv'
  BY <1>9 DEF Send, RoundInv, memory, IInv, Checked
<1>10. CASE UNCHANGED vars
  BY <1>10 DEF vars, RoundInv, remote, memory, IInv, Checked
<1> QED BY <1>1, <1>2, <1>3, <1>4, <1>5, <1>6, <1>7, <1>8, <1>9, <1>10 DEF Next, Listener

\* Every step keeps the name, and leaves i at 1 outside the checks.
LEMMA NameStep == IInv /\ [Next]_vars => NameStays' /\ StartsAtFirst'
<1> SUFFICES ASSUME IInv, [Next]_vars PROVE NameStays' /\ StartsAtFirst'
  OBVIOUS
<1> USE Basics DEF IInv, NameStays, StartsAtFirst
<1>1. CASE Start \/ ExistsName \/ Defaults \/ Wake \/ Write
  BY <1>1 DEF Start, ExistsName, Defaults, Wake, Write, memory
<1>2. CASE ReadCommands \/ ReplyIsError \/ ReadReadback
  BY <1>2 DEF ReadCommands, ReplyIsError, ReadReadback
<1>3. CASE FirstCheck \/ Check
  BY <1>3 DEF FirstCheck, Check, NextOutlet
<1>4. CASE NullReadback \/ Crash
  BY <1>4 DEF NullReadback, Crash, Exit
<1>5. CASE FillName
  BY <1>5 DEF FillName, memory
<1>6. ASSUME NEW o \in Outlet, Send(o) PROVE NameStays' /\ StartsAtFirst'
  BY <1>6 DEF Send, memory
<1>7. CASE UNCHANGED vars
  BY <1>7 DEF vars, memory
<1> QED BY <1>1, <1>2, <1>3, <1>4, <1>5, <1>6, <1>7 DEF Next, Listener

-------------------------------------------------------------------------------
(* The theorems. *)

\* IInv holds in every reachable state.
THEOREM Invariance == Spec => []IInv
<1>1. Init => IInv
  <2> SUFFICES ASSUME Init PROVE IInv
    OBVIOUS
  <2>1. commands \in [Key -> [Outlet -> Field]] /\ rb \in [Key -> [Outlet -> {None, 0, 1}]]
    BY Basics DEF Init, Nothing, Field
  <2>2. /\ reply \in [Outlet -> Field] /\ up_reply \in [Outlet -> {None, 0, 1}]
        /\ msg_command \in [Outlet -> {0, 1}]
    BY Basics DEF Init, Nothing, AllOff, Field
  <2> QED BY <2>1, <2>2, Basics DEF Init, IInv, TypeOK, NameStays, RoundInv, StartsAtFirst
<1>2. IInv /\ [Next]_vars => IInv'
  BY TypeStep, RoundStep, NameStep DEF IInv
<1> QED BY <1>1, <1>2, PTL DEF Spec

\* The hashes, the outlets and command_listener's variables have their types, for
\* any number of outlets.
THEOREM TypeCorrect == Spec => []TypeOK
<1>1. IInv => TypeOK
  BY DEF IInv
<1> QED BY <1>1, Invariance, PTL

\* After every round of command_listener in which nothing failed the outlets are as
\* commanded, and their acknowledgements say so, whatever was lost before.
THEOREM ReadbackIsTrue == Spec => []ReadbackTellsTheTruth
<1>1. IInv => ReadbackTellsTheTruth
  BY DEF IInv, RoundInv, ReadbackTellsTheTruth
<1> QED BY <1>1, Invariance, PTL

-------------------------------------------------------------------------------
(* What was commanded. *)

\* What the board's hash commands on was commanded on some time, and so was what the
\* listener has read from it and is about to switch.
AskedInv ==
    /\ \A o \in Outlet : commands[Board][o] = 1 => o \in asked
    /\ from = Board => \A o \in Outlet : reply[o] = 1 \/ msg_command[o] = 1 => o \in asked

\* Nothing that was asked for is forgotten, and a new command on is remembered.
LEMMA CommandIsAsked ==
    ASSUME TypeOK, AskedInv, NEW o \in Outlet, NEW v \in {0, 1}, SetCommand(o, v)
    PROVE  asked \subseteq asked' /\ \A p \in Outlet : commands'[Board][p] = 1 => p \in asked'
<1>1. CASE name = Board
  <2>1. \A p \in Outlet : commands'[Board][p] = IF p = o THEN v ELSE commands[Board][p]
    BY <1>1 DEF SetCommand, TypeOK
  <2> QED BY <1>1, <2>1 DEF SetCommand, AskedInv
<1>2. CASE name # Board
  <2>1. commands'[Board] = commands[Board]
    BY <1>2, Basics DEF SetCommand, TypeOK
  <2> QED BY <1>2, <2>1 DEF SetCommand, AskedInv
<1> QED BY <1>1, <1>2

\* Every step keeps AskedInv.
LEMMA AskedStep == TypeOK /\ AskedInv /\ [Next]_vars => AskedInv'
<1> SUFFICES ASSUME TypeOK, AskedInv, [Next]_vars PROVE AskedInv'
  OBVIOUS
<1> USE Basics
<1>1. CASE Start \/ ExistsName \/ ReadReadback \/ Write \/ Wake \/ FillName \/ UNCHANGED vars
  BY <1>1 DEF Start, ExistsName, ReadReadback, Write, Wake, FillName, vars, remote, memory, AskedInv
<1>2. CASE Defaults
  <2>1. commands'[Board] = commands[Board] \/ asked' = Outlet
    BY <1>2 DEF Defaults, Refused, remote, TypeOK
  <2>2. asked \subseteq asked'
    BY <1>2 DEF Defaults, Refused, remote, TypeOK
  <2> QED BY <1>2, <2>1, <2>2 DEF Defaults, AskedInv
<1>3. CASE ReadCommands \/ ReplyIsError
  <2>1. UNCHANGED <<commands, asked>> /\ \A o \in Outlet : msg_command'[o] # 1
    <3>1. UNCHANGED <<commands, asked>> /\ msg_command' = AllOff
      BY <1>3 DEF ReadCommands, ReplyIsError, remote
    <3> QED BY <3>1 DEF AllOff
  <2>2. from' = Board => \A o \in Outlet : reply'[o] = 1 => commands[Board][o] = 1
    BY <1>3 DEF ReadCommands, ReplyIsError, Nothing
  <2>3. \A o \in Outlet : commands'[Board][o] = 1 => o \in asked'
    BY <2>1 DEF AskedInv
  <2>4. from' = Board => \A o \in Outlet : reply'[o] = 1 \/ msg_command'[o] = 1 => o \in asked'
    BY <2>1, <2>2 DEF AskedInv
  <2> QED BY <2>3, <2>4 DEF AskedInv
<1>4. CASE FirstCheck \/ Check
  <2>1. i \in Outlet /\ reply[i] \in Field /\ up_reply[i] \in {None, 0, 1}
    BY DEF TypeOK
  <2>2. UNCHANGED <<reply, from>>
    BY <1>4 DEF FirstCheck, Check
  <2>3. asked \subseteq asked' /\ \A p \in Outlet : commands'[Board][p] = 1 => p \in asked'
    <3>1. CASE UNCHANGED <<commands, asked>>
      BY <3>1 DEF AskedInv
    <3>2. CASE \E v \in {0, 1} : SetCommand(i, v)
      BY <2>1, <3>2, CommandIsAsked
    <3> QED BY <1>4, <2>1, <3>1, <3>2 DEF FirstCheck, Check, Missing, Valid, Refused, Acknowledge, remote
  <2>4. \A p \in Outlet : msg_command'[p] = 1 => msg_command[p] = 1 \/ (p = i /\ reply[i] = 1)
    BY <1>4, <2>1 DEF FirstCheck, Check, Missing, Valid, TypeOK
  <2> QED BY <2>1, <2>2, <2>3, <2>4 DEF AskedInv
<1>5. CASE NullReadback \/ Crash
  BY <1>5 DEF NullReadback, Crash, Exit, remote, AskedInv
<1>6. ASSUME NEW o \in Outlet, Send(o) PROVE AskedInv'
  <2>1. PICK v \in {0, 1, Bad} :
          /\ commands' = [commands EXCEPT ![Board][o] = v]
          /\ asked' = IF v = 1 THEN asked \cup {o} ELSE asked
    BY <1>6 DEF Send
  <2>2. \A p \in Outlet : commands'[Board][p] = IF p = o THEN v ELSE commands[Board][p]
    BY <2>1 DEF TypeOK
  <2>3. asked \subseteq asked' /\ UNCHANGED <<reply, msg_command, from>>
    BY <1>6, <2>1 DEF Send, memory
  <2> QED BY <2>1, <2>2, <2>3 DEF AskedInv
<1> QED BY <1>1, <1>2, <1>3, <1>4, <1>5, <1>6 DEF Next, Listener

\* A round over the board's own hash gives power to no outlet that was never commanded
\* on there, whatever users, failures and earlier rounds did: what switches outlets on
\* without a command is nothing but a round that began before main had filled in name
\* (command_listener and main, volt.c).
OnlyCommanded == from = Board => \A o \in Outlet : relay[o] = 0 /\ relay'[o] = 1 => o \in asked

THEOREM OnlyCommandedUnderItsName == Spec => [][OnlyCommanded]_vars
<1>1. Init => AskedInv
  BY Basics, ZenonT(60) DEF Init, AskedInv, Nothing, AllOff
<1>2. AskedInv /\ [Next]_vars => OnlyCommanded
  <2> SUFFICES ASSUME AskedInv, [Next]_vars, from = Board, NEW o \in Outlet, relay[o] = 0, relay'[o] = 1
               PROVE  o \in asked
    BY DEF OnlyCommanded
  <2>1. CASE Write
    <3>1. relay' # relay => relay' = msg_command
      BY <2>1 DEF Write
    <3>2. 0 # 1
      OBVIOUS
    <3>3. msg_command[o] = 1
      BY <3>1, <3>2
    <3> QED BY <3>3 DEF AskedInv
  <2>2. CASE ~Write
    <3>1. relay' = relay
      BY <2>2 DEF Next, Listener, Start, ExistsName, Defaults, ReadCommands, ReadReadback, FirstCheck,
         Check, NullReadback, Exit, Wake, FillName, ReplyIsError, Crash, Send, vars
    <3>2. 0 # 1
      OBVIOUS
    <3> QED BY <3>1, <3>2
  <2> QED BY <2>1, <2>2
<1> QED BY <1>1, <1>2, AskedStep, TypeCorrect, PTL DEF Spec
===============================================================================
