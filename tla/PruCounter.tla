------------------------------ MODULE PruCounter ------------------------------
(***************************************************************************)
(* glitch_counter of src/main/volt.c and the firmware it talks to, main of *)
(* src/pru/main.c with asm_count of src/pru/count.asm.  The PRU counts     *)
(* from one kick to the next; the host kicks it twice a period and reads   *)
(* twice, for the second kick is answered too, with a count of nothing.    *)
(* volt may end anywhere; the script that starts it again                  *)
(* (src/start/simar_volt.sh) stops the PRU and boots its firmware anew.    *)
(***************************************************************************)
EXTENDS Naturals, Sequences

VARIABLES
    hpc,        \* where the service is: down, between the script and the open, or in glitch_counter
    buf,        \* the answer it has read
    frequency, duty, glitch,    \* volt's variables, each one a field of a count
    redis,      \* pfactor, glitch, frequency: stored, if at all, from a count of a period
    mpc,        \* which of the three main stores next
    ppc,        \* where the PRU is
    count,      \* what asm_count has counted
    kicked,     \* bit 31 of R31, FROM_ARM_HOST
    toPru,      \* messages for the PRU
    toHost,     \* answers not read yet
    round       \* history: the period that the last first kick began

host == <<hpc, buf, frequency, duty, glitch>>
main == <<redis, mpc>>
pru  == <<ppc, count>>
vars == <<host, main, pru, kicked, toPru, toHost, round>>

\* Periods are told from the ones before and after them.
Rounds == {"odd", "even"}

\* A count, by the time it covers: none, one sleep of the host and nothing else,
\* or more than that, a time in which volt did not run included.
Count == Rounds \cup {"nothing", "more"}

\* The globals before the first count; frequency 0 is not stored.
None == "none"

Longer(c) == IF c = "nothing" THEN round ELSE "more"

HostPc == {"down", "boot", "kick", "sleep", "rekick", "read", "duty", "glitch", "reread", "pause"}
PruPc  == {"boot", "idle", "clear", "receive", "count", "send"}

Init ==
    /\ hpc = "down" /\ buf = "nothing"
    /\ frequency = None /\ duty = None /\ glitch = None
    /\ redis = [pfactor |-> TRUE, glitch |-> TRUE, frequency |-> TRUE] /\ mpc = "pfactor"
    /\ ppc = "boot" /\ count = "nothing" /\ kicked = FALSE /\ toPru = 0 /\ toHost = <<>>
    /\ round = "even"

-------------------------------------------------------------------------------
(* The PRU. *)

PruStep(from, to) == ppc = from /\ ppc' = to

\* The firmware forgets a kick from before, waits for the kernel's driver, which may
\* kick it when it has its buffers ready, and creates the channel.
Boot == PruStep("boot", "idle") /\ kicked' \in BOOLEAN /\ UNCHANGED <<host, main, count, toPru, toHost, round>>

\* while (1) if (__R31 & HOST_INT)
Poll == PruStep("idle", "clear") /\ kicked /\ UNCHANGED <<host, main, count, kicked, toPru, toHost, round>>

Clear == PruStep("clear", "receive") /\ kicked' = FALSE /\ UNCHANGED <<host, main, count, toPru, toHost, round>>

\* pru_rpmsg_receive succeeds, and asm_count starts from zero.
Receive ==
    /\ PruStep("receive", "count") /\ toPru > 0
    /\ toPru' = toPru - 1 /\ count' = "nothing"
    /\ UNCHANGED <<host, main, kicked, toHost, round>>

NoMore ==
    /\ PruStep("receive", "idle") /\ toPru = 0
    /\ UNCHANGED <<host, main, count, kicked, toPru, toHost, round>>

\* Mutant: a count takes the kick that ends it, so that it is not answered.
asm_count_Clears ==
    /\ PruStep("count", "send") /\ kicked
    /\ kicked' = FALSE /\ toPru' = 0
    /\ UNCHANGED <<host, main, count, toHost, round>>

\* asm_count looks at the kick bit at the end of every pass, and leaves it set.
asm_count ==
    /\ PruStep("count", "send") /\ kicked
    /\ UNCHANGED <<host, main, count, kicked, toPru, toHost, round>>

\* Two answers at most wait for the host, and the driver holds many more.
Answer ==
    /\ PruStep("send", "receive")
    /\ toHost' = Append(toHost, count)
    /\ UNCHANGED <<host, main, count, kicked, toPru, round>>

Pru == Boot \/ Poll \/ Clear \/ Receive \/ NoMore \/ asm_count \/ Answer

\* The PRU has nothing left to do but to wait for a kick, counting or not.  It
\* gets there in microseconds.
Settled == ~kicked /\ ppc \in {"idle", "count"}

-------------------------------------------------------------------------------
(* The start of the service. *)

HostStep(from, to) == hpc = from /\ hpc' = to

\* Mutant: the script leaves a PRU alone that is running.
Reboot_Running ==
    /\ HostStep("down", "boot")
    /\ count' = IF ppc = "count" THEN "more" ELSE count
    /\ UNCHANGED <<buf, frequency, duty, glitch, main, ppc, kicked, toPru, toHost, round>>

\* simar_volt.sh stops remoteproc2 and starts it with the firmware: the queues are
\* made anew.  The kick bit is the interrupt controller's, and stays.
Reboot ==
    /\ HostStep("down", "boot")
    /\ ppc' = "boot" /\ count' = "nothing" /\ toPru' = 0 /\ toHost' = <<>>
    /\ UNCHANGED <<buf, frequency, duty, glitch, main, kicked, round>>

\* The memory of volt is gone.
End ==
    /\ hpc' = "down" /\ mpc' = "pfactor"
    /\ buf' = "nothing" /\ frequency' = None /\ duty' = None /\ glitch' = None
    /\ UNCHANGED <<redis, pru, kicked, toPru, toHost, round>>

\* prufd.fd = open(PRU1_DEVICE_NAME, O_RDWR)
Open ==
    /\ HostStep("boot", "kick") /\ Settled
    /\ UNCHANGED <<buf, frequency, duty, glitch, main, pru, kicked, toPru, toHost, round>>

\* There is no device yet: exit(-9), and systemd begins again.
OpenFails == hpc = "boot" /\ ppc = "boot" /\ End

\* volt or its script is killed, or ends.
Kill == hpc # "down" /\ End

-------------------------------------------------------------------------------
(* glitch_counter. *)

\* write(prufd.fd, "-", 1)
Write ==
    /\ kicked' = TRUE /\ toPru' = toPru + 1
    /\ UNCHANGED <<buf, frequency, duty, glitch, main, pru, toHost>>

Kick == HostStep("kick", "sleep") /\ Write /\ round' \in Rounds \ {round}

\* usleep(4999600)
SleepEnds ==
    /\ HostStep("sleep", "rekick") /\ Settled
    /\ count' = IF ppc = "count" THEN Longer(count) ELSE count
    /\ UNCHANGED <<buf, frequency, duty, glitch, main, ppc, kicked, toPru, toHost, round>>

Rekick == HostStep("rekick", "read") /\ Write /\ UNCHANGED round

ReadAnswer ==
    /\ toHost # <<>>
    /\ buf' = Head(toHost) /\ toHost' = Tail(toHost)
    /\ UNCHANGED <<duty, glitch, main, pru, kicked, toPru, round>>

\* The first answer, from which the three variables are set one by one.
Read == HostStep("read", "duty") /\ ReadAnswer /\ frequency' = buf'

SetDuty ==
    /\ HostStep("duty", "glitch") /\ duty' = buf
    /\ UNCHANGED <<buf, frequency, glitch, main, pru, kicked, toPru, toHost, round>>

SetGlitch ==
    /\ HostStep("glitch", "reread") /\ glitch' = buf
    /\ UNCHANGED <<buf, frequency, duty, main, pru, kicked, toPru, toHost, round>>

\* Mutant: the answer to the second kick is left in the queue.
Reread_Forgotten ==
    /\ HostStep("reread", "pause")
    /\ UNCHANGED <<buf, frequency, duty, glitch, main, pru, kicked, toPru, toHost, round>>

Reread == HostStep("reread", "pause") /\ ReadAnswer /\ UNCHANGED frequency

\* nanosleep(period, NULL): half a millisecond.
PauseEnds ==
    /\ HostStep("pause", "kick") /\ Settled
    /\ UNCHANGED <<buf, frequency, duty, glitch, main, pru, kicked, toPru, toHost, round>>

GlitchCounter == Kick \/ SleepEnds \/ Rekick \/ Read \/ SetDuty \/ SetGlitch \/ Reread \/ PauseEnds

-------------------------------------------------------------------------------
(* main stores the three at its own pace, and never a frequency of zero. *)

OfAPeriod(value) == value \in Rounds \cup {None}

Store(from, to, key, value) ==
    /\ hpc \notin {"down", "boot"} /\ mpc = from /\ mpc' = to
    /\ redis' = [redis EXCEPT ![key] = OfAPeriod(value)]
    /\ UNCHANGED <<host, pru, kicked, toPru, toHost, round>>

StorePfactor   == Store("pfactor", "glitch", "pfactor", duty)
StoreGlitch    == Store("glitch", "frequency", "glitch", glitch)
StoreFrequency ==
    IF frequency = None
      THEN /\ hpc \notin {"down", "boot"} /\ mpc = "frequency" /\ mpc' = "pfactor"
           /\ UNCHANGED <<redis, host, pru, kicked, toPru, toHost, round>>
      ELSE Store("frequency", "pfactor", "frequency", frequency)

Main == StorePfactor \/ StoreGlitch \/ StoreFrequency

Next == Pru \/ Reboot \/ Open \/ OpenFails \/ Kill \/ GlitchCounter \/ Main

Spec == Init /\ [][Next]_vars

\* The PRU runs, systemd restarts volt (Restart=always), and its threads run.
FairSpec ==
    Spec /\ WF_vars(Pru) /\ WF_vars(Reboot) /\ WF_vars(Open) /\ WF_vars(GlitchCounter) /\ WF_vars(Main)

-------------------------------------------------------------------------------
TypeOK ==
    /\ hpc \in HostPc /\ mpc \in {"pfactor", "glitch", "frequency"}
    /\ buf \in Count /\ {frequency, duty, glitch} \subseteq Count \cup {None}
    /\ redis \in [pfactor : BOOLEAN, glitch : BOOLEAN, frequency : BOOLEAN]
    /\ ppc \in PruPc /\ count \in Count
    /\ kicked \in BOOLEAN /\ toPru \in 0..2
    /\ toHost \in Seq(Count) /\ Len(toHost) <= 2 /\ round \in Rounds

\* Two answers for two kicks: wherever volt was killed and however often, the values
\* that are stored are counts of a whole period, never the answer to a second kick,
\* and never a count that went on while volt was restarted (glitch_counter, count.asm,
\* simar_volt.sh).
StoredCoversAPeriod == \A key \in DOMAIN redis : redis[key]

\* Between the first kick of a round and the first read.
Armed == hpc \in {"sleep", "rekick", "read"}

\* The meter that a reader of volt's variables may believe in.
Meter == INSTANCE PeriodMeter WITH
    Nothing <- None, armed <- Armed, report <- frequency

\* What glitch_counter reads first in a round is the count of this round's period,
\* and no answer that an earlier round, or an earlier run of volt, left unread.
ImplementsMeter == Meter!MeterSpec

\* As long as volt is not killed any more, it gets an answer in every round: no
\* kick is lost and no order of kills leaves both sides waiting for each other.
MeasurementsKeepComing == <>[](hpc # "down") => []<>(hpc = "duty")
===============================================================================
