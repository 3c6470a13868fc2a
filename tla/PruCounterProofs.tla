---------------------------- MODULE PruCounterProofs ----------------------------
(***************************************************************************)
(* PruCounter implements PeriodMeter, wherever volt is killed and however  *)
(* often it is restarted; and the two never wait for each other.           *)
(***************************************************************************)
EXTENDS PruCounter, SequenceTheorems, TLAPS

-------------------------------------------------------------------------------
(* The invariant: the host's place tells the PRU's, and what waits in the queues. *)

\* The PRU, from its boot to its first wait for a kick; it may find one of the driver's,
\* which brings no message.
Booting == ppc \in {"boot", "idle", "clear", "receive"} /\ toPru = 0

\* It waits for the first kick of a round; takes it; counts.
AtRest   == ppc = "idle" /\ ~kicked /\ toPru = 0
Starting == ppc \in {"idle", "clear", "receive"} /\ toPru = 1 /\ (kicked <=> ppc # "receive")
Counting == ppc = "count" /\ ~kicked /\ toPru = 0

\* The second kick ends the count; it is answered itself; what is left of it is taken for
\* a kick that brings no message.
Ending    == ppc \in {"count", "send"} /\ kicked /\ toPru = 1 /\ count = round
Midway    == kicked /\ \/ ppc = "receive" /\ toPru = 1
                       \/ ppc \in {"count", "send"} /\ toPru = 0 /\ count = "nothing"
Finishing == ppc \in {"receive", "idle", "clear"} /\ toPru = 0 /\ (ppc # "receive" => kicked)
Done      == Finishing \/ AtRest

\* Where the PRU is, and which answers wait, while the host is at p.
At(p) ==
    \/ p = "boot"   /\ toHost = <<>> /\ Booting
    \/ p = "kick"   /\ toHost = <<>> /\ AtRest
    \/ p = "sleep"  /\ toHost = <<>> /\ (Starting \/ (Counting /\ count = "nothing"))
    \/ p = "rekick" /\ toHost = <<>> /\ Counting /\ count = round
    \/ p = "read"   /\ \/ toHost = <<>> /\ Ending
                       \/ toHost = <<round>> /\ Midway
                       \/ toHost = <<round, "nothing">> /\ Done
    \/ p \in {"duty", "glitch", "reread"} /\ \/ toHost = <<>> /\ Midway
                                             \/ toHost = <<"nothing">> /\ Done
    \/ p = "pause"  /\ toHost = <<>> /\ Done

\* The host is at such a place, or was when it ended.
Lockstep == \E p \in HostPc \ {"down"} : hpc \in {p, "down"} /\ At(p)

\* All that is stored covers a period.
Periods == [pfactor : {TRUE}, glitch : {TRUE}, frequency : {TRUE}]

\* What has been read is the answer of this round, and all that is kept and stored
\* covers a period.
ReadInv ==
    /\ buf \in Count /\ (hpc \in {"duty", "glitch"} => buf = round)
    /\ frequency \in Rounds \cup {None} /\ duty \in Rounds \cup {None} /\ glitch \in Rounds \cup {None}
    /\ redis \in Periods

PeriodInv ==
    /\ hpc \in HostPc /\ mpc \in {"pfactor", "glitch", "frequency"}
    /\ ppc \in PruPc /\ count \in Count /\ kicked \in BOOLEAN /\ round \in Rounds
    /\ Lockstep
    /\ ReadInv

\* What appending, reading and length make of such short queues.
LEMMA ShortQueues ==
    /\ \A x : Append(<<>>, x) = <<x>> /\ Head(<<x>>) = x /\ Tail(<<x>>) = <<>>
    /\ \A x, y : Append(<<x>>, y) = <<x, y>> /\ Head(<<x, y>>) = x /\ Tail(<<x, y>>) = <<y>>
    /\ \A x, S : x \in S => <<x>> \in Seq(S) /\ Len(<<x>>) = 1
    /\ \A x, y, S : x \in S /\ y \in S => <<x, y>> \in Seq(S) /\ Len(<<x, y>>) = 2
    /\ \A S : <<>> \in Seq(S) /\ Len(<<>>) = 0
<1>1. \A x : Append(<<>>, x) = <<x>> /\ Head(<<x>>) = x /\ Tail(<<x>>) = <<>>
  OBVIOUS
<1>2. ASSUME NEW x, NEW y
      PROVE  Append(<<x>>, y) = <<x, y>> /\ Head(<<x, y>>) = x /\ Tail(<<x, y>>) = <<y>>
  <2>1. Append(<<x>>, y) = <<x, y>>
    <3>1. <<x>> \in Seq({x, y}) /\ Len(<<x>>) = 1 /\ <<x>>[1] = x
      OBVIOUS
    <3>2. /\ Append(<<x>>, y) \in Seq({x, y}) /\ Len(Append(<<x>>, y)) = 2
          /\ Append(<<x>>, y)[1] = x /\ Append(<<x>>, y)[2] = y
      BY <3>1, AppendProperties
    <3>3. <<x, y>> \in Seq({x, y}) /\ Len(<<x, y>>) = 2 /\ <<x, y>>[1] = x /\ <<x, y>>[2] = y
      OBVIOUS
    <3>4. \A k \in 1..2 : Append(<<x>>, y)[k] = <<x, y>>[k]
      BY <3>2, <3>3
    <3> QED BY <3>2, <3>3, <3>4, SeqEqual
  <2>2. Head(<<x, y>>) = x
    OBVIOUS
  <2>3. Tail(<<x, y>>) = <<y>>
    OBVIOUS
  <2> QED BY <2>1, <2>2, <2>3
<1>3. \A x, S : x \in S => <<x>> \in Seq(S) /\ Len(<<x>>) = 1
  OBVIOUS
<1>4. ASSUME NEW S, NEW x \in S, NEW y \in S PROVE <<x, y>> \in Seq(S) /\ Len(<<x, y>>) = 2
  OBVIOUS
<1>5. \A S : <<>> \in Seq(S) /\ Len(<<>>) = 0
  OBVIOUS
<1> QED BY <1>1, <1>2, <1>3, <1>4, <1>5

\* A step of the PRU leaves it where the host's place says.
LEMMA PruKeepsPlace == ASSUME PeriodInv, Pru, NEW p \in HostPc, At(p) PROVE At(p)'
<1> USE DEF host, main, pru, PruStep, Booting, AtRest, Starting, Counting, Ending, Midway, Finishing, Done
<1>1. CASE Boot
  BY <1>1 DEF Boot, At
<1>2. CASE Poll
  BY <1>2 DEF Poll, At
<1>3. CASE Clear
  BY <1>3 DEF Clear, At
<1>4. CASE Receive
  BY <1>4 DEF Receive, At
<1>5. CASE NoMore
  BY <1>5 DEF NoMore, At
<1>6. CASE asm_count
  BY <1>6 DEF asm_count, At
<1>7. CASE Answer
  <2>1. /\ ppc = "send" /\ ppc' = "receive" /\ toHost' = Append(toHost, count)
        /\ UNCHANGED <<count, kicked, toPru, round>>
    BY <1>7 DEF Answer
  <2>2. CASE p = "read" /\ toHost = <<>> /\ Ending
    <3>1. toHost' = <<round>>
      BY <2>1, <2>2
    <3> QED BY <2>1, <2>2, <3>1 DEF At
  <2>3. CASE p = "read" /\ toHost = <<round>> /\ Midway
    <3>1. toHost' = <<round, "nothing">>
      BY <2>1, <2>3, ShortQueues
    <3> QED BY <2>1, <2>3, <3>1 DEF At
  <2>4. CASE p \in {"duty", "glitch", "reread"} /\ toHost = <<>> /\ Midway
    <3>1. toHost' = <<"nothing">>
      BY <2>1, <2>4, ShortQueues
    <3> QED BY <2>1, <2>4, <3>1 DEF At
  <2> QED BY <2>1, <2>2, <2>3, <2>4 DEF At
<1> QED BY <1>1, <1>2, <1>3, <1>4, <1>5, <1>6, <1>7 DEF Pru

\* A place that is not the end is the host's own.
LEMMA HostPlace == ASSUME PeriodInv, hpc # "down" PROVE At(hpc)
BY DEF PeriodInv, Lockstep

\* A step of the PRU keeps the invariant.
LEMMA PruStepKeeps == ASSUME PeriodInv, Pru PROVE PeriodInv'
<1> USE DEF host, main, pru, PruStep
<1>1. UNCHANGED <<hpc, mpc, buf, frequency, duty, glitch, redis, round>>
  BY DEF Pru, Boot, Poll, Clear, Receive, NoMore, asm_count, Answer
<1>2. ppc' \in PruPc /\ count' \in Count /\ kicked' \in BOOLEAN
  BY DEF PeriodInv, Pru, Boot, Poll, Clear, Receive, NoMore, asm_count, Answer, PruPc, Count
<1>3. PICK p \in HostPc \ {"down"} : hpc \in {p, "down"} /\ At(p)
  BY DEF PeriodInv, Lockstep
<1>4. At(p)'
  BY <1>3, PruKeepsPlace
<1>5. Lockstep'
  BY <1>1, <1>3, <1>4 DEF Lockstep
<1> QED BY <1>1, <1>2, <1>5 DEF PeriodInv, ReadInv

\* The end of volt, or of its start, leaves the PRU where it is.
LEMMA EndKeeps == ASSUME PeriodInv, hpc # "down", End PROVE PeriodInv'
<1>1. /\ hpc' = "down" /\ mpc' = "pfactor" /\ buf' = "nothing"
      /\ frequency' = None /\ duty' = None /\ glitch' = None
      /\ UNCHANGED <<redis, ppc, count, kicked, toPru, toHost, round>>
  BY DEF End, pru
<1>2. hpc \in HostPc \ {"down"} /\ At(hpc)
  BY HostPlace DEF PeriodInv
<1>3. \A p : At(p)' <=> At(p)
  BY <1>1 DEF At, Booting, AtRest, Starting, Counting, Ending, Midway, Finishing, Done
<1>4. Lockstep'
  BY <1>1, <1>2, <1>3 DEF Lockstep
<1> QED BY <1>1, <1>4 DEF PeriodInv, ReadInv, HostPc, Count, None

\* A step of the host is one of its own place to the next, which finds the PRU there.
LEMMA HostStepKeeps ==
    ASSUME PeriodInv, hpc' \in HostPc \ {"down"}, At(hpc)', ReadInv',
           UNCHANGED <<mpc, ppc>>, count' \in Count, kicked' \in BOOLEAN, round' \in Rounds
    PROVE  PeriodInv'
BY DEF PeriodInv, Lockstep

LEMMA GlitchCounterKeeps == ASSUME PeriodInv, GlitchCounter PROVE PeriodInv'
<1> USE DEF host, main, pru, HostStep
<1>0. /\ hpc # "down" /\ At(hpc) /\ count \in Count /\ kicked \in BOOLEAN /\ round \in Rounds
      /\ "nothing" \notin Rounds
  BY HostPlace DEF PeriodInv, GlitchCounter, Kick, SleepEnds, Rekick, Read, SetDuty, SetGlitch,
                   Reread, PauseEnds, Rounds
<1>1. CASE Kick
  <2>1. /\ hpc = "kick" /\ hpc' = "sleep" /\ kicked' = TRUE /\ toPru' = toPru + 1 /\ round' \in Rounds
        /\ UNCHANGED <<buf, frequency, duty, glitch, redis, mpc, ppc, count, toHost>>
    BY <1>1 DEF Kick, Write
  <2>2. toHost = <<>> /\ AtRest
    BY <1>0, <2>1 DEF At
  <2>3. At("sleep")'
    BY <2>1, <2>2 DEF At, AtRest, Starting
  <2>4. ReadInv'
    BY <2>1 DEF PeriodInv, ReadInv
  <2> QED BY <1>0, <2>1, <2>3, <2>4, HostStepKeeps DEF HostPc
<1>2. CASE SleepEnds
  <2>1. /\ hpc = "sleep" /\ hpc' = "rekick" /\ ~kicked /\ ppc \in {"idle", "count"}
        /\ count' = (IF ppc = "count" THEN Longer(count) ELSE count)
        /\ UNCHANGED <<buf, frequency, duty, glitch, redis, mpc, ppc, kicked, toPru, toHost, round>>
    BY <1>2 DEF SleepEnds, Settled
  <2>2. toHost = <<>> /\ Counting /\ count = "nothing"
    BY <1>0, <2>1 DEF At, Starting
  <2>3. count' = round
    BY <2>1, <2>2 DEF Counting, Longer
  <2>4. At("rekick")'
    BY <2>1, <2>2, <2>3 DEF At, Counting
  <2>5. ReadInv'
    BY <2>1 DEF PeriodInv, ReadInv
  <2> QED BY <1>0, <2>1, <2>3, <2>4, <2>5, HostStepKeeps DEF HostPc, Count
<1>3. CASE Rekick
  <2>1. /\ hpc = "rekick" /\ hpc' = "read" /\ kicked' = TRUE /\ toPru' = toPru + 1
        /\ UNCHANGED <<buf, frequency, duty, glitch, redis, mpc, ppc, count, toHost, round>>
    BY <1>3 DEF Rekick, Write
  <2>2. At("read")'
    BY <1>0, <2>1 DEF At, Counting, Ending
  <2>3. ReadInv'
    BY <2>1 DEF PeriodInv, ReadInv
  <2> QED BY <1>0, <2>1, <2>2, <2>3, HostStepKeeps DEF HostPc
<1>4. CASE Read
  <2>1. /\ hpc = "read" /\ hpc' = "duty" /\ toHost # <<>> /\ buf' = Head(toHost)
        /\ toHost' = Tail(toHost) /\ frequency' = buf'
        /\ UNCHANGED <<duty, glitch, redis, mpc, ppc, count, kicked, toPru, round>>
    BY <1>4 DEF Read, ReadAnswer
  <2>2. \/ toHost = <<round>> /\ Midway
        \/ toHost = <<round, "nothing">> /\ Done
    BY <1>0, <2>1 DEF At
  <2>3. buf' = round /\ \/ toHost' = <<>> /\ Midway
                        \/ toHost' = <<"nothing">> /\ Done
    BY <2>1, <2>2, ShortQueues
  <2>4. At("duty")'
    BY <2>1, <2>3 DEF At, Midway, Done, Finishing, AtRest
  <2>5. ReadInv'
    BY <1>0, <2>1, <2>3 DEF PeriodInv, ReadInv, Count
  <2> QED BY <1>0, <2>1, <2>4, <2>5, HostStepKeeps DEF HostPc
<1>5. CASE SetDuty \/ SetGlitch
  <2>1. /\ \/ hpc = "duty" /\ hpc' = "glitch" /\ duty' = buf /\ glitch' = glitch
           \/ hpc = "glitch" /\ hpc' = "reread" /\ glitch' = buf /\ duty' = duty
        /\ UNCHANGED <<buf, frequency, redis, mpc, ppc, count, kicked, toPru, toHost, round>>
    BY <1>5 DEF SetDuty, SetGlitch
  <2>2. At(hpc)'
    BY <1>0, <2>1 DEF At, Midway, Done, Finishing, AtRest
  <2>3. ReadInv'
    BY <1>0, <2>1 DEF PeriodInv, ReadInv
  <2> QED BY <1>0, <2>1, <2>2, <2>3, HostStepKeeps DEF HostPc
<1>6. CASE Reread
  <2>1. /\ hpc = "reread" /\ hpc' = "pause" /\ toHost # <<>> /\ buf' = Head(toHost)
        /\ toHost' = Tail(toHost)
        /\ UNCHANGED <<frequency, duty, glitch, redis, mpc, ppc, count, kicked, toPru, round>>
    BY <1>6 DEF Reread, ReadAnswer
  <2>2. toHost = <<"nothing">> /\ Done
    BY <1>0, <2>1 DEF At
  <2>3. buf' = "nothing" /\ toHost' = <<>>
    BY <2>1, <2>2, ShortQueues
  <2>4. At("pause")'
    BY <2>1, <2>2, <2>3 DEF At, Done, Finishing, AtRest
  <2>5. ReadInv'
    BY <2>1, <2>3 DEF PeriodInv, ReadInv, Count
  <2> QED BY <1>0, <2>1, <2>4, <2>5, HostStepKeeps DEF HostPc
<1>7. CASE PauseEnds
  <2>1. /\ hpc = "pause" /\ hpc' = "kick" /\ ~kicked /\ ppc \in {"idle", "count"}
        /\ UNCHANGED <<buf, frequency, duty, glitch, redis, mpc, ppc, count, kicked, toPru, toHost, round>>
    BY <1>7 DEF PauseEnds, Settled
  <2>2. At("kick")'
    BY <1>0, <2>1 DEF At, Done, Finishing, AtRest
  <2>3. ReadInv'
    BY <2>1 DEF PeriodInv, ReadInv
  <2> QED BY <1>0, <2>1, <2>2, <2>3, HostStepKeeps DEF HostPc
<1> QED BY <1>1, <1>2, <1>3, <1>4, <1>5, <1>6, <1>7 DEF GlitchCounter

\* What main stores covers a period, for what it finds in its variables does.
LEMMA MainKeeps == ASSUME PeriodInv, Main PROVE PeriodInv'
<1>1. UNCHANGED <<hpc, buf, frequency, duty, glitch, ppc, count, kicked, toPru, toHost, round>>
  BY DEF Main, StorePfactor, StoreGlitch, StoreFrequency, Store, host, pru
<1>2. mpc' \in {"pfactor", "glitch", "frequency"}
  BY DEF Main, StorePfactor, StoreGlitch, StoreFrequency, Store
<1>3. redis' \in Periods
  <2>1. OfAPeriod(duty) = TRUE /\ OfAPeriod(glitch) = TRUE /\ OfAPeriod(frequency) = TRUE
    BY DEF PeriodInv, ReadInv, OfAPeriod
  <2>2. redis \in Periods
    BY DEF PeriodInv, ReadInv
  <2>3. \/ redis' = [redis EXCEPT !["pfactor"] = OfAPeriod(duty)]
        \/ redis' = [redis EXCEPT !["glitch"] = OfAPeriod(glitch)]
        \/ redis' = [redis EXCEPT !["frequency"] = OfAPeriod(frequency)]
        \/ redis' = redis
    BY DEF Main, StorePfactor, StoreGlitch, StoreFrequency, Store
  <2>4. \/ redis' = [redis EXCEPT !["pfactor"] = TRUE]
        \/ redis' = [redis EXCEPT !["glitch"] = TRUE]
        \/ redis' = [redis EXCEPT !["frequency"] = TRUE]
        \/ redis' = redis
    BY <2>1, <2>3
  <2>5. /\ [redis EXCEPT !["pfactor"] = TRUE] \in Periods
        /\ [redis EXCEPT !["glitch"] = TRUE] \in Periods
        /\ [redis EXCEPT !["frequency"] = TRUE] \in Periods
    BY <2>2 DEF Periods
  <2> QED BY <2>2, <2>4, <2>5
<1>4. Lockstep'
  BY <1>1 DEF PeriodInv, Lockstep, At, Booting, AtRest, Starting, Counting, Ending, Midway, Finishing, Done
<1> QED BY <1>1, <1>2, <1>3, <1>4 DEF PeriodInv, ReadInv

\* The start of the service finds a PRU that has just booted.
LEMMA StartKeeps == ASSUME PeriodInv, Reboot \/ Open PROVE PeriodInv'
<1> USE DEF HostStep, main, pru
<1>1. CASE Reboot
  <2>1. /\ hpc' = "boot" /\ ppc' = "boot" /\ count' = "nothing" /\ toPru' = 0 /\ toHost' = <<>>
        /\ UNCHANGED <<buf, frequency, duty, glitch, redis, mpc, kicked, round>>
    BY <1>1 DEF Reboot
  <2>2. Lockstep'
    BY <2>1 DEF Lockstep, At, Booting, HostPc
  <2>3. ReadInv'
    BY <2>1 DEF PeriodInv, ReadInv
  <2> QED BY <2>1, <2>2, <2>3 DEF PeriodInv, HostPc, PruPc, Count
<1>2. CASE Open
  <2>1. /\ hpc = "boot" /\ hpc' = "kick" /\ ~kicked /\ ppc \in {"idle", "count"}
        /\ UNCHANGED <<buf, frequency, duty, glitch, redis, mpc, ppc, count, kicked, toPru, toHost, round>>
    BY <1>2 DEF Open, Settled
  <2>2. toHost = <<>> /\ Booting
    BY <2>1, HostPlace DEF At
  <2>3. At("kick")'
    BY <2>1, <2>2 DEF At, Booting, AtRest
  <2>4. ReadInv'
    BY <2>1 DEF PeriodInv, ReadInv
  <2>5. count' \in Count /\ kicked' \in BOOLEAN /\ round' \in Rounds
    BY <2>1 DEF PeriodInv
  <2> QED BY <2>1, <2>3, <2>4, <2>5, HostStepKeeps DEF HostPc
<1> QED BY <1>1, <1>2

LEMMA PeriodInvariant == Spec => []PeriodInv
<1>1. Init => PeriodInv
  <2> SUFFICES ASSUME Init PROVE PeriodInv
    OBVIOUS
  <2>1. At("boot")
    BY DEF Init, At, Booting
  <2>2. Lockstep
    BY <2>1 DEF Init, Lockstep, HostPc
  <2> QED BY <2>2 DEF Init, PeriodInv, ReadInv, Periods, HostPc, PruPc, Count, Rounds
<1>2. PeriodInv /\ [Next]_vars => PeriodInv'
  <2> SUFFICES ASSUME PeriodInv, [Next]_vars PROVE PeriodInv'
    OBVIOUS
  <2>1. CASE OpenFails \/ Kill
    BY <2>1, EndKeeps DEF OpenFails, Kill
  <2>2. CASE UNCHANGED vars
    <3>1. Lockstep'
      BY <2>2 DEF PeriodInv, vars, host, main, pru, Lockstep, At, Booting, AtRest, Starting, Counting,
                  Ending, Midway, Finishing, Done
    <3> QED BY <2>2, <3>1 DEF PeriodInv, ReadInv, vars, host, main, pru
  <2> QED BY <2>1, <2>2, PruStepKeeps, GlitchCounterKeeps, MainKeeps, StartKeeps DEF Next
<1> QED BY <1>1, <1>2, PTL DEF Spec

-------------------------------------------------------------------------------
(* What it says. *)

\* Every variable keeps its type; there is never more than one message under way to the
\* PRU, and never more than two answers wait.
THEOREM TypeCorrect == Spec => []TypeOK
<1>1. PeriodInv => TypeOK
  <2> SUFFICES ASSUME PeriodInv PROVE TypeOK
    OBVIOUS
  <2>1. PICK p \in HostPc : At(p)
    BY DEF PeriodInv, Lockstep
  <2>2. toPru \in 0..2
    BY <2>1 DEF At, Booting, AtRest, Starting, Counting, Ending, Midway, Finishing, Done
  <2>3. round \in Count /\ "nothing" \in Count
    BY DEF PeriodInv, Count
  <2>4. toHost \in {<<>>, <<round>>, <<round, "nothing">>, <<"nothing">>}
    BY <2>1 DEF At
  <2>5. toHost \in Seq(Count) /\ Len(toHost) <= 2
    <3>1. CASE toHost = <<>>
      BY <3>1, ShortQueues
    <3>2. CASE toHost = <<round>>
      BY <2>3, <3>2, ShortQueues
    <3>3. CASE toHost = <<round, "nothing">>
      BY <2>3, <3>3, ShortQueues
    <3>4. CASE toHost = <<"nothing">>
      BY <2>3, <3>4, ShortQueues
    <3> QED BY <2>4, <3>1, <3>2, <3>3, <3>4
  <2>6. redis \in [pfactor : BOOLEAN, glitch : BOOLEAN, frequency : BOOLEAN]
    BY DEF PeriodInv, ReadInv, Periods
  <2> QED BY <2>2, <2>5, <2>6 DEF PeriodInv, ReadInv, TypeOK, Count
<1> QED BY <1>1, PeriodInvariant, PTL

\* What is stored covers a whole period, wherever volt was killed (glitch_counter,
\* volt.c; count.asm; simar_volt.sh).
THEOREM StoredIsAPeriod == Spec => []StoredCoversAPeriod
<1>1. PeriodInv => StoredCoversAPeriod
  BY DEF PeriodInv, ReadInv, Periods, StoredCoversAPeriod
<1> QED BY <1>1, PeriodInvariant, PTL

\* Every step is one of the meter, or none.
LEMMA MeterStep ==
    ASSUME PeriodInv, [Next]_vars PROVE [Meter!MeterNext]_Meter!meterVars
<1> USE DEF host, main, pru, HostStep, PruStep
<1>1. CASE Pru \/ Main \/ UNCHANGED vars
  <2>1. UNCHANGED <<hpc, frequency, round>>
    BY <1>1 DEF Pru, Boot, Poll, Clear, Receive, NoMore, asm_count, Answer, Main, StorePfactor,
                StoreGlitch, StoreFrequency, Store, vars
  <2> QED BY <2>1 DEF Meter!meterVars, Armed
<1>2. CASE Reboot \/ Open \/ SleepEnds \/ Rekick \/ SetDuty \/ SetGlitch \/ Reread \/ PauseEnds
  <2>1. UNCHANGED <<frequency, round>>
    BY <1>2 DEF Reboot, Open, SleepEnds, Rekick, Write, SetDuty, SetGlitch, Reread, ReadAnswer, PauseEnds
  <2>2. \/ hpc \in {"down", "boot", "duty", "glitch", "reread", "pause"}
           /\ hpc' \in {"boot", "glitch", "reread", "pause", "kick"}
        \/ hpc \in {"sleep", "rekick"} /\ hpc' \in {"rekick", "read"}
    BY <1>2 DEF Reboot, Open, SleepEnds, Rekick, SetDuty, SetGlitch, Reread, PauseEnds
  <2>3. Armed' = Armed
    BY <2>2 DEF Armed
  <2> QED BY <2>1, <2>3 DEF Meter!meterVars
<1>3. CASE Kick
  <2>1. frequency' = frequency /\ hpc = "kick" /\ hpc' = "sleep" /\ round' \in Rounds \ {round}
    BY <1>3 DEF Kick, Write
  <2>2. ~Armed /\ Armed' = TRUE
    BY <2>1 DEF Armed
  <2> QED BY <2>1, <2>2 DEF Meter!MeterNext, Meter!Arm
<1>4. CASE Read
  <2>1. hpc = "read" /\ hpc' = "duty" /\ round' = round /\ frequency' = buf'
    BY <1>4 DEF Read, ReadAnswer
  <2>2. buf' = round
    BY <1>4, <2>1, GlitchCounterKeeps DEF GlitchCounter, PeriodInv, ReadInv
  <2>3. Armed /\ Armed' = FALSE
    BY <2>1 DEF Armed
  <2> QED BY <2>1, <2>2, <2>3 DEF Meter!MeterNext, Meter!Report
<1>5. CASE OpenFails \/ Kill
  <2>1. hpc' = "down" /\ frequency' = None /\ round' = round
    BY <1>5 DEF OpenFails, Kill, End
  <2>2. Armed' = FALSE
    BY <2>1 DEF Armed
  <2> QED BY <2>1, <2>2 DEF Meter!MeterNext, Meter!Stop
<1> QED BY <1>1, <1>2, <1>3, <1>4, <1>5 DEF Next, GlitchCounter

\* glitch_counter with the PRU implements the meter: whatever the order of kicks,
\* answers, reads, kills and restarts, a report is the count of the period that was
\* waited for.
THEOREM MeterImplemented == Spec => ImplementsMeter
<1>1. Init => Meter!MeterInit
  BY DEF Init, Meter!MeterInit, Armed, Rounds
<1>2. PeriodInv /\ [Next]_vars => [Meter!MeterNext]_Meter!meterVars
  BY MeterStep
<1> QED BY <1>1, <1>2, PeriodInvariant, PTL DEF Spec, ImplementsMeter, Meter!MeterSpec

-------------------------------------------------------------------------------
(* No answer is waited for in vain. *)

\* The PRU has an answer to send, and needs no kick and no message for it.
AnswerUnderWay ==
    \/ ppc = "send"
    \/ ppc = "count" /\ kicked
    \/ ppc = "receive" /\ kicked /\ toPru > 0

HostIsAnswered == hpc \in {"read", "reread"} => toHost # <<>> \/ AnswerUnderWay

\* Neither side ever waits for the other at once, wherever volt was killed before: a
\* host that reads has an answer to read, or the PRU is about to send one that it needs
\* no further kick for (glitch_counter's two reads, lines 195 and 202 of volt.c; the
\* receive loop of the firmware).
THEOREM NobodyWaitsForever == Spec => []HostIsAnswered
<1>1. PeriodInv => HostIsAnswered
  <2> SUFFICES ASSUME PeriodInv, hpc \in {"read", "reread"}, toHost = <<>>
               PROVE  AnswerUnderWay
    BY DEF HostIsAnswered
  <2>1. At(hpc)
    BY HostPlace
  <2>2. Ending \/ Midway
    BY <2>1 DEF At
  <2> QED BY <2>2 DEF Ending, Midway, AnswerUnderWay
<1> QED BY <1>1, PeriodInvariant, PTL
===============================================================================
