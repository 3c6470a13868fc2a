--------------------------- MODULE DoorSensorProofs ---------------------------
(***************************************************************************)
(* DoorSensor for every set of pressures and all thresholds: the type      *)
(* invariant, the safety invariants and the two action properties; and for *)
(* any two pressures, how soon the report of the door follows the door.    *)
(***************************************************************************)
EXTENDS DoorSensor, TLAPS

\* What the averages satisfy, for any sensor and not only the variable.
Realistic(s) == WithinReadings(s.average) /\ WithinReadings(s.open_average)

-------------------------------------------------------------------------------
(* The window. *)

\* A pressure is a positive number: 0 stands for "no average" and nothing else.
LEMMA PressureIsPositive == \A p \in Pressure : p \in Nat /\ p > 0
BY PressureAssumption

\* Pushing a reading into a window of readings gives a window of readings.
LEMMA PushedIsWindow ==
    ASSUME NEW w \in [Slot -> Pressure], NEW p \in Pressure
    PROVE  Pushed(w, p) \in [Slot -> Pressure]
BY DEF Pushed, Slot, WINDOW_SIZE

\* The sum of a window of readings is a positive number between the bounds.
LEMMA SumIsRealistic ==
    ASSUME NEW w \in [Slot -> Pressure]
    PROVE  Sum(w) \in Nat \ {0} /\ WithinReadings(Sum(w))
<1>1. /\ w[1] \in Pressure /\ w[2] \in Pressure /\ w[3] \in Pressure
      /\ w[4] \in Pressure /\ w[5] \in Pressure
  BY DEF Slot, WINDOW_SIZE
<1>2. /\ w[1] \in Pressure /\ w[1] \in Nat /\ w[1] > 0
      /\ w[2] \in Pressure /\ w[2] \in Nat /\ w[2] > 0
      /\ w[3] \in Pressure /\ w[3] \in Nat /\ w[3] > 0
      /\ w[4] \in Pressure /\ w[4] \in Nat /\ w[4] > 0
      /\ w[5] \in Pressure /\ w[5] \in Nat /\ w[5] > 0
  BY <1>1, PressureIsPositive
<1>3. Sum(w) \in Nat \ {0}
  BY <1>2 DEF Sum
<1>4. WithinReadings(Sum(w))
  <2> SUFFICES ASSUME NEW lo \in Pressure, NEW hi \in Pressure,
                      \A p \in Pressure : lo <= p /\ p <= hi
               PROVE  Scaled(lo) <= Sum(w) /\ Sum(w) <= Scaled(hi)
    BY DEF WithinReadings
  <2>1. lo \in Nat /\ hi \in Nat
    BY PressureAssumption
  <2>2. /\ lo <= w[1] /\ w[1] <= hi /\ lo <= w[2] /\ w[2] <= hi
        /\ lo <= w[3] /\ w[3] <= hi /\ lo <= w[4] /\ w[4] <= hi
        /\ lo <= w[5] /\ w[5] <= hi
    BY <1>2
  <2> QED BY <1>2, <2>1, <2>2 DEF Sum, Scaled, WINDOW_SIZE
<1> QED BY <1>3, <1>4

-------------------------------------------------------------------------------
(* update_open, in its two halves. *)

\* The moving averages leave the door status alone, and an average that moves
\* becomes the sum of a window of readings.
LEMMA MovingAverageEffect ==
    ASSUME NEW s \in SensorState, NEW t, t = MovingAverage(s)
    PROVE  /\ t \in SensorState
           /\ t.pressure = s.pressure
           /\ t.is_open = s.is_open
           /\ t.strikes_closed = s.strikes_closed
           /\ t.average # s.average => FollowsClosed(s)
           /\ t.average = s.average \/ (t.average # 0 /\ WithinReadings(t.average))
           /\ \/ t.open_average = s.open_average
              \/ s.is_open /\ t.open_average # 0 /\ WithinReadings(t.open_average)
           /\ Settled(s) /\ s.average = 0 => t.average # 0
<1> DEFINE w == Pushed(s.window, s.pressure)
<1>1. s.window \in [Slot -> Pressure] /\ s.pressure \in Pressure
  BY DEF SensorState
<1>2. w \in [Slot -> Pressure]
  BY <1>1, PushedIsWindow
<1>3. Sum(w) \in Nat /\ Sum(w) # 0 /\ WithinReadings(Sum(w))
  BY <1>2, SumIsRealistic
<1>4. CASE Settled(s) /\ FollowsClosed(s)
  <2>1. t = [s EXCEPT !.window = w, !.average = Sum(w)]
    BY <1>4 DEF MovingAverage
  <2> HIDE DEF w
  <2> QED BY <1>2, <1>3, <1>4, <2>1 DEF SensorState
<1>5. CASE Settled(s) /\ ~FollowsClosed(s) /\ FollowsOpen(s)
  <2>1. t = [s EXCEPT !.window = w, !.open_average = Sum(w)]
    BY <1>5 DEF MovingAverage
  <2>2. s.is_open /\ s.average # 0
    BY <1>5 DEF FollowsOpen, FollowsClosed
  <2> HIDE DEF w
  <2> QED BY <1>2, <1>3, <2>1, <2>2 DEF SensorState
<1>6. CASE ~Settled(s) \/ (~FollowsClosed(s) /\ ~FollowsOpen(s))
  <2>1. t = s
    BY <1>6 DEF MovingAverage
  <2>2. Settled(s) => s.average # 0
    BY <1>6 DEF FollowsClosed
  <2> QED BY <2>1, <2>2
<1> QED BY <1>4, <1>5, <1>6

\* The strikes count moves by one, and the status changes only at its two ends.
LEMMA OpenIterEffect ==
    ASSUME NEW s \in SensorState, NEW t, t = get_open_iter(s)
    PROVE  /\ t \in SensorState
           /\ t.pressure = s.pressure
           /\ t.window = s.window
           /\ t.average = s.average
           /\ t.open_average \in {0, s.open_average}
           /\ t.strikes_closed - s.strikes_closed \in {-1, 0, 1}
           /\ ~s.is_open /\ t.is_open => /\ s.strikes_closed = WINDOW_SIZE
                                         /\ t.strikes_closed = WINDOW_SIZE
           /\ s.is_open /\ ~t.is_open => /\ s.strikes_closed = 0
                                         /\ t.strikes_closed = 0
           /\ ~t.is_open => t.open_average = 0 \/ ~s.is_open
<1>1. s.strikes_closed \in 0..5 /\ s.is_open \in BOOLEAN
  BY DEF SensorState, WINDOW_SIZE
<1>2. CASE IsHigh(s) /\ s.strikes_closed > WINDOW_SIZE - 1
  <2>1. t = [s EXCEPT !.is_open = TRUE]
    BY <1>1, <1>2 DEF get_open_iter, WINDOW_SIZE
  <2>2. s.strikes_closed = WINDOW_SIZE
    BY <1>1, <1>2 DEF WINDOW_SIZE
  <2>3. /\ t.window = s.window /\ t.average = s.average /\ t.pressure = s.pressure
        /\ t.open_average = s.open_average /\ t.is_open = TRUE
        /\ t.strikes_closed = s.strikes_closed
    BY <2>1 DEF SensorState
  <2>4. t \in SensorState
    BY <2>1 DEF SensorState
  <2>5. t.strikes_closed - s.strikes_closed = 0
    BY <1>1, <2>3
  <2> QED BY <2>2, <2>3, <2>4, <2>5
<1>3. CASE IsHigh(s) /\ s.strikes_closed <= WINDOW_SIZE - 1
  <2>1. t = [s EXCEPT !.strikes_closed = @ + 1]
    BY <1>1, <1>3 DEF get_open_iter, WINDOW_SIZE
  <2>2. t.strikes_closed = s.strikes_closed + 1 /\ t.strikes_closed \in 0..WINDOW_SIZE
    BY <1>1, <1>3, <2>1 DEF SensorState, WINDOW_SIZE
  <2>3. /\ t.window = s.window /\ t.average = s.average /\ t.pressure = s.pressure
        /\ t.open_average = s.open_average /\ t.is_open = s.is_open
    BY <2>1 DEF SensorState
  <2>4. t \in SensorState
    BY <2>1, <2>2 DEF SensorState
  <2>5. t.strikes_closed - s.strikes_closed \in {-1, 0, 1}
    BY <1>1, <2>2
  <2> QED BY <1>1, <2>2, <2>3, <2>4, <2>5
<1>4. CASE ~IsHigh(s) /\ s.strikes_closed < 1
  <2>1. t = [s EXCEPT !.is_open = FALSE, !.open_average = 0]
    BY <1>1, <1>4 DEF get_open_iter, WINDOW_SIZE
  <2>2. s.strikes_closed = 0
    BY <1>1, <1>4
  <2>3. /\ t.window = s.window /\ t.average = s.average /\ t.pressure = s.pressure
        /\ t.open_average = 0 /\ t.is_open = FALSE
        /\ t.strikes_closed = s.strikes_closed
    BY <2>1 DEF SensorState
  <2>4. t \in SensorState
    <3> DEFINE c == [s EXCEPT !.is_open = FALSE]
    <3>1. c \in SensorState
      BY DEF SensorState
    <3>2. t = [c EXCEPT !.open_average = 0]
      BY <2>1 DEF SensorState
    <3> HIDE DEF c
    <3> QED BY <3>1, <3>2 DEF SensorState
  <2>5. t.strikes_closed - s.strikes_closed = 0
    BY <1>1, <2>3
  <2> QED BY <2>2, <2>3, <2>4, <2>5
<1>5. CASE ~IsHigh(s) /\ s.strikes_closed >= 1
  <2>1. t = [s EXCEPT !.strikes_closed = @ - 1]
    BY <1>1, <1>5 DEF get_open_iter, WINDOW_SIZE
  <2>2. t.strikes_closed = s.strikes_closed - 1 /\ t.strikes_closed \in 0..WINDOW_SIZE
    BY <1>1, <1>5, <2>1 DEF SensorState, WINDOW_SIZE
  <2>3. /\ t.window = s.window /\ t.average = s.average /\ t.pressure = s.pressure
        /\ t.open_average = s.open_average /\ t.is_open = s.is_open
    BY <2>1 DEF SensorState
  <2>4. t \in SensorState
    BY <2>1, <2>2 DEF SensorState
  <2>5. t.strikes_closed - s.strikes_closed \in {-1, 0, 1}
    BY <1>1, <2>2
  <2> QED BY <1>1, <2>2, <2>3, <2>4, <2>5
<1> QED BY <1>1, <1>2, <1>3, <1>4, <1>5 DEF WINDOW_SIZE

\* What one update does to a sensor that was calibrated or is being so.
LEMMA UpdateEffect ==
    ASSUME NEW s \in SensorState, NEW t, t = update_open(s),
           s.average # 0 \/ Settled(s), Realistic(s),
           s.open_average # 0 => s.is_open
    PROVE  /\ t \in SensorState
           /\ t.average # 0 /\ Realistic(t)
           /\ t.open_average # 0 => t.is_open
           /\ s.is_open /\ s.average # 0 => t.average = s.average
           /\ t.strikes_closed - s.strikes_closed \in {-1, 0, 1}
           /\ ~s.is_open /\ t.is_open => /\ s.strikes_closed = WINDOW_SIZE
                                         /\ t.strikes_closed = WINDOW_SIZE
           /\ s.is_open /\ ~t.is_open => /\ s.strikes_closed = 0
                                         /\ t.strikes_closed = 0
<1> DEFINE m == MovingAverage(s)
           g == get_open_iter(m)
<1>1. /\ m \in SensorState /\ m.is_open = s.is_open
      /\ m.strikes_closed = s.strikes_closed /\ m.pressure = s.pressure
      /\ m.average # s.average => FollowsClosed(s)
      /\ m.average = s.average \/ (m.average # 0 /\ WithinReadings(m.average))
      /\ \/ m.open_average = s.open_average
         \/ s.is_open /\ m.open_average # 0 /\ WithinReadings(m.open_average)
      /\ Settled(s) /\ s.average = 0 => m.average # 0
  BY MovingAverageEffect
<1>2. /\ m.average # 0 /\ Realistic(m)
      /\ m.open_average # 0 => m.is_open
      /\ s.is_open /\ s.average # 0 => m.average = s.average
  BY <1>1 DEF Realistic, FollowsClosed
<1> HIDE DEF m
<1>3. /\ g \in SensorState /\ g.average = m.average
      /\ g.pressure = m.pressure
      /\ g.open_average \in {0, m.open_average}
      /\ g.strikes_closed - m.strikes_closed \in {-1, 0, 1}
      /\ ~m.is_open /\ g.is_open => /\ m.strikes_closed = WINDOW_SIZE
                                    /\ g.strikes_closed = WINDOW_SIZE
      /\ m.is_open /\ ~g.is_open => /\ m.strikes_closed = 0
                                    /\ g.strikes_closed = 0
      /\ ~g.is_open => g.open_average = 0 \/ ~m.is_open
  BY <1>1, OpenIterEffect
<1>4. t = [g EXCEPT !.window = IF g.is_open # s.is_open
                                 THEN Filled(s.pressure) ELSE @]
  BY DEF update_open, m
<1> HIDE DEF g
<1>5. Filled(s.pressure) \in [Slot -> Pressure]
  BY DEF Filled, SensorState
<1>6. /\ t \in SensorState /\ t.average = g.average
      /\ t.open_average = g.open_average /\ t.is_open = g.is_open
      /\ t.strikes_closed = g.strikes_closed
  BY <1>3, <1>4, <1>5 DEF SensorState
<1>7. WithinReadings(0)
  BY DEF WithinReadings
<1>8. Realistic(t)
  BY <1>2, <1>3, <1>6, <1>7 DEF Realistic
<1> QED BY <1>1, <1>2, <1>3, <1>6, <1>8
-------------------------------------------------------------------------------
(* The inductive invariant. *)

IInv == TypeOK /\ AveragesRealistic /\ OpenAverageOnlyWhileOpen /\ StrikesAreEarned

\* The invariant holds of a sensor calibrated from any window of readings.
LEMMA InitInv == Init => IInv
<1> SUFFICES ASSUME Init PROVE IInv
  OBVIOUS
<1>1. PICK w \in [Slot -> Pressure] :
        /\ sensor = update_open(FreshSensor(w, w[WINDOW_SIZE]))
        /\ rack = w[WINDOW_SIZE]
  BY DEF Init
<1> DEFINE s == FreshSensor(w, w[WINDOW_SIZE])
<1>2. w[WINDOW_SIZE] \in Pressure
  BY DEF Slot, WINDOW_SIZE
<1>3. s \in SensorState
  BY <1>2 DEF FreshSensor, SensorState, WINDOW_SIZE
<1>4. /\ s.open_average = 0 /\ s.average = 0
      /\ s.is_open = FALSE /\ s.strikes_closed = 0
  BY DEF FreshSensor
<1>5. Settled(s)
  BY <1>4 DEF Settled
<1>6. Realistic(s)
  BY <1>4 DEF Realistic, WithinReadings
<1> HIDE DEF s
<1>7. /\ sensor \in SensorState
      /\ sensor.average # 0 /\ Realistic(sensor)
      /\ sensor.open_average # 0 => sensor.is_open
      /\ sensor.strikes_closed - s.strikes_closed \in {-1, 0, 1}
      /\ ~s.is_open /\ sensor.is_open => /\ s.strikes_closed = WINDOW_SIZE
                                        /\ sensor.strikes_closed = WINDOW_SIZE
  BY <1>1, <1>3, <1>4, <1>5, <1>6, UpdateEffect DEF s
<1>8. ~sensor.is_open
  BY <1>4, <1>7 DEF WINDOW_SIZE
<1>9. sensor.strikes_closed <= 1
  BY <1>4, <1>7 DEF SensorState, WINDOW_SIZE
<1>10. since = 1 /\ since \in 0..MaxSince
  BY PressureAssumption DEF Init, WINDOW_SIZE
<1>11. TypeOK
  BY <1>1, <1>2, <1>7, <1>10 DEF TypeOK
<1>12. AveragesRealistic /\ OpenAverageOnlyWhileOpen
  BY <1>7 DEF AveragesRealistic, OpenAverageOnlyWhileOpen, Realistic
<1>13. StrikesAreEarned
  BY <1>8, <1>9, <1>10 DEF StrikesAreEarned
<1> QED BY <1>11, <1>12, <1>13 DEF IInv

\* A reading keeps the invariant, and obeys the two action properties.
LEMMA ReadingStep ==
    ASSUME IInv, Reading
    PROVE  /\ IInv'
           /\ sensor'.is_open # sensor.is_open => since >= WINDOW_SIZE
           /\ sensor.is_open => sensor'.average = sensor.average
<1> DEFINE s == [sensor EXCEPT !.pressure = rack]
<1>1. /\ sensor \in SensorState /\ rack \in Pressure /\ since \in 0..MaxSince
      /\ sensor.average # 0 /\ Realistic(sensor)
      /\ sensor.open_average # 0 => sensor.is_open
  BY DEF IInv, TypeOK, AveragesRealistic, OpenAverageOnlyWhileOpen, Realistic
<1>2. /\ s \in SensorState /\ s.average = sensor.average
      /\ s.open_average = sensor.open_average /\ s.is_open = sensor.is_open
      /\ s.strikes_closed = sensor.strikes_closed
  BY <1>1 DEF SensorState
<1>3. Realistic(s)
  BY <1>1, <1>2 DEF Realistic
<1>4. sensor' = update_open(s)
  BY DEF Reading
<1> HIDE DEF s
<1>5. /\ sensor' \in SensorState
      /\ sensor'.average # 0 /\ Realistic(sensor')
      /\ sensor'.open_average # 0 => sensor'.is_open
      /\ sensor.is_open => sensor'.average = sensor.average
      /\ sensor'.strikes_closed - sensor.strikes_closed \in {-1, 0, 1}
      /\ ~sensor.is_open /\ sensor'.is_open => /\ sensor.strikes_closed = WINDOW_SIZE
                                              /\ sensor'.strikes_closed = WINDOW_SIZE
      /\ sensor.is_open /\ ~sensor'.is_open => /\ sensor.strikes_closed = 0
                                              /\ sensor'.strikes_closed = 0
  BY <1>1, <1>2, <1>3, <1>4, UpdateEffect
<1>6. /\ since' = IF sensor'.is_open # sensor.is_open THEN 0
                  ELSE IF since < MaxSince THEN since + 1 ELSE since
      /\ rack' = rack
  BY DEF Reading
<1>7. since' \in 0..MaxSince
  BY <1>1, <1>6, PressureAssumption
<1>8. TypeOK'
  BY <1>1, <1>5, <1>6, <1>7 DEF TypeOK
<1>9. (AveragesRealistic /\ OpenAverageOnlyWhileOpen)'
  BY <1>5 DEF AveragesRealistic, OpenAverageOnlyWhileOpen, Realistic
<1>10. /\ sensor.strikes_closed \in 0..5 /\ sensor'.strikes_closed \in 0..5
       /\ sensor.is_open \in BOOLEAN /\ sensor'.is_open \in BOOLEAN
       /\ since \in Nat /\ MaxSince \in Nat /\ MaxSince >= 5
  BY <1>1, <1>5, PressureAssumption DEF SensorState, WINDOW_SIZE
<1>11. since < 5 =>
         IF sensor.is_open THEN sensor.strikes_closed >= 5 - since
                           ELSE sensor.strikes_closed <= since
  BY DEF IInv, StrikesAreEarned, WINDOW_SIZE
<1>12. sensor'.is_open # sensor.is_open => since >= WINDOW_SIZE
  BY <1>5, <1>10, <1>11 DEF WINDOW_SIZE
<1>13. StrikesAreEarned'
  <2>1. CASE sensor'.is_open # sensor.is_open
    BY <1>5, <1>6, <1>10, <2>1 DEF StrikesAreEarned, WINDOW_SIZE
  <2>2. CASE sensor'.is_open = sensor.is_open
    BY <1>5, <1>6, <1>10, <1>11, <2>2 DEF StrikesAreEarned, WINDOW_SIZE
  <2> QED BY <2>1, <2>2
<1> QED BY <1>5, <1>8, <1>9, <1>12, <1>13 DEF IInv

\* So does a change of the pressure in the rack, which the sensor has not read.
LEMMA RackChangesStep == IInv /\ RackChanges => IInv'
BY DEF IInv, RackChanges, TypeOK, AveragesRealistic, OpenAverageOnlyWhileOpen,
       StrikesAreEarned, WithinReadings

LEMMA StutterStep == IInv /\ UNCHANGED vars => IInv'
BY DEF IInv, vars, TypeOK, AveragesRealistic, OpenAverageOnlyWhileOpen,
       StrikesAreEarned, WithinReadings

-------------------------------------------------------------------------------
(* The theorems. *)

\* IInv holds in every reachable state: the induction the others rest on.
THEOREM Invariance == Spec => []IInv
<1>1. IInv /\ [Next]_vars => IInv'
  BY ReadingStep, RackChangesStep, StutterStep DEF Next
<1> QED BY <1>1, InitInv, PTL DEF Spec

\* The state of main's sensors has its type, for all thresholds and pressures.
THEOREM TypeCorrect == Spec => []TypeOK
<1>1. IInv => TypeOK
  BY DEF IInv
<1> QED BY <1>1, Invariance, PTL

\* update_open's averages never leave the range of the pressures read.
THEOREM AveragesAreRealistic == Spec => []AveragesRealistic
<1>1. IInv => AveragesRealistic
  BY DEF IInv
<1> QED BY <1>1, Invariance, PTL

\* get_open_iter clears the open average whenever it reports the door closed.
THEOREM OpenAverageIsCleared == Spec => []OpenAverageOnlyWhileOpen
<1>1. IInv => OpenAverageOnlyWhileOpen
  BY DEF IInv
<1> QED BY <1>1, Invariance, PTL

\* get_open_iter counts at most one strike per update, in either direction.
THEOREM StrikesAreCounted == Spec => []StrikesAreEarned
<1>1. IInv => StrikesAreEarned
  BY DEF IInv
<1> QED BY <1>1, Invariance, PTL

\* The strike count debounces the status, whatever the sequence of readings.
THEOREM StatusIsDebounced == Spec => Debounced
<1>1. IInv /\ [Next]_vars =>
        [sensor'.is_open # sensor.is_open => since >= WINDOW_SIZE]_vars
  BY ReadingStep DEF Next, RackChanges
<1> QED BY <1>1, Invariance, PTL DEF Spec, Debounced

\* The closed average survives an opening of the door untouched.
THEOREM ClosedAverageIsHeld == Spec => ClosedAverageHeldWhileOpen
<1>1. IInv /\ [Next]_vars =>
        [sensor.is_open => sensor'.average = sensor.average]_vars
  BY ReadingStep DEF Next, RackChanges
<1> QED BY <1>1, Invariance, PTL DEF Spec, ClosedAverageHeldWhileOpen
-------------------------------------------------------------------------------
(* Two pressures, of a closed and of an open door. *)

\* Readings that the report is away from an open door, and from a closed one.
StepsToOpen(s)   == IF s.is_open THEN 0 ELSE WINDOW_SIZE + 1 - s.strikes_closed
StepsToClosed(s) == IF s.is_open THEN s.strikes_closed + 1 ELSE 0

OneLess(m, n) == n = IF m = 0 THEN 0 ELSE m - 1

\* A reading at the pressure of an open door, o, brings the report of an open door one
\* reading nearer; one at that of a closed door, c, brings that of a closed one nearer.
Settling(c, o) ==
    Reading => /\ rack = o => OneLess(StepsToOpen(sensor), StepsToOpen(sensor'))
               /\ rack = c => OneLess(StepsToClosed(sensor), StepsToClosed(sensor'))

\* The closed average is that of a closed door; while the door is reported open, the
\* window and its average hold one reading of a closed door at most.
AllButOne(w, o) == \E j \in Slot : \A m \in Slot \ {j} : w[m] = o

Levels(s, c, o) ==
    /\ s.average = Scaled(c)
    /\ ~s.is_open => s.window = Filled(c) /\ s.open_average = 0
    /\ s.is_open =>
        /\ AllButOne(s.window, o)
        /\ IF s.open_average = 0 THEN s.window = Filled(o) ELSE s.open_average >= 4 * o + c

\* Two pressures far enough apart: by the rise that counts as a strike, and by a
\* quarter of it more, for the closed door's reading that the open average may hold.
Apart(c, o) ==
    /\ c \in Nat /\ o \in Nat /\ o - c > Rise
    /\ 4 * (o - c) >= 5 * Rise
    /\ Near <= Rise

LEMMA PushedOne ==
    ASSUME NEW c \in Nat, NEW o \in Nat, c < o, NEW w \in [Slot -> {c, o}], AllButOne(w, o)
    PROVE  /\ AllButOne(Pushed(w, o), o)
           /\ Sum(Pushed(w, o)) >= 4 * o + c
<1> DEFINE u == Pushed(w, o)
<1>1. u[1] = w[2] /\ u[2] = w[3] /\ u[3] = w[4] /\ u[4] = w[5] /\ u[5] = o
  BY DEF Pushed, Slot, WINDOW_SIZE
<1> HIDE DEF u
<1>2. PICK j \in Slot : \A m \in Slot \ {j} : w[m] = o
  BY DEF AllButOne
<1>3. Slot = {1, 2, 3, 4, 5}
  BY DEF Slot, WINDOW_SIZE
<1>4. \A m \in Slot : w[m] \in {c, o}
  OBVIOUS
<1>5. AllButOne(u, o)
  <2>1. CASE j = 1
    BY <1>1, <1>2, <1>3, <2>1 DEF AllButOne
  <2>2. CASE j # 1
    <3>1. \A m \in Slot \ {j - 1} : u[m] = o
      BY <1>1, <1>2, <1>3, <2>2
    <3>2. j - 1 \in Slot
      BY <1>3, <2>2
    <3> QED
      BY <3>1, <3>2 DEF AllButOne
  <2> QED
    BY <2>1, <2>2
<1>6. u[1] + u[2] + u[3] + u[4] + u[5] >= 4 * o + c
  BY <1>1, <1>2, <1>3, <1>4
<1> QED
  BY <1>5, <1>6 DEF Sum, u

LEMMA PushedFull ==
    ASSUME NEW c \in Nat, NEW o \in Nat
    PROVE  /\ Pushed(Filled(c), c) = Filled(c) /\ Sum(Filled(c)) = Scaled(c)
           /\ Sum(Pushed(Filled(o), c)) = 4 * o + c
           /\ AllButOne(Filled(o), o) /\ AllButOne(Pushed(Filled(o), c), o)
<1>1. Slot = {1, 2, 3, 4, 5}
  BY DEF Slot, WINDOW_SIZE
<1>2. Pushed(Filled(c), c) = Filled(c)
  BY <1>1 DEF Pushed, Filled, WINDOW_SIZE
<1>3. Sum(Filled(c)) = Scaled(c)
  BY <1>1 DEF Sum, Filled, Scaled, WINDOW_SIZE
<1> DEFINE u == Pushed(Filled(o), c)
<1>4. u[1] = o /\ u[2] = o /\ u[3] = o /\ u[4] = o /\ u[5] = c
  BY <1>1 DEF Pushed, Filled, WINDOW_SIZE
<1> HIDE DEF u
<1>5. Sum(u) = 4 * o + c
  BY <1>4 DEF Sum
<1>6. AllButOne(u, o)
  BY <1>1, <1>4 DEF AllButOne
<1>7. AllButOne(Filled(o), o)
  BY <1>1 DEF AllButOne, Filled
<1> QED
  BY <1>2, <1>3, <1>5, <1>6, <1>7 DEF u

\* The averages, at either pressure.
LEMMA AveragesAtLevels ==
    ASSUME NEW c, NEW o, Apart(c, o), Pressure = {c, o},
           NEW s \in SensorState, Levels(s, c, o), NEW t, t = MovingAverage(s)
    PROVE  /\ t \in SensorState /\ t.pressure = s.pressure /\ t.is_open = s.is_open
           /\ t.strikes_closed = s.strikes_closed /\ t.average = Scaled(c)
           /\ ~s.is_open => t.window = Filled(c) /\ t.open_average = 0
           /\ s.is_open =>
                /\ AllButOne(t.window, o)
                /\ t.open_average = 0 => t.window = Filled(o) /\ ~Settled(s)
                /\ t.open_average # 0 => t.open_average >= 4 * o + c
<1>1. /\ t \in SensorState /\ t.pressure = s.pressure /\ t.is_open = s.is_open
      /\ t.strikes_closed = s.strikes_closed
  BY MovingAverageEffect
<1>2. /\ c \in Nat /\ o \in Nat /\ Rise \in Nat /\ Near \in Nat /\ Far \in Nat /\ c > 0
      /\ o - c > Rise /\ 4 * (o - c) >= 5 * Rise /\ Near <= Rise
  BY ThresholdAssumption, PressureIsPositive DEF Apart
<1>3. /\ s.average = 5 * c /\ s.pressure \in {c, o} /\ s.is_open \in BOOLEAN
      /\ s.open_average \in Nat /\ s.window \in [Slot -> {c, o}]
  BY DEF Levels, Scaled, WINDOW_SIZE, SensorState
<1>4. CASE Settled(s) /\ FollowsClosed(s)
  <2>1. t = [s EXCEPT !.window = Pushed(s.window, s.pressure),
                      !.average = Sum(Pushed(s.window, s.pressure))]
    BY <1>4 DEF MovingAverage
  <2>2. ~s.is_open /\ -Scaled(Near) < s.average - Scaled(s.pressure)
    BY <1>2, <1>3, <1>4 DEF FollowsClosed
  <2>3. s.pressure = c
    <3>1. s.pressure # o
      BY <1>2, <1>3, <2>2 DEF Scaled, WINDOW_SIZE
    <3> QED
      BY <1>3, <3>1
  <2>4. Pushed(s.window, s.pressure) = Filled(c)
    BY <1>2, <2>2, <2>3, PushedFull DEF Levels
  <2>5. t = [s EXCEPT !.window = Filled(c), !.average = Scaled(c)]
    BY <1>2, <2>1, <2>4, PushedFull
  <2>6. t.window = Filled(c) /\ t.average = Scaled(c) /\ t.open_average = s.open_average
    BY <2>5 DEF SensorState
  <2> QED
    BY <1>1, <2>2, <2>6 DEF Levels
<1>5. CASE Settled(s) /\ ~FollowsClosed(s) /\ FollowsOpen(s)
  <2>1. t = [s EXCEPT !.window = Pushed(s.window, s.pressure),
                      !.open_average = Sum(Pushed(s.window, s.pressure))]
    BY <1>5 DEF MovingAverage
  <2>2. s.is_open
    BY <1>5 DEF FollowsOpen
  <2>3. /\ t.window = Pushed(s.window, s.pressure) /\ t.average = s.average
        /\ t.open_average = Sum(Pushed(s.window, s.pressure))
    BY <2>1 DEF SensorState
  <2>4. CASE s.pressure = o
    <3>1. /\ AllButOne(Pushed(s.window, o), o) /\ Sum(Pushed(s.window, o)) >= 4 * o + c
      BY <1>2, <1>3, <2>2, PushedOne DEF Levels
    <3> QED
      BY <1>1, <1>2, <2>2, <2>3, <2>4, <3>1 DEF Levels
  <2>5. CASE s.pressure = c
    <3>1. s.open_average = 0
      <4>1. SUFFICES ASSUME s.open_average # 0, s.open_average - 5 * c < 5 * Near PROVE FALSE
        BY <1>3, <1>5, <2>5 DEF FollowsOpen, Scaled, WINDOW_SIZE
      <4>2. s.open_average >= 4 * o + c
        BY <2>2, <4>1 DEF Levels
      <4> QED
        BY <1>2, <1>3, <4>1, <4>2
    <3>2. s.window = Filled(o)
      BY <2>2, <3>1 DEF Levels
    <3>3. AllButOne(t.window, o) /\ t.open_average = 4 * o + c
      BY <1>2, <2>3, <2>5, <3>2, PushedFull
    <3> QED
      BY <1>1, <1>2, <2>2, <2>3, <3>3 DEF Levels
  <2> QED
    BY <1>3, <2>4, <2>5
<1>6. CASE ~Settled(s) \/ (~FollowsClosed(s) /\ ~FollowsOpen(s))
  <2>1. t = s
    BY <1>6 DEF MovingAverage
  <2>2. s.is_open /\ s.open_average = 0 => ~Settled(s)
    BY <1>6 DEF FollowsOpen
  <2> QED
    BY <1>1, <1>2, <2>1, <2>2, PushedFull DEF Levels
<1> QED
  BY <1>4, <1>5, <1>6

\* The reading counts for an open door exactly when it is at the higher pressure.
LEMMA HighIsOpen ==
    ASSUME NEW c, NEW o, Apart(c, o), Pressure = {c, o}, NEW s \in SensorState,
           s.average = Scaled(c), s.open_average # 0 => s.open_average >= 4 * o + c
    PROVE  IsHigh(s) <=> s.pressure = o
<1>1. /\ c \in Nat /\ o \in Nat /\ Rise \in Nat /\ o - c > Rise /\ 4 * (o - c) >= 5 * Rise
      /\ s.pressure \in {c, o} /\ s.open_average \in Nat
  BY ThresholdAssumption DEF Apart, SensorState
<1>2. CASE s.pressure = o
  BY <1>1, <1>2 DEF IsHigh, Scaled, WINDOW_SIZE
<1>3. CASE s.pressure = c
  BY <1>1, <1>3 DEF IsHigh, Scaled, WINDOW_SIZE
<1> QED
  BY <1>1, <1>2, <1>3

\* One update, at either pressure.
LEMMA UpdateAtLevels ==
    ASSUME NEW c, NEW o, Apart(c, o), Pressure = {c, o},
           NEW s \in SensorState, Levels(s, c, o), NEW t, t = update_open(s)
    PROVE  /\ Levels(t, c, o)
           /\ s.pressure = o => OneLess(StepsToOpen(s), StepsToOpen(t))
           /\ s.pressure = c => OneLess(StepsToClosed(s), StepsToClosed(t))
<1> DEFINE m == MovingAverage(s)
           g == get_open_iter(m)
<1>1. /\ m \in SensorState /\ m.pressure = s.pressure /\ m.is_open = s.is_open
      /\ m.strikes_closed = s.strikes_closed /\ m.average = Scaled(c)
      /\ ~s.is_open => m.window = Filled(c) /\ m.open_average = 0
      /\ s.is_open =>
            /\ AllButOne(m.window, o)
            /\ m.open_average = 0 => m.window = Filled(o) /\ ~Settled(s)
            /\ m.open_average # 0 => m.open_average >= 4 * o + c
  BY AveragesAtLevels
<1> HIDE DEF m
<1>2. IsHigh(m) <=> s.pressure = o
  BY <1>1, HighIsOpen
<1>3. /\ s.strikes_closed \in 0..5 /\ s.is_open \in BOOLEAN /\ s.pressure \in {c, o} /\ c # o
      /\ c \in Nat /\ o \in Nat
  BY ThresholdAssumption DEF SensorState, WINDOW_SIZE, Apart
<1>4. /\ g \in SensorState /\ g.pressure = m.pressure
      /\ g.window = m.window /\ g.average = m.average
      /\ g.open_average \in {0, m.open_average}
  BY <1>1, OpenIterEffect
<1>5. /\ g.open_average = IF ~IsHigh(m) /\ m.strikes_closed = 0 THEN 0 ELSE m.open_average
      /\ g.is_open = IF IsHigh(m) /\ m.strikes_closed = 5 THEN TRUE
                     ELSE IF ~IsHigh(m) /\ m.strikes_closed = 0 THEN FALSE ELSE m.is_open
      /\ g.strikes_closed = IF IsHigh(m)
                              THEN IF m.strikes_closed = 5 THEN 5 ELSE m.strikes_closed + 1
                              ELSE IF m.strikes_closed = 0 THEN 0 ELSE m.strikes_closed - 1
  <2>1. CASE IsHigh(m) /\ m.strikes_closed = 5
    <3>1. g = [m EXCEPT !.is_open = TRUE]
      BY <2>1 DEF get_open_iter, WINDOW_SIZE
    <3> QED
      BY <1>1, <2>1, <3>1 DEF SensorState
  <2>2. CASE IsHigh(m) /\ m.strikes_closed # 5
    <3>1. g = [m EXCEPT !.strikes_closed = @ + 1]
      BY <1>1, <1>3, <2>2 DEF get_open_iter, WINDOW_SIZE
    <3> QED
      BY <1>1, <2>2, <3>1 DEF SensorState
  <2>3. CASE ~IsHigh(m) /\ m.strikes_closed = 0
    <3>1. g = [m EXCEPT !.is_open = FALSE, !.open_average = 0]
      BY <2>3 DEF get_open_iter, WINDOW_SIZE
    <3>2. g.open_average = 0 /\ g.is_open = FALSE /\ g.strikes_closed = m.strikes_closed
      BY <1>1, <3>1 DEF SensorState
    <3> QED
      BY <2>3, <3>2
  <2>4. CASE ~IsHigh(m) /\ m.strikes_closed # 0
    <3>1. g = [m EXCEPT !.strikes_closed = @ - 1]
      BY <1>1, <1>3, <2>4 DEF get_open_iter, WINDOW_SIZE
    <3> QED
      BY <1>1, <2>4, <3>1 DEF SensorState
  <2> QED
    BY <2>1, <2>2, <2>3, <2>4
<1>6. t = [g EXCEPT !.window = IF g.is_open # s.is_open THEN Filled(s.pressure) ELSE @]
  BY DEF update_open, m
<1> HIDE DEF g
<1>7. /\ t.average = g.average /\ t.open_average = g.open_average /\ t.is_open = g.is_open
      /\ t.strikes_closed = g.strikes_closed
      /\ t.window = IF g.is_open # s.is_open THEN Filled(s.pressure) ELSE g.window
  BY <1>4, <1>6 DEF SensorState
<1>8. CASE s.pressure = o
  <2>1. /\ t.open_average = m.open_average /\ t.average = Scaled(c)
        /\ t.is_open = IF s.strikes_closed = 5 THEN TRUE ELSE s.is_open
        /\ t.strikes_closed = IF s.strikes_closed = 5 THEN 5 ELSE s.strikes_closed + 1
        /\ t.window = IF t.is_open # s.is_open THEN Filled(o) ELSE m.window
    BY <1>1, <1>2, <1>4, <1>5, <1>7, <1>8
  <2>2. Levels(t, c, o)
    BY <1>1, <1>3, <2>1, PushedFull DEF Levels
  <2>3. OneLess(StepsToOpen(s), StepsToOpen(t))
    BY <1>3, <2>1 DEF OneLess, StepsToOpen, WINDOW_SIZE
  <2> QED
    BY <1>3, <1>8, <2>2, <2>3
<1>9. CASE s.pressure = c
  <2>1. /\ t.open_average = (IF s.strikes_closed = 0 THEN 0 ELSE m.open_average)
        /\ t.average = Scaled(c)
        /\ t.is_open = (IF s.strikes_closed = 0 THEN FALSE ELSE s.is_open)
        /\ t.strikes_closed = (IF s.strikes_closed = 0 THEN 0 ELSE s.strikes_closed - 1)
        /\ t.window = IF t.is_open # s.is_open THEN Filled(c) ELSE m.window
    BY <1>1, <1>2, <1>3, <1>4, <1>5, <1>7, <1>9
  <2>2. Levels(t, c, o)
    BY <1>1, <1>3, <2>1, PushedFull DEF Levels
  <2>3. OneLess(StepsToClosed(s), StepsToClosed(t))
    BY <1>3, <2>1 DEF OneLess, StepsToClosed
  <2> QED
    BY <1>3, <1>9, <2>2, <2>3
<1> QED
  BY <1>3, <1>8, <1>9

\* A sensor calibrated to the closed door's pressure has read nothing else.
LEMMA CalibratedAtLevel ==
    ASSUME NEW c, NEW o, Apart(c, o), Pressure = {c, o}, Init, sensor.average = Scaled(c)
    PROVE  Levels(sensor, c, o)
<1>1. PICK w \in [Slot -> Pressure] : sensor = update_open(FreshSensor(w, w[WINDOW_SIZE]))
  BY DEF Init
<1> DEFINE s == FreshSensor(w, w[WINDOW_SIZE])
           u == Pushed(w, w[WINDOW_SIZE])
           m == MovingAverage(s)
<1>2. /\ s \in SensorState /\ Settled(s) /\ FollowsClosed(s) /\ s.window = w
      /\ s.pressure = w[WINDOW_SIZE] /\ s.strikes_closed = 0 /\ s.open_average = 0 /\ ~s.is_open
      /\ s.average = 0
  BY DEF FreshSensor, SensorState, Settled, FollowsClosed, Slot, WINDOW_SIZE
<1>3. u \in [Slot -> Pressure]
  BY PushedIsWindow DEF Slot, WINDOW_SIZE
<1> HIDE DEF s, u
<1>4. m = [s EXCEPT !.window = u, !.average = Sum(u)]
  BY <1>2 DEF MovingAverage, u
<1>5. /\ m.window = u /\ m.average = Sum(u) /\ m.open_average = 0 /\ ~m.is_open
      /\ m.strikes_closed = 0
  BY <1>2, <1>4 DEF SensorState
<1>6. m \in SensorState
  BY <1>2, MovingAverageEffect
<1> DEFINE g == get_open_iter(m)
<1> HIDE DEF m
<1>7. /\ g \in SensorState /\ g.window = m.window /\ g.average = m.average
      /\ g.open_average \in {0, m.open_average}
      /\ ~m.is_open /\ g.is_open => m.strikes_closed = WINDOW_SIZE
  BY <1>6, OpenIterEffect
<1>8. ~g.is_open /\ g.open_average = 0
  BY <1>5, <1>7 DEF WINDOW_SIZE
<1>9. sensor = [g EXCEPT !.window = IF g.is_open # s.is_open THEN Filled(s.pressure) ELSE @]
  BY <1>1 DEF update_open, m, s
<1> HIDE DEF g
<1>10. /\ sensor.window = u /\ sensor.average = Sum(u) /\ sensor.open_average = 0
       /\ ~sensor.is_open
  BY <1>2, <1>5, <1>7, <1>8, <1>9 DEF SensorState
<1>11. u = Filled(c)
  <2>1. c \in Nat /\ o \in Nat /\ c < o
    BY ThresholdAssumption DEF Apart
  <2>2. u[1] + u[2] + u[3] + u[4] + u[5] = 5 * c
    BY <1>10 DEF Sum, Scaled, WINDOW_SIZE
  <2>3. Slot = {1, 2, 3, 4, 5}
    BY DEF Slot, WINDOW_SIZE
  <2>4. /\ u[1] \in {c, o} /\ u[2] \in {c, o} /\ u[3] \in {c, o} /\ u[4] \in {c, o}
        /\ u[5] \in {c, o}
    BY <1>3, <2>3
  <2>5. u[1] = c /\ u[2] = c /\ u[3] = c /\ u[4] = c /\ u[5] = c
    BY <2>1, <2>2, <2>4
  <2> QED
    BY <1>3, <2>3, <2>5 DEF Filled
<1> QED
  BY <1>10, <1>11 DEF Levels

\* With a closed and an open door's pressure far enough apart, every reading at the one
\* or the other brings the report a reading nearer to it, whatever the door did before:
\* after six readings in a row the report is right and stays so (update_open and
\* get_open_iter).  A quarter more than the rise that opens is needed, for the open
\* average may hold one reading of the door closed (line 41): below it the report may
\* lock, as the run of MCDoorLock.cfg shows.
THEOREM ReportSettles ==
    ASSUME NEW c, NEW o, Apart(c, o), Pressure = {c, o}
    PROVE  Spec /\ sensor.average = Scaled(c) => [][Settling(c, o)]_vars
<1> DEFINE L == Levels(sensor, c, o)
<1>1. Init /\ sensor.average = Scaled(c) => L
  BY CalibratedAtLevel
<1>2. ASSUME IInv, L, Reading PROVE L' /\ Settling(c, o)
  <2> DEFINE s == [sensor EXCEPT !.pressure = rack]
  <2>1. sensor \in SensorState /\ rack \in Pressure /\ sensor' = update_open(s)
    BY <1>2 DEF IInv, TypeOK, Reading
  <2>2. /\ s \in SensorState /\ s.pressure = rack /\ s.average = sensor.average
        /\ s.open_average = sensor.open_average /\ s.is_open = sensor.is_open
        /\ s.strikes_closed = sensor.strikes_closed /\ s.window = sensor.window
    BY <2>1 DEF SensorState
  <2> HIDE DEF s
  <2>3. Levels(s, c, o)
    BY <1>2, <2>2 DEF Levels
  <2>4. /\ Levels(sensor', c, o)
        /\ s.pressure = o => OneLess(StepsToOpen(s), StepsToOpen(sensor'))
        /\ s.pressure = c => OneLess(StepsToClosed(s), StepsToClosed(sensor'))
    BY <2>1, <2>2, <2>3, UpdateAtLevels
  <2>5. StepsToOpen(s) = StepsToOpen(sensor) /\ StepsToClosed(s) = StepsToClosed(sensor)
    BY <2>2 DEF StepsToOpen, StepsToClosed
  <2> QED
    BY <2>2, <2>4, <2>5 DEF Settling, Levels
<1>3. ASSUME L, UNCHANGED sensor PROVE L'
  BY <1>3 DEF Levels
<1>4. IInv /\ L /\ [Next]_vars => L' /\ [Settling(c, o)]_vars
  <2> HIDE DEF L
  <2> SUFFICES ASSUME IInv, L, [Next]_vars PROVE L' /\ [Settling(c, o)]_vars
    OBVIOUS
  <2>1. CASE Reading
    BY <1>2, <2>1
  <2>2. CASE ~Reading
    <3>1. UNCHANGED sensor
      BY <2>2 DEF Next, RackChanges, vars
    <3> QED
      BY <1>3, <2>2, <3>1 DEF Settling
  <2> QED
    BY <2>1, <2>2
<1> HIDE DEF L
<1> QED
  BY <1>1, <1>4, Invariance, PTL DEF Spec
===============================================================================
