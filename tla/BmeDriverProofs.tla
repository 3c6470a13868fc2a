---------------------------- MODULE BmeDriverProofs ----------------------------
(***************************************************************************)
(* BmeDriver for every calibration, every settings and every way in which  *)
(* any number of a call's transfers may fail: the type invariant, and what *)
(* a call that reports success, or that fails, has done to the sensor.     *)
(***************************************************************************)
EXTENDS BmeDriver, TLAPS

-------------------------------------------------------------------------------
(* Bits and bytes. *)

\* Fields of one register do not disturb each other.
LEMMA ModeField ==
    ASSUME NEW r \in Byte, NEW d \in 0..3
    PROVE  /\ SetBits(r, 1, 4, d) \in Byte /\ GetBits(SetBits(r, 1, 4, d), 1, 4) = d
           /\ GetBits(SetBits(r, 1, 4, d), 4, 8) = GetBits(r, 4, 8)
           /\ GetBits(SetBits(r, 1, 4, d), 32, 8) = GetBits(r, 32, 8)
BY DEF SetBits, GetBits, Byte

LEMMA LowField ==
    ASSUME NEW r \in Byte, NEW d \in 0..7
    PROVE  /\ SetBits(r, 4, 8, d) \in Byte /\ GetBits(SetBits(r, 4, 8, d), 4, 8) = d
           /\ GetBits(SetBits(r, 4, 8, d), 1, 4) = GetBits(r, 1, 4)
           /\ GetBits(SetBits(r, 4, 8, d), 32, 8) = GetBits(r, 32, 8)
BY DEF SetBits, GetBits, Byte

LEMMA HighField ==
    ASSUME NEW r \in Byte, NEW d \in 0..7
    PROVE  /\ SetBits(r, 32, 8, d) \in Byte /\ GetBits(SetBits(r, 32, 8, d), 32, 8) = d
           /\ GetBits(SetBits(r, 32, 8, d), 1, 4) = GetBits(r, 1, 4)
           /\ GetBits(SetBits(r, 32, 8, d), 4, 8) = GetBits(r, 4, 8)
BY DEF SetBits, GetBits, Byte

LEMMA FieldType ==
    ASSUME NEW r \in Byte
    PROVE  /\ GetBits(r, 1, 4) \in 0..3 /\ GetBits(r, 1, 8) \in 0..7 /\ GetBits(r, 4, 8) \in 0..7
           /\ GetBits(r, 32, 8) \in 0..7 /\ (r \in 0..7 => GetBits(r, 1, 8) = r)
BY DEF GetBits, Byte

\* The reset state: asleep, every field 0.
LEMMA ZeroFields == GetBits(0, 1, 4) = 0 /\ GetBits(0, 4, 8) = 0 /\ GetBits(0, 32, 8) = 0
BY DEF GetBits

\* A calibration's numbers.
LEMMA TrimType ==
    ASSUME NEW t \in Trim
    PROVE  /\ t.dig_t1 \in Int /\ 0 <= t.dig_t1 /\ t.dig_t1 < 65536
           /\ t.dig_p2 \in Int /\ -32768 <= t.dig_p2 /\ t.dig_p2 < 32768
           /\ t.dig_h4 \in Int /\ -2048 <= t.dig_h4 /\ t.dig_h4 < 2048
           /\ t.dig_h5 \in Int /\ -2048 <= t.dig_h5 /\ t.dig_h5 < 2048
<1>1. /\ t.dig_t1 \in Unsigned(65536) /\ t.dig_p2 \in TwosComplement(65536)
      /\ t.dig_h4 \in TwosComplement(4096) /\ t.dig_h5 \in TwosComplement(4096)
  BY DEF Trim
<1>2. \A x \in Unsigned(65536) : x \in Int /\ 0 <= x /\ x < 65536
  BY DEF Unsigned
<1>3. \A x \in TwosComplement(65536) : x \in Int /\ -32768 <= x /\ x < 32768
  BY DEF TwosComplement
<1>4. \A x \in TwosComplement(4096) : x \in Int /\ -2048 <= x /\ x < 2048
  BY DEF TwosComplement
<1> QED BY <1>1, <1>2, <1>3, <1>4

-------------------------------------------------------------------------------
(* Worlds. *)

Chip == [id : Byte, trim : Trim, ctrl_hum : 0..7, ctrl_meas : Byte, config : Byte, osr_h : 0..7]
Dev == [chip_id : Byte, settings : [Setting -> 0..7], calib_data : Trim]
Results == {BME280_OK, BME280_E_DEV_NOT_FOUND, BME280_E_COMM_FAIL,
            BME280_E_NVM_COPY_FAILED, BME280_W_INVALID_OSR_MACRO}
Bytes == Seq(Byte) \cup [0..0 -> Byte] \cup [0..3 -> Byte] \cup [0..6 -> Byte] \cup [0..25 -> Byte]
Readable == {"CTRL_HUM", "CTRL_MEAS", "CONFIG", "TEMP_PRESS_CALIB", "HUMIDITY_CALIB"}
Register == Readable \cup {"CHIP_ID", "STATUS"}
Worlds == [chip : Chip, dev : Dev, rslt : Results, bytes : Bytes, n : Nat, lost : SUBSET Register,
           luck : Luck]

\* v comes after w in a call.
After(w, v) ==
    /\ w \in Worlds /\ v \in Worlds /\ v.luck = w.luck /\ v.n >= w.n /\ w.lost \subseteq v.lost
    /\ v.chip.id = w.chip.id /\ v.chip.trim = w.chip.trim

\* So far no read was another register's; none that the calibration depends on; nor
\* did a transfer fail.
Told(w) == w.lost = {}
Calm(w) == w.lost \cap {"STATUS", "TEMP_PRESS_CALIB", "HUMIDITY_CALIB"} = {}
Well(w) == Told(w) /\ w.luck.errors \cap 1..w.n = {} /\ w.luck.busy <= 5

LEMMA AfterAfter ==
    ASSUME NEW u, NEW w, NEW v, After(u, w), After(w, v) PROVE After(u, v)
BY DEF After, Worlds

\* What holds of the transfers so far held of the earlier ones.
LEMMA Earlier ==
    ASSUME NEW w, NEW v, After(w, v)
    PROVE  (Told(v) => Told(w)) /\ (Calm(v) => Calm(w)) /\ (Well(v) => Well(w))
BY DEF After, Worlds, Told, Calm, Well

LEMMA LuckType == ASSUME NEW l \in Luck
                  PROVE  l.errors \subseteq Nat /\ l.lost \in Nat /\ l.junk \in Byte /\ l.busy \in Nat
BY DriverAssumption

\* The registers lost so far.
LEMMA LostType ==
    ASSUME NEW w \in Worlds, NEW k \in Nat, NEW reg \in Register
    PROVE  /\ Lost(w, k, reg) \in SUBSET Register /\ w.lost \subseteq Lost(w, k, reg)
           /\ \A j \in 1..k : Lost(w, k, reg) = {} => w.n + j # w.luck.lost
<1>1. w.lost \in SUBSET Register /\ w.n \in Nat
  BY DEF Worlds
<1>2. \A j \in 1..k : w.n + j \in (w.n + 1)..(w.n + k)
  BY <1>1
<1> QED BY <1>1, <1>2 DEF Lost

-------------------------------------------------------------------------------
(* Transfers. *)

\* How many bytes are read of a register.
Length(reg) == CASE reg = "CTRL_HUM" -> 4 [] reg = "TEMP_PRESS_CALIB" -> 26
                 [] reg = "HUMIDITY_CALIB" -> 7 [] OTHER -> 1

LEMMA ContentsType ==
    ASSUME NEW c \in Chip, NEW reg \in Readable
    PROVE  Contents(c, reg) \in [0..(Length(reg) - 1) -> Byte]
<1>1. CASE reg \in {"CTRL_MEAS", "CONFIG"}
  <2>1. Contents(c, reg) = [b \in {0} |-> c.ctrl_meas] \/ Contents(c, reg) = [b \in {0} |-> c.config]
    BY <1>1 DEF Contents
  <2>2. Length(reg) - 1 = 0 /\ 0..0 = {0}
    BY <1>1 DEF Length
  <2> QED BY <2>1, <2>2 DEF Chip
<1>2. CASE reg = "CTRL_HUM"
  <2>1. Contents(c, reg) = [b \in 0..3 |-> <<c.ctrl_hum, 0, c.ctrl_meas, c.config>>[b + 1]]
    BY <1>2 DEF Contents
  <2>2. Length(reg) - 1 = 3
    BY <1>2 DEF Length
  <2>3. c.ctrl_hum \in Byte /\ 0 \in Byte /\ c.ctrl_meas \in Byte /\ c.config \in Byte
    BY DEF Chip, Byte
  <2>4. \A b \in 0..3 : <<c.ctrl_hum, 0, c.ctrl_meas, c.config>>[b + 1] \in Byte
    BY <2>3
  <2> QED BY <2>1, <2>2, <2>4
<1>3. CASE reg = "TEMP_PRESS_CALIB"
  <2> DEFINE f(b) == CASE b = 0 -> Low(c.trim.dig_t1) [] b = 1 -> High(c.trim.dig_t1)
                       [] b = 8 -> Low(c.trim.dig_p2) [] b = 9 -> High(c.trim.dig_p2)
                       [] OTHER -> 0
  <2>1. Contents(c, reg) = [b \in 0..25 |-> f(b)]
    BY <1>3 DEF Contents
  <2>2. Length(reg) - 1 = 25
    BY <1>3 DEF Length
  <2>3. \A b \in 0..25 : f(b) \in Byte
    <3>1. c.trim.dig_t1 \in Int /\ c.trim.dig_p2 \in Int
      BY TrimType DEF Chip
    <3>2. \A x \in Int : Low(x) \in Byte /\ High(x) \in Byte
      BY DEF Low, High, Byte
    <3>3. 0 \in Byte
      BY DEF Byte
    <3> QED BY <3>1, <3>2, <3>3
  <2> QED BY <2>1, <2>2, <2>3
<1>4. CASE reg = "HUMIDITY_CALIB"
  <2> DEFINE f(b) == CASE b = 3 -> Low(c.trim.dig_h4 \div 16)
                       [] b = 4 -> (c.trim.dig_h5 % 16) * 16 + (c.trim.dig_h4 % 16)
                       [] b = 5 -> Low(c.trim.dig_h5 \div 16) [] OTHER -> 0
  <2>1. Contents(c, reg) = [b \in 0..6 |-> f(b)]
    BY <1>4 DEF Contents
  <2>2. Length(reg) - 1 = 6
    BY <1>4 DEF Length
  <2>3. \A b \in 0..6 : f(b) \in Byte
    <3>1. /\ c.trim.dig_h4 \in Int /\ c.trim.dig_h5 \in Int
          /\ c.trim.dig_h4 \div 16 \in Int /\ c.trim.dig_h5 \div 16 \in Int
      BY TrimType DEF Chip
    <3>2. \A x \in Int : Low(x) \in Byte
      BY DEF Low, Byte
    <3>3. \A x, y \in Int : (x % 16) * 16 + (y % 16) \in Byte
      BY DEF Byte
    <3>4. 0 \in Byte
      BY DEF Byte
    <3> QED BY <3>1, <3>2, <3>3, <3>4
  <2> QED BY <2>1, <2>2, <2>3
<1> QED BY <1>1, <1>2, <1>3, <1>4 DEF Readable

\* bme280_get_regs.
LEMMA GetRegs ==
    ASSUME NEW w \in Worlds, NEW reg \in Readable, NEW v, v = bme280_get_regs(w, reg)
    PROVE  /\ After(w, v) /\ v.chip = w.chip /\ v.dev = w.dev
           /\ v.rslt \in {BME280_OK, BME280_E_COMM_FAIL} /\ (Well(v) => v.rslt = BME280_OK)
           /\ v.rslt = BME280_OK => \A b \in 0..(Length(reg) - 1) : v.bytes[b] \in Byte
           /\ v.rslt = BME280_OK /\ reg \notin v.lost => v.bytes = Contents(w.chip, reg)
           /\ v.rslt = BME280_OK /\ Told(v) => v.bytes = Contents(w.chip, reg)
<1>1. /\ w.n \in Nat /\ w.luck \in Luck /\ w.chip \in Chip /\ w.bytes \in Bytes
      /\ w.luck.errors \subseteq Nat /\ w.luck.lost \in Nat /\ w.luck.junk \in Byte
  BY LuckType DEF Worlds
<1>2. Outcome(w) \in {BME280_OK, BME280_E_COMM_FAIL} /\ Outcome(w) \in Results
  BY DEF Outcome, Results
<1>3. Contents(w.chip, reg) \in [0..(Length(reg) - 1) -> Byte] /\ Length(reg) - 1 \in 0..25
      /\ Length(reg) \in {1, 4, 7, 26}
  BY <1>1, ContentsType DEF Length
<1>4. [b \in 0..25 |-> w.luck.junk] \in [0..25 -> Byte]
  BY <1>1
<1>5. Contents(w.chip, reg) \in Bytes
  BY <1>3 DEF Bytes
<1> DEFINE bytes == IF Outcome(w) # BME280_OK THEN w.bytes
                    ELSE IF w.n + 1 = w.luck.lost THEN [b \in 0..25 |-> w.luck.junk]
                    ELSE Contents(w.chip, reg)
<1>6. bytes \in Bytes
  BY <1>1, <1>4, <1>5 DEF Bytes
<1> DEFINE lost == Lost(w, 1, reg)
<1>a. lost \in SUBSET Register /\ w.lost \subseteq lost
  BY LostType DEF Register
<1>b. w.n + 1 = w.luck.lost => reg \in lost
  BY <1>1 DEF Lost
<1> HIDE DEF lost
<1>7. /\ v.chip = w.chip /\ v.dev = w.dev /\ v.rslt = Outcome(w) /\ v.n = w.n + 1 /\ v.luck = w.luck
      /\ v.bytes = bytes /\ v.lost = lost /\ v \in Worlds
  <2>1. v = [w EXCEPT !.n = w.n + 1, !.rslt = Outcome(w), !.lost = lost, !.bytes = bytes]
    BY DEF bme280_get_regs, lost
  <2> HIDE DEF bytes
  <2>2. v = [chip |-> w.chip, dev |-> w.dev, rslt |-> Outcome(w), bytes |-> bytes, n |-> w.n + 1,
             lost |-> lost, luck |-> w.luck]
    BY <2>1 DEF Worlds
  <2>3. w.dev \in Dev /\ w.n + 1 \in Nat
    BY <1>1 DEF Worlds
  <2> QED BY <1>1, <1>2, <1>6, <1>a, <2>2, <2>3 DEF Worlds
<1>8. After(w, v)
  BY <1>1, <1>7, <1>a DEF After
<1>9. Well(v) => v.rslt = BME280_OK
  BY <1>1, <1>7 DEF Well, Outcome
<1>10. v.rslt = BME280_OK => \A b \in 0..(Length(reg) - 1) : v.bytes[b] \in Byte
  <2> SUFFICES ASSUME v.rslt = BME280_OK, NEW b \in 0..(Length(reg) - 1) PROVE v.bytes[b] \in Byte
    OBVIOUS
  <2>1. b \in 0..25
    BY <1>3
  <2>2. CASE w.n + 1 = w.luck.lost
    BY <1>4, <1>7, <2>1, <2>2
  <2>3. CASE w.n + 1 # w.luck.lost
    BY <1>3, <1>7, <2>3
  <2> QED BY <2>2, <2>3
<1>11. v.rslt = BME280_OK /\ reg \notin v.lost => v.bytes = Contents(w.chip, reg)
  BY <1>7, <1>b
<1> QED BY <1>2, <1>7, <1>8, <1>9, <1>10, <1>11 DEF Told

\* What a write makes of the sensor.
LEMMA WrittenType ==
    ASSUME NEW c \in Chip, NEW reg \in {"RESET", "CTRL_HUM", "CTRL_MEAS", "CONFIG"}, NEW byte \in Byte,
           reg = "CTRL_HUM" => byte \in 0..7
    PROVE  Written(c, reg, byte) \in Chip /\ Written(c, reg, byte).id = c.id
           /\ Written(c, reg, byte).trim = c.trim
<1>1. 0 \in 0..7 /\ 0 \in Byte
  BY DEF Byte
<1>2. CASE reg = "RESET"
  BY <1>1, <1>2 DEF Written, Reset, WithRegisters, Chip
<1>3. CASE reg = "CTRL_HUM"
  BY <1>3 DEF Written, Chip
<1>4. CASE reg = "CTRL_MEAS"
  BY <1>4 DEF Written, Chip
<1>5. CASE reg = "CONFIG"
  BY <1>5 DEF Written, Chip
<1> QED BY <1>2, <1>3, <1>4, <1>5

\* bme280_set_regs.
LEMMA SetRegs ==
    ASSUME NEW w \in Worlds, NEW reg \in {"RESET", "CTRL_HUM", "CTRL_MEAS", "CONFIG"},
           NEW byte \in Byte, reg = "CTRL_HUM" => byte \in 0..7,
           NEW v, v = bme280_set_regs(w, reg, byte)
    PROVE  /\ After(w, v) /\ v.dev = w.dev /\ v.n = w.n + 1
           /\ v.rslt \in {BME280_OK, BME280_E_COMM_FAIL} /\ (Well(v) => v.rslt = BME280_OK)
           /\ v.rslt = BME280_OK => v.chip = Written(w.chip, reg, byte)
           /\ v.rslt # BME280_OK => v.chip = w.chip
<1>1. w.n \in Nat /\ w.luck \in Luck /\ w.chip \in Chip /\ w.luck.errors \subseteq Nat
  BY LuckType DEF Worlds
<1>2. Outcome(w) \in {BME280_OK, BME280_E_COMM_FAIL} /\ Outcome(w) \in Results
  BY DEF Outcome, Results
<1> DEFINE c == IF Outcome(w) = BME280_OK THEN Written(w.chip, reg, byte) ELSE w.chip
<1>3. c \in Chip /\ c.id = w.chip.id /\ c.trim = w.chip.trim
  BY <1>1, WrittenType
<1>4. /\ v.chip = c /\ v.dev = w.dev /\ v.rslt = Outcome(w) /\ v.n = w.n + 1 /\ v.luck = w.luck
      /\ v.lost = w.lost /\ v \in Worlds
  <2>1. v = [w EXCEPT !.n = w.n + 1, !.rslt = Outcome(w), !.chip = c]
    BY DEF bme280_set_regs
  <2> HIDE DEF c
  <2>2. v = [chip |-> c, dev |-> w.dev, rslt |-> Outcome(w), bytes |-> w.bytes, n |-> w.n + 1,
             lost |-> w.lost, luck |-> w.luck]
    BY <2>1 DEF Worlds
  <2>3. w.dev \in Dev /\ w.n + 1 \in Nat /\ w.bytes \in Bytes /\ w.lost \in SUBSET Register
    BY <1>1 DEF Worlds
  <2> QED BY <1>1, <1>2, <1>3, <2>2, <2>3 DEF Worlds
<1>5. After(w, v)
  BY <1>1, <1>3, <1>4 DEF After
<1>6. Well(v) => v.rslt = BME280_OK
  BY <1>1, <1>4 DEF Well, Outcome
<1> QED BY <1>2, <1>4, <1>5, <1>6

-------------------------------------------------------------------------------
(* Reset and calibration. *)

\* bme280_soft_reset: the reset itself is done as soon as it is
\* sent, whatever comes of waiting for its end.
LEMMA SoftReset ==
    ASSUME NEW w \in Worlds, NEW v, v = bme280_soft_reset(w)
    PROVE  /\ After(w, v) /\ v.dev = w.dev /\ (Well(v) => v.rslt = BME280_OK)
           /\ v.rslt = BME280_OK => v.chip = Reset(w.chip)
           /\ v.chip = w.chip \/ v.chip = Reset(w.chip)
<1> DEFINE sent == bme280_set_regs(w, "RESET", 182)
           Fails(k) == sent.n + k \in w.luck.errors
           Updating(k) == IF sent.n + k = w.luck.lost THEN w.luck.junk % 2 = 1 ELSE k <= w.luck.busy
           IsLast(k) == /\ k = 6 \/ Fails(k) \/ ~Updating(k)
                        /\ \A m \in 1..(k - 1) : ~Fails(m) /\ Updating(m)
           last == CHOOSE k \in 1..6 : IsLast(k)
           im_update == IF Fails(last) THEN last > 1 ELSE Updating(last)
           rslt == IF im_update THEN BME280_E_NVM_COPY_FAILED
                   ELSE IF Fails(last) THEN BME280_E_COMM_FAIL ELSE BME280_OK
<1>1. /\ After(w, sent) /\ sent.dev = w.dev /\ sent.n = w.n + 1
      /\ sent.rslt = BME280_OK => sent.chip = Reset(w.chip)
      /\ sent.rslt # BME280_OK => sent.chip = w.chip
      /\ Well(sent) => sent.rslt = BME280_OK
  <2>1. 182 \in Byte
    BY DEF Byte
  <2>2. Written(w.chip, "RESET", 182) = Reset(w.chip)
    BY DEF Written
  <2> QED BY <2>1, <2>2, SetRegs
<1>2. last \in 1..6 /\ IsLast(last)
  <2>1. \E k \in 1..6 : IsLast(k)
    <3> DEFINE Ends(k) == k = 6 \/ Fails(k) \/ ~Updating(k)
    <3>0. Ends(6)
      OBVIOUS
    <3>1. \A k \in 1..6 : Ends(k) /\ (\A m \in 1..(k - 1) : ~Ends(m)) => IsLast(k)
      OBVIOUS
    <3> HIDE DEF Ends, IsLast
    <3>2. CASE Ends(1)
      BY <3>1, <3>2
    <3>3. CASE ~Ends(1) /\ Ends(2)
      BY <3>1, <3>3
    <3>4. CASE ~Ends(1) /\ ~Ends(2) /\ Ends(3)
      BY <3>1, <3>4
    <3>5. CASE ~Ends(1) /\ ~Ends(2) /\ ~Ends(3) /\ Ends(4)
      BY <3>1, <3>5
    <3>6. CASE ~Ends(1) /\ ~Ends(2) /\ ~Ends(3) /\ ~Ends(4) /\ Ends(5)
      BY <3>1, <3>6
    <3>7. CASE ~Ends(1) /\ ~Ends(2) /\ ~Ends(3) /\ ~Ends(4) /\ ~Ends(5)
      BY <3>0, <3>1, <3>7
    <3> QED BY <3>2, <3>3, <3>4, <3>5, <3>6, <3>7
  <2> HIDE DEF IsLast
  <2> QED BY <2>1
<1> DEFINE lost == Lost(sent, last, "STATUS")
<1>3. v = IF sent.rslt # BME280_OK THEN sent
          ELSE [sent EXCEPT !.n = @ + last, !.lost = lost, !.rslt = rslt]
  BY DEF bme280_soft_reset
<1>5. /\ lost \in SUBSET Register /\ sent.lost \subseteq lost
      /\ lost = {} => sent.n + last # sent.luck.lost
  <2>1. sent \in Worlds /\ last \in Nat /\ last \in 1..last /\ "STATUS" \in Register
    <3> HIDE DEF sent, last
    <3>1. sent \in Worlds /\ "STATUS" \in Register
      BY <1>1 DEF After, Register
    <3>2. last \in Nat /\ last \in 1..last
      BY <1>2
    <3> QED BY <3>1, <3>2
  <2> HIDE DEF sent, last
  <2> QED BY <2>1, LostType
<1>4. rslt \in Results
  BY DEF Results
<1>6. CASE sent.rslt # BME280_OK
  BY <1>1, <1>3, <1>6
<1>7. CASE sent.rslt = BME280_OK
  <2>1. sent \in Worlds /\ sent.n \in Nat /\ w.n \in Nat /\ sent.luck = w.luck /\ w.luck \in Luck
    BY <1>1 DEF After, Worlds
  <2>2. /\ v \in Worlds /\ v.n = sent.n + last /\ v.rslt = rslt /\ v.chip = sent.chip
        /\ v.dev = sent.dev /\ v.luck = sent.luck /\ v.lost = lost
    <3> HIDE DEF sent, last, rslt, lost
    <3>1. v = [chip |-> sent.chip, dev |-> sent.dev, rslt |-> rslt, bytes |-> sent.bytes,
               n |-> sent.n + last, lost |-> lost, luck |-> sent.luck]
      BY <1>3, <1>7, <2>1 DEF Worlds
    <3>2. /\ sent.n + last \in Nat /\ sent.chip \in Chip /\ sent.dev \in Dev /\ sent.bytes \in Bytes
          /\ sent.luck \in Luck
      BY <1>2, <2>1 DEF Worlds
    <3> QED BY <1>4, <1>5, <3>1, <3>2 DEF Worlds
  <2>3. After(w, v)
    <3> HIDE DEF sent, last, rslt, lost
    <3> QED BY <1>1, <1>2, <1>5, <2>1, <2>2 DEF After
  <2>4. Well(v) => v.rslt = BME280_OK
    <3> SUFFICES ASSUME Well(v) PROVE rslt = BME280_OK
      BY <2>2
    <3> HIDE DEF sent, last, lost
    <3>1. /\ w.luck.busy \in Nat /\ w.luck.busy <= 5 /\ w.luck.lost \in Nat
          /\ w.luck.errors \subseteq Nat
          /\ w.luck.errors \cap 1..(sent.n + last) = {}
      BY <2>1, <2>2, LuckType DEF Well
    <3>2. ~Fails(last)
      BY <1>2, <2>1, <3>1
    <3>3. ~Updating(last)
      <4>1. sent.n + last # w.luck.lost
        BY <1>5, <2>1, <2>2 DEF Well, Told
      <4>2. last = 6 => ~(last <= w.luck.busy)
        BY <3>1
      <4> QED BY <1>2, <3>2, <4>1, <4>2
    <3> QED BY <3>2, <3>3
  <2> QED BY <1>1, <1>7, <2>2, <2>3, <2>4
<1> QED BY <1>6, <1>7

\* What is parsed of any bytes is a calibration.
LEMMA ParseType ==
    ASSUME NEW calib \in Trim, NEW bytes
    PROVE  /\ (\A b \in 0..25 : bytes[b] \in Byte) => parse_temp_press_calib_data(bytes, calib) \in Trim
           /\ (\A b \in 0..6 : bytes[b] \in Byte) => parse_humidity_calib_data(bytes, calib) \in Trim
<1>1. \A x, y \in Byte : /\ BME280_CONCAT_BYTES(x, y) \in Unsigned(65536)
                         /\ Signed(BME280_CONCAT_BYTES(x, y), 65536) \in TwosComplement(65536)
  <2> SUFFICES ASSUME NEW x \in Byte, NEW y \in Byte
               PROVE  /\ BME280_CONCAT_BYTES(x, y) \in Unsigned(65536)
                      /\ Signed(BME280_CONCAT_BYTES(x, y), 65536) \in TwosComplement(65536)
    OBVIOUS
  <2> DEFINE z == BME280_CONCAT_BYTES(x, y)
  <2>1. z \in Int /\ 0 <= z /\ z <= 65536 - 1
    BY DEF Byte, BME280_CONCAT_BYTES
  <2> HIDE DEF z
  <2>2. z \in Unsigned(65536)
    BY <2>1 DEF Unsigned
  <2>3. Signed(z, 65536) \in TwosComplement(65536)
    BY <2>1 DEF Signed, TwosComplement
  <2> QED BY <2>2, <2>3 DEF z
<1>2. \A x, y \in Byte : /\ Signed(x, 256) * 16 + (y % 16) \in TwosComplement(4096)
                         /\ Signed(x, 256) * 16 + (y \div 16) \in TwosComplement(4096)
  BY DEF Byte, Signed, TwosComplement
<1>3. ASSUME \A b \in 0..25 : bytes[b] \in Byte PROVE parse_temp_press_calib_data(bytes, calib) \in Trim
  <2>1. bytes[0] \in Byte /\ bytes[1] \in Byte /\ bytes[8] \in Byte /\ bytes[9] \in Byte
    BY <1>3
  <2>2. /\ BME280_CONCAT_BYTES(bytes[1], bytes[0]) \in Unsigned(65536)
        /\ Signed(BME280_CONCAT_BYTES(bytes[9], bytes[8]), 65536) \in TwosComplement(65536)
    BY <1>1, <2>1
  <2> DEFINE x == BME280_CONCAT_BYTES(bytes[1], bytes[0])
             y == Signed(BME280_CONCAT_BYTES(bytes[9], bytes[8]), 65536)
  <2>3. parse_temp_press_calib_data(bytes, calib)
            = [dig_t1 |-> x, dig_p2 |-> y, dig_h4 |-> calib.dig_h4, dig_h5 |-> calib.dig_h5]
    BY DEF parse_temp_press_calib_data
  <2>4. x \in Unsigned(65536) /\ y \in TwosComplement(65536)
    BY <2>2
  <2> HIDE DEF x, y
  <2> QED BY <2>3, <2>4 DEF Trim
<1>4. ASSUME \A b \in 0..6 : bytes[b] \in Byte PROVE parse_humidity_calib_data(bytes, calib) \in Trim
  <2>1. bytes[3] \in Byte /\ bytes[4] \in Byte /\ bytes[5] \in Byte
    BY <1>4
  <2>2. /\ Signed(bytes[3], 256) * 16 + (bytes[4] % 16) \in TwosComplement(4096)
        /\ Signed(bytes[5], 256) * 16 + (bytes[4] \div 16) \in TwosComplement(4096)
    BY <1>2, <2>1
  <2> DEFINE x == Signed(bytes[3], 256) * 16 + (bytes[4] % 16)
             y == Signed(bytes[5], 256) * 16 + (bytes[4] \div 16)
  <2>3. parse_humidity_calib_data(bytes, calib)
            = [dig_t1 |-> calib.dig_t1, dig_p2 |-> calib.dig_p2, dig_h4 |-> x, dig_h5 |-> y]
    BY DEF parse_humidity_calib_data
  <2>4. x \in TwosComplement(4096) /\ y \in TwosComplement(4096)
    BY <2>2
  <2> HIDE DEF x, y
  <2> QED BY <2>3, <2>4 DEF Trim
<1> QED BY <1>3, <1>4

\* What is parsed of a sensor's registers is its calibration, signs, nibbles and all.
LEMMA ParseTempPress ==
    ASSUME NEW c \in Chip, NEW calib \in Trim,
           NEW t, t = parse_temp_press_calib_data(Contents(c, "TEMP_PRESS_CALIB"), calib)
    PROVE  /\ t.dig_t1 = c.trim.dig_t1 /\ t.dig_p2 = c.trim.dig_p2
           /\ t.dig_h4 = calib.dig_h4 /\ t.dig_h5 = calib.dig_h5
<1> DEFINE bytes == Contents(c, "TEMP_PRESS_CALIB")
<1>1. /\ bytes[0] = Low(c.trim.dig_t1) /\ bytes[1] = High(c.trim.dig_t1)
      /\ bytes[8] = Low(c.trim.dig_p2) /\ bytes[9] = High(c.trim.dig_p2)
  BY DEF Contents
<1> HIDE DEF bytes
<1>2. c.trim \in Trim
  BY DEF Chip
<1> DEFINE x == c.trim.dig_t1
           y == c.trim.dig_p2
<1>a. x \in Int /\ 0 <= x /\ x < 65536 /\ y \in Int /\ -32768 <= y /\ y < 32768
  BY <1>2, TrimType
<1> HIDE DEF x, y
<1>3. BME280_CONCAT_BYTES(High(x), Low(x)) = x
  BY <1>a DEF BME280_CONCAT_BYTES, Low, High
<1>4. Signed(BME280_CONCAT_BYTES(High(y), Low(y)), 65536) = y
  BY <1>a DEF BME280_CONCAT_BYTES, Low, High, Signed
<1>5. t = [dig_t1 |-> BME280_CONCAT_BYTES(bytes[1], bytes[0]),
           dig_p2 |-> Signed(BME280_CONCAT_BYTES(bytes[9], bytes[8]), 65536),
           dig_h4 |-> calib.dig_h4, dig_h5 |-> calib.dig_h5]
  BY DEF parse_temp_press_calib_data, bytes
<1>6. bytes[0] = Low(x) /\ bytes[1] = High(x) /\ bytes[8] = Low(y) /\ bytes[9] = High(y)
  BY <1>1 DEF x, y
<1>7. t = [dig_t1 |-> x, dig_p2 |-> y, dig_h4 |-> calib.dig_h4, dig_h5 |-> calib.dig_h5]
  BY <1>3, <1>4, <1>5, <1>6
<1> QED BY <1>7 DEF x, y

LEMMA ParseHumidity ==
    ASSUME NEW c \in Chip, NEW calib \in Trim,
           NEW t, t = parse_humidity_calib_data(Contents(c, "HUMIDITY_CALIB"), calib)
    PROVE  /\ t.dig_t1 = calib.dig_t1 /\ t.dig_p2 = calib.dig_p2
           /\ t.dig_h4 = c.trim.dig_h4 /\ t.dig_h5 = c.trim.dig_h5
<1> DEFINE bytes == Contents(c, "HUMIDITY_CALIB")
<1>1. /\ bytes[3] = Low(c.trim.dig_h4 \div 16) /\ bytes[5] = Low(c.trim.dig_h5 \div 16)
      /\ bytes[4] = (c.trim.dig_h5 % 16) * 16 + (c.trim.dig_h4 % 16)
  BY DEF Contents
<1> HIDE DEF bytes
<1>2. c.trim \in Trim
  BY DEF Chip
<1> DEFINE x == c.trim.dig_h4
           y == c.trim.dig_h5
<1>a. x \in Int /\ -2048 <= x /\ x < 2048 /\ y \in Int /\ -2048 <= y /\ y < 2048
  BY <1>2, TrimType
<1>b. bytes[3] = Low(x \div 16) /\ bytes[5] = Low(y \div 16) /\ bytes[4] = (y % 16) * 16 + (x % 16)
  BY <1>1
<1> HIDE DEF x, y
<1>3. ((y % 16) * 16 + (x % 16)) % 16 = x % 16 /\ ((y % 16) * 16 + (x % 16)) \div 16 = y % 16
  BY <1>a
<1>4. \A z \in Int : -2048 <= z /\ z < 2048 => Signed(Low(z \div 16), 256) * 16 + (z % 16) = z
  BY DEF Low, Signed
<1>5. t = [dig_t1 |-> calib.dig_t1, dig_p2 |-> calib.dig_p2,
           dig_h4 |-> Signed(bytes[3], 256) * 16 + (bytes[4] % 16),
           dig_h5 |-> Signed(bytes[5], 256) * 16 + (bytes[4] \div 16)]
  BY DEF parse_humidity_calib_data, bytes
<1>6. t = [dig_t1 |-> calib.dig_t1, dig_p2 |-> calib.dig_p2, dig_h4 |-> x, dig_h5 |-> y]
  <2>1. bytes[4] % 16 = x % 16 /\ bytes[4] \div 16 = y % 16
    BY <1>b, <1>3
  <2>2. /\ Signed(Low(x \div 16), 256) * 16 + (x % 16) = x
        /\ Signed(Low(y \div 16), 256) * 16 + (y % 16) = y
    BY <1>a, <1>4
  <2> QED BY <1>b, <1>5, <2>1, <2>2
<1> QED BY <1>6 DEF x, y

\* A world with another calibration in the device structure.
Calibrated(w, t) == [w EXCEPT !.dev.calib_data = t]

LEMMA WithCalib ==
    ASSUME NEW w \in Worlds, NEW t \in Trim, NEW v, v = Calibrated(w, t)
    PROVE  /\ After(w, v) /\ v.chip = w.chip /\ v.rslt = w.rslt /\ v.n = w.n
           /\ v.dev.settings = w.dev.settings /\ v.dev.calib_data = t
<1>1. w.dev \in Dev /\ w.n \in Nat
  BY DEF Worlds
<1> DEFINE d == [w.dev EXCEPT !.calib_data = t]
<1>2. d \in Dev /\ d.settings = w.dev.settings /\ d.calib_data = t
  BY <1>1 DEF Dev
<1>3. v = [w EXCEPT !.dev = d]
  BY DEF Worlds, Calibrated
<1> HIDE DEF d
<1>4. /\ v \in Worlds /\ v.dev = d /\ v.chip = w.chip /\ v.rslt = w.rslt /\ v.n = w.n
      /\ v.lost = w.lost /\ v.luck = w.luck
  BY <1>2, <1>3 DEF Worlds
<1> QED BY <1>1, <1>2, <1>4 DEF After

\* get_calib_data.
LEMMA CalibData ==
    ASSUME NEW w \in Worlds, NEW v, v = get_calib_data(w)
    PROVE  /\ After(w, v) /\ v.chip = w.chip /\ v.dev.settings = w.dev.settings
           /\ (Well(v) => v.rslt = BME280_OK)
           /\ v.rslt = BME280_OK /\ Calm(v) => v.dev.calib_data = w.chip.trim
<1> DEFINE a == bme280_get_regs(w, "TEMP_PRESS_CALIB")
           at == parse_temp_press_calib_data(a.bytes, a.dev.calib_data)
           half == [a EXCEPT !.dev.calib_data = at]
           b == bme280_get_regs(half, "HUMIDITY_CALIB")
           bt == parse_humidity_calib_data(b.bytes, b.dev.calib_data)
           c == [b EXCEPT !.dev.calib_data = bt]
<1>1. v = IF a.rslt = BME280_OK THEN IF b.rslt = BME280_OK THEN c ELSE b ELSE a
  BY DEF get_calib_data, Then
<1>5. half = Calibrated(a, at) /\ c = Calibrated(b, bt)
  BY DEF Calibrated
<1>2. /\ After(w, a) /\ a.chip = w.chip /\ a.dev = w.dev /\ (Well(a) => a.rslt = BME280_OK)
      /\ a.rslt = BME280_OK => \A k \in 0..25 : a.bytes[k] \in Byte
      /\ a.rslt = BME280_OK /\ Calm(a) => a.bytes = Contents(w.chip, "TEMP_PRESS_CALIB")
  BY GetRegs DEF Readable, Length, Calm
<1> HIDE DEF a
<1>3. CASE a.rslt # BME280_OK
  BY <1>1, <1>2, <1>3
<1>4. CASE a.rslt = BME280_OK
  <2>1. a \in Worlds /\ a.dev \in Dev /\ a.dev.calib_data \in Trim /\ w.chip \in Chip
    BY <1>2 DEF After, Worlds, Dev
  <2>2. at \in Trim
    BY <1>2, <1>4, <2>1, ParseType
  <2> HIDE DEF at, half
  <2>3. /\ After(a, half) /\ half.chip = a.chip /\ half.dev.settings = a.dev.settings
        /\ half.dev.calib_data = at
    BY <1>5, <2>1, <2>2, WithCalib
  <2>4. half \in Worlds
    BY <2>3 DEF After
  <2>5. /\ After(half, b) /\ b.chip = half.chip /\ b.dev = half.dev /\ (Well(b) => b.rslt = BME280_OK)
        /\ b.rslt = BME280_OK => \A k \in 0..6 : b.bytes[k] \in Byte
        /\ b.rslt = BME280_OK /\ Calm(b) => b.bytes = Contents(half.chip, "HUMIDITY_CALIB")
    BY <2>4, GetRegs DEF Readable, Length, Calm
  <2> HIDE DEF b
  <2>6. After(a, b) /\ After(w, b)
    BY <1>2, <2>3, <2>5, AfterAfter
  <2>7. CASE b.rslt # BME280_OK
    BY <1>1, <1>2, <1>4, <2>3, <2>5, <2>6, <2>7
  <2>8. CASE b.rslt = BME280_OK
    <3>1. b \in Worlds /\ bt \in Trim
      BY <2>2, <2>3, <2>5, <2>8, ParseType DEF After
    <3> HIDE DEF bt, c
    <3>2. /\ After(b, c) /\ c.chip = b.chip /\ c.dev.settings = b.dev.settings
          /\ c.dev.calib_data = bt /\ c.rslt = b.rslt
      BY <1>5, <3>1, WithCalib
    <3>3. v = c /\ After(w, c)
      BY <1>1, <1>4, <2>6, <2>8, <3>2, AfterAfter
    <3>4. ASSUME Calm(c) PROVE bt = w.chip.trim
      <4>1. Calm(a) /\ Calm(b)
        BY <2>6, <3>2, <3>4, Earlier
      <4>2. at.dig_t1 = w.chip.trim.dig_t1 /\ at.dig_p2 = w.chip.trim.dig_p2
        BY <1>2, <1>4, <2>1, <4>1, ParseTempPress DEF at
      <4>3. /\ bt.dig_t1 = at.dig_t1 /\ bt.dig_p2 = at.dig_p2
            /\ bt.dig_h4 = w.chip.trim.dig_h4 /\ bt.dig_h5 = w.chip.trim.dig_h5
        BY <1>2, <2>1, <2>2, <2>3, <2>5, <2>8, <4>1, ParseHumidity DEF bt
      <4>4. w.chip.trim \in Trim
        BY <2>1 DEF Chip
      <4> QED BY <3>1, <4>2, <4>3, <4>4 DEF Trim
    <3> QED BY <1>2, <2>3, <2>5, <2>8, <3>2, <3>3, <3>4
  <2> QED BY <2>7, <2>8
<1> QED BY <1>3, <1>4

\* bme280_init: five tries to read the id, a reset, the calibration.
LEMMA InitEffect ==
    ASSUME NEW w \in Worlds, NEW v, v = bme280_init(w)
    PROVE  /\ After(w, v) /\ v.dev.settings = w.dev.settings
           /\ v.chip = w.chip \/ v.chip = Reset(w.chip)
           /\ v.rslt = BME280_OK => v.chip = Reset(w.chip)
           /\ v.rslt = BME280_OK /\ Calm(v) => v.dev.calib_data = w.chip.trim
           /\ Well(v) /\ w.chip.id \in {BME280_CHIP_ID, BMP280_CHIP_ID} => v.rslt = BME280_OK
<1> DEFINE Id(k) == IF w.n + k = w.luck.lost THEN w.luck.junk ELSE w.chip.id
           known == {k \in 1..5 : w.n + k \notin w.luck.errors
                                    /\ Id(k) \in {BME280_CHIP_ID, BMP280_CHIP_ID}}
           first == CHOOSE k \in known : \A m \in known : k <= m
           none == [w EXCEPT !.n = @ + 5, !.lost = Lost(w, 5, "CHIP_ID"),
                             !.rslt = BME280_E_DEV_NOT_FOUND]
           a == [w EXCEPT !.n = @ + first, !.lost = Lost(w, first, "CHIP_ID"),
                          !.dev.chip_id = Id(first)]
           b == bme280_soft_reset(a)
           c == get_calib_data(b)
<1>1. v = IF known = {} THEN none ELSE IF b.rslt = BME280_OK THEN c ELSE b
  BY DEF bme280_init, Then
<1>2. /\ w.n \in Nat /\ w.luck \in Luck /\ w.dev \in Dev /\ w.chip \in Chip /\ w.bytes \in Bytes
      /\ w.luck.lost \in Nat /\ w.luck.junk \in Byte
  BY LuckType DEF Worlds
<1>3. CASE known = {}
  <2>1. v = [chip |-> w.chip, dev |-> w.dev, rslt |-> BME280_E_DEV_NOT_FOUND, bytes |-> w.bytes,
             n |-> w.n + 5, lost |-> Lost(w, 5, "CHIP_ID"), luck |-> w.luck]
    BY <1>1, <1>3 DEF Worlds
  <2>2. BME280_E_DEV_NOT_FOUND \in Results /\ w.n + 5 \in Nat /\ w.n + 5 >= w.n
    BY <1>2 DEF Results
  <2>a. /\ Lost(w, 5, "CHIP_ID") \in SUBSET Register /\ w.lost \subseteq Lost(w, 5, "CHIP_ID")
        /\ Lost(w, 5, "CHIP_ID") = {} => w.n + 1 # w.luck.lost
    <3>1. 5 \in Nat /\ 1 \in 1..5 /\ "CHIP_ID" \in Register
      BY DEF Register
    <3> QED BY <3>1, LostType
  <2>3. /\ v \in Worlds /\ v.chip = w.chip /\ v.dev = w.dev /\ v.luck = w.luck /\ v.n = w.n + 5
        /\ v.lost = Lost(w, 5, "CHIP_ID") /\ v.rslt # BME280_OK
    BY <1>2, <2>1, <2>2, <2>a DEF Worlds, BME280_E_DEV_NOT_FOUND, BME280_OK
  <2>4. ~Well(v) \/ w.chip.id \notin {BME280_CHIP_ID, BMP280_CHIP_ID}
    <3> SUFFICES ASSUME Well(v), w.chip.id \in {BME280_CHIP_ID, BMP280_CHIP_ID} PROVE FALSE
      OBVIOUS
    <3>1. w.n + 1 \notin w.luck.errors /\ w.n + 1 # w.luck.lost
      BY <1>2, <2>3, <2>a DEF Well, Told
    <3>2. 1 \in known
      BY <3>1
    <3> QED BY <1>3, <3>2
  <2> QED BY <2>2, <2>3, <2>4, <2>a DEF After
<1>4. CASE known # {}
  <2>1. first \in known
    <3>1. \E k \in known : \A m \in known : k <= m
      <4>1. known \subseteq 1..5
        OBVIOUS
      <4> HIDE DEF known
      <4>2. CASE 1 \in known
        BY <4>1, <4>2
      <4>3. CASE 1 \notin known /\ 2 \in known
        BY <4>1, <4>3
      <4>4. CASE 1 \notin known /\ 2 \notin known /\ 3 \in known
        BY <4>1, <4>4
      <4>5. CASE 1 \notin known /\ 2 \notin known /\ 3 \notin known /\ 4 \in known
        BY <4>1, <4>5
      <4>6. CASE 1 \notin known /\ 2 \notin known /\ 3 \notin known /\ 4 \notin known
        <5>1. PICK k \in known : TRUE
          BY <1>4
        <5>2. k = 5
          BY <4>1, <4>6, <5>1
        <5> QED BY <4>1, <4>6, <5>1, <5>2
      <4> QED BY <4>2, <4>3, <4>4, <4>5, <4>6
    <3> HIDE DEF known
    <3> QED BY <3>1
  <2>2. first \in 1..5 /\ Id(first) \in Byte
    <3>1. first \in 1..5
      BY <2>1
    <3>2. w.chip.id \in Byte
      BY <1>2 DEF Chip
    <3> HIDE DEF first
    <3> QED BY <1>2, <3>1, <3>2
  <2> DEFINE id == Id(first)
             d == [w.dev EXCEPT !.chip_id = id]
  <2> HIDE DEF first, known, id
  <2>3. d \in Dev /\ d.settings = w.dev.settings
    BY <1>2, <2>2 DEF Dev, id
  <2> DEFINE lost == Lost(w, first, "CHIP_ID")
  <2>a. lost \in SUBSET Register /\ w.lost \subseteq lost
    <3>1. first \in Nat /\ "CHIP_ID" \in Register
      BY <2>2 DEF Register
    <3> QED BY <3>1, LostType
  <2> HIDE DEF lost
  <2>4. /\ a \in Worlds /\ a.chip = w.chip /\ a.dev = d /\ a.n = w.n + first /\ a.luck = w.luck
        /\ a.rslt = w.rslt /\ a.lost = lost
    <3>0. a = [w EXCEPT !.n = w.n + first, !.lost = lost, !.dev = d]
      BY DEF Worlds, id, lost
    <3> HIDE DEF a, d
    <3>1. a = [chip |-> w.chip, dev |-> d, rslt |-> w.rslt, bytes |-> w.bytes, n |-> w.n + first,
               lost |-> lost, luck |-> w.luck]
      BY <3>0 DEF Worlds
    <3>2. w.n + first \in Nat /\ w.rslt \in Results /\ lost \in SUBSET Register
      BY <1>2, <2>2, <2>a DEF Worlds
    <3> QED BY <1>2, <2>3, <3>1, <3>2 DEF Worlds
  <2>5. After(w, a)
    <3> HIDE DEF a, d
    <3> QED BY <1>2, <2>2, <2>4, <2>a DEF After
  <2> HIDE DEF a
  <2>6. /\ After(a, b) /\ b.dev = a.dev /\ (Well(b) => b.rslt = BME280_OK)
        /\ b.rslt = BME280_OK => b.chip = Reset(w.chip)
        /\ b.chip = w.chip \/ b.chip = Reset(w.chip)
    BY <2>4, SoftReset
  <2> HIDE DEF b
  <2>7. b \in Worlds /\ After(w, b) /\ b.chip.trim = w.chip.trim
    BY <2>5, <2>6, AfterAfter DEF After
  <2>8. /\ After(b, c) /\ c.chip = b.chip /\ c.dev.settings = b.dev.settings
        /\ (Well(c) => c.rslt = BME280_OK)
        /\ c.rslt = BME280_OK /\ Calm(c) => c.dev.calib_data = b.chip.trim
    BY <2>7, CalibData
  <2> HIDE DEF c, d
  <2>9. After(w, c) /\ (Well(c) => Well(b))
    BY <2>7, <2>8, AfterAfter, Earlier
  <2> QED BY <1>1, <1>4, <2>3, <2>4, <2>6, <2>7, <2>8, <2>9
<1> QED BY <1>3, <1>4

-------------------------------------------------------------------------------
(* The settings. *)

\* What a sensor is set to.
ModeOf(c) == Mode(c.ctrl_meas)
OsrP(c) == GetBits(c.ctrl_meas, 4, 8)
OsrT(c) == GetBits(c.ctrl_meas, 32, 8)
Filter(c) == GetBits(c.config, 4, 8)
Standby(c) == GetBits(c.config, 32, 8)

IsSettings(s) == \A f \in Setting : s[f] \in 0..7

\* Every setting of c is as in old or as in s.
Between(c, old, s) ==
    /\ OsrP(c) \in {OsrP(old), s.osr_p} /\ OsrT(c) \in {OsrT(old), s.osr_t}
    /\ Filter(c) \in {Filter(old), s.filter} /\ Standby(c) \in {Standby(old), s.standby_time}
    /\ c.ctrl_hum \in {old.ctrl_hum, s.osr_h} /\ c.osr_h \in {old.osr_h, old.ctrl_hum, s.osr_h}

LEMMA BetweenBetween ==
    ASSUME NEW c, NEW d, NEW e, NEW s, Between(c, d, s), Between(d, e, s) PROVE Between(c, e, s)
BY DEF Between

\* A setting after a call that changes the desired ones.
Chosen(desired, f, new, old) == IF f \in desired THEN new ELSE old

LEMMA SettingsType ==
    ASSUME NEW s, IsSettings(s)
    PROVE  /\ s.osr_p \in 0..7 /\ s.osr_t \in 0..7 /\ s.osr_h \in 0..7
           /\ s.filter \in 0..7 /\ s.standby_time \in 0..7
BY DEF IsSettings, Setting

LEMMA ResetFields ==
    ASSUME NEW c \in Chip
    PROVE  /\ Reset(c).id = c.id /\ Reset(c).trim = c.trim
           /\ Reset(c).ctrl_hum = 0 /\ Reset(c).osr_h = 0
           /\ ModeOf(Reset(c)) = Sleep
<1>1. Reset(c).ctrl_meas = 0
  BY DEF Reset, WithRegisters, Chip
<1> QED BY <1>1, ZeroFields DEF Reset, WithRegisters, Chip, ModeOf, Mode, Sleep

\* The registers as read.
LEMMA ReadFields ==
    ASSUME NEW c
    PROVE  /\ Contents(c, "CTRL_MEAS")[0] = c.ctrl_meas /\ Contents(c, "CONFIG")[0] = c.config
           /\ Contents(c, "CTRL_HUM")[0] = c.ctrl_hum /\ Contents(c, "CTRL_HUM")[2] = c.ctrl_meas
           /\ Contents(c, "CTRL_HUM")[3] = c.config
BY DEF Contents

\* Two fields of a register, each set if it is selected.
LEMMA TwoFields ==
    ASSUME NEW b \in Byte, NEW desired, NEW f, NEW g, NEW x \in 0..7, NEW y \in 0..7,
           NEW t, t = Fill(desired, g, Fill(desired, f, b, 4, x), 32, y)
    PROVE  /\ t \in Byte /\ GetBits(t, 1, 4) = GetBits(b, 1, 4)
           /\ GetBits(t, 4, 8) = Chosen(desired, f, x, GetBits(b, 4, 8))
           /\ GetBits(t, 32, 8) = Chosen(desired, g, y, GetBits(b, 32, 8))
<1> DEFINE p == Fill(desired, f, b, 4, x)
<1>1. /\ p \in Byte /\ GetBits(p, 1, 4) = GetBits(b, 1, 4) /\ GetBits(p, 32, 8) = GetBits(b, 32, 8)
      /\ GetBits(p, 4, 8) = Chosen(desired, f, x, GetBits(b, 4, 8))
  BY LowField DEF Fill, Chosen
<1> HIDE DEF p
<1>2. t = Fill(desired, g, p, 32, y)
  BY DEF p
<1>3. CASE g \in desired
  BY <1>1, <1>2, <1>3, HighField DEF Fill, Chosen
<1>4. CASE g \notin desired
  BY <1>1, <1>2, <1>4 DEF Fill, Chosen
<1> QED BY <1>3, <1>4

\* A write, register by register.
LEMMA WrittenFields ==
    ASSUME NEW c \in Chip, NEW byte
    PROVE  /\ LET d == Written(c, "CTRL_HUM", byte)
              IN  /\ d.ctrl_hum = byte /\ d.ctrl_meas = c.ctrl_meas /\ d.config = c.config
                  /\ d.osr_h = c.osr_h
           /\ LET d == Written(c, "CTRL_MEAS", byte)
              IN  /\ d.ctrl_hum = c.ctrl_hum /\ d.ctrl_meas = byte /\ d.config = c.config
                  /\ d.osr_h = c.ctrl_hum
           /\ LET d == Written(c, "CONFIG", byte)
              IN  /\ d.ctrl_hum = c.ctrl_hum /\ d.ctrl_meas = c.ctrl_meas /\ d.osr_h = c.osr_h
                  /\ d.config \in {c.config, byte} /\ (ModeOf(c) = Sleep => d.config = byte)
BY DEF Written, Chip, ModeOf

\* Writing ctrl_meas, and config.
LEMMA SetMeas ==
    ASSUME NEW w \in Worlds, NEW byte \in Byte, NEW v, v = bme280_set_regs(w, "CTRL_MEAS", byte)
    PROVE  /\ After(w, v) /\ v.dev = w.dev /\ (Well(v) => v.rslt = BME280_OK)
           /\ v.chip.ctrl_hum = w.chip.ctrl_hum /\ v.chip.config = w.chip.config
           /\ v.rslt = BME280_OK => v.chip.ctrl_meas = byte /\ v.chip.osr_h = w.chip.ctrl_hum
           /\ v.rslt # BME280_OK => v.chip = w.chip
<1>1. /\ After(w, v) /\ v.dev = w.dev /\ (Well(v) => v.rslt = BME280_OK)
      /\ v.rslt = BME280_OK => v.chip = Written(w.chip, "CTRL_MEAS", byte)
      /\ v.rslt # BME280_OK => v.chip = w.chip
  BY SetRegs
<1> QED BY <1>1, WrittenFields DEF Worlds

LEMMA SetConfig ==
    ASSUME NEW w \in Worlds, NEW byte \in Byte, NEW v, v = bme280_set_regs(w, "CONFIG", byte)
    PROVE  /\ After(w, v) /\ v.dev = w.dev /\ (Well(v) => v.rslt = BME280_OK)
           /\ v.chip.ctrl_hum = w.chip.ctrl_hum /\ v.chip.ctrl_meas = w.chip.ctrl_meas
           /\ v.chip.osr_h = w.chip.osr_h
           /\ v.chip.config \in {w.chip.config, byte}
           /\ v.rslt = BME280_OK /\ ModeOf(w.chip) = Sleep => v.chip.config = byte
           /\ v.rslt # BME280_OK => v.chip = w.chip
<1>1. /\ After(w, v) /\ v.dev = w.dev /\ (Well(v) => v.rslt = BME280_OK)
      /\ v.rslt = BME280_OK => v.chip = Written(w.chip, "CONFIG", byte)
      /\ v.rslt # BME280_OK => v.chip = w.chip
  BY SetRegs
<1> QED BY <1>1, WrittenFields DEF Worlds

\* Reading ctrl_meas, and config.
LEMMA GetMeas ==
    ASSUME NEW w \in Worlds, NEW v, v = bme280_get_regs(w, "CTRL_MEAS")
    PROVE  /\ After(w, v) /\ v.dev = w.dev /\ v.chip = w.chip /\ (Well(v) => v.rslt = BME280_OK)
           /\ v.rslt = BME280_OK => v.bytes[0] \in Byte
           /\ v.rslt = BME280_OK /\ Told(v) => v.bytes[0] = w.chip.ctrl_meas
<1>1. "CTRL_MEAS" \in Readable /\ 0 \in 0..(Length("CTRL_MEAS") - 1)
  BY DEF Readable, Length
<1>2. Contents(w.chip, "CTRL_MEAS")[0] = w.chip.ctrl_meas
  BY ReadFields
<1> QED BY <1>1, <1>2, GetRegs

LEMMA GetConfig ==
    ASSUME NEW w \in Worlds, NEW v, v = bme280_get_regs(w, "CONFIG")
    PROVE  /\ After(w, v) /\ v.dev = w.dev /\ v.chip = w.chip /\ (Well(v) => v.rslt = BME280_OK)
           /\ v.rslt = BME280_OK => v.bytes[0] \in Byte
           /\ v.rslt = BME280_OK /\ Told(v) => v.bytes[0] = w.chip.config
<1>1. "CONFIG" \in Readable /\ 0 \in 0..(Length("CONFIG") - 1)
  BY DEF Readable, Length
<1>2. Contents(w.chip, "CONFIG")[0] = w.chip.config
  BY ReadFields
<1> QED BY <1>1, <1>2, GetRegs

\* set_osr_humidity_settings.
LEMMA Humidity ==
    ASSUME NEW w \in Worlds, NEW s, IsSettings(s), NEW v, v = set_osr_humidity_settings(w, s)
    PROVE  /\ After(w, v) /\ v.dev = w.dev /\ (Well(v) => v.rslt = BME280_OK)
           /\ Told(v) =>
                /\ v.chip.ctrl_meas = w.chip.ctrl_meas /\ v.chip.config = w.chip.config
                /\ v.rslt = BME280_OK => v.chip.ctrl_hum = s.osr_h /\ v.chip.osr_h = s.osr_h
                /\ Between(v.chip, w.chip, s)
<1> DEFINE a == bme280_set_regs(w, "CTRL_HUM", s.osr_h % 8)
           b == bme280_get_regs(a, "CTRL_MEAS")
           c == bme280_set_regs(b, "CTRL_MEAS", b.bytes[0])
<1>1. v = IF a.rslt = BME280_OK THEN IF b.rslt = BME280_OK THEN c ELSE b ELSE a
  BY DEF set_osr_humidity_settings, Then
<1>2. s.osr_h \in 0..7 /\ s.osr_h % 8 = s.osr_h /\ s.osr_h \in Byte
  BY SettingsType DEF Byte
<1>3. /\ After(w, a) /\ a.dev = w.dev /\ (Well(a) => a.rslt = BME280_OK) /\ a.chip \in Chip
      /\ a.chip.ctrl_meas = w.chip.ctrl_meas /\ a.chip.config = w.chip.config
      /\ a.rslt = BME280_OK => a.chip.ctrl_hum = s.osr_h
      /\ a.chip.ctrl_hum \in {w.chip.ctrl_hum, s.osr_h} /\ a.chip.osr_h = w.chip.osr_h
  <2>1. w.chip \in Chip
    BY DEF Worlds
  <2>2. /\ After(w, a) /\ a.dev = w.dev /\ (Well(a) => a.rslt = BME280_OK)
        /\ a.rslt = BME280_OK => a.chip = Written(w.chip, "CTRL_HUM", s.osr_h)
        /\ a.rslt # BME280_OK => a.chip = w.chip
    BY <1>2, SetRegs
  <2> QED BY <2>1, <2>2, WrittenFields DEF After, Worlds
<1> HIDE DEF a
<1>4. /\ After(a, b) /\ b.dev = a.dev /\ b.chip = a.chip /\ (Well(b) => b.rslt = BME280_OK)
      /\ b.rslt = BME280_OK => b.bytes[0] \in Byte
      /\ b.rslt = BME280_OK /\ Told(b) => b.bytes[0] = a.chip.ctrl_meas
  BY <1>3, GetMeas DEF After
<1> HIDE DEF b
<1>a. Between(a.chip, w.chip, s)
  BY <1>3 DEF Between, OsrP, OsrT, Filter, Standby
<1>5. CASE a.rslt # BME280_OK
  BY <1>1, <1>3, <1>5, <1>a
<1>6. CASE a.rslt = BME280_OK /\ b.rslt # BME280_OK
  BY <1>1, <1>3, <1>4, <1>6, <1>a, AfterAfter
<1>7. CASE a.rslt = BME280_OK /\ b.rslt = BME280_OK
  <2>1. /\ After(b, c) /\ c.dev = b.dev /\ (Well(c) => c.rslt = BME280_OK)
        /\ c.chip.ctrl_hum = b.chip.ctrl_hum /\ c.chip.config = b.chip.config
        /\ c.rslt = BME280_OK => c.chip.ctrl_meas = b.bytes[0] /\ c.chip.osr_h = b.chip.ctrl_hum
        /\ c.rslt # BME280_OK => c.chip = b.chip
    BY <1>4, <1>7, SetMeas DEF After
  <2> HIDE DEF c
  <2>2. After(w, c) /\ (Told(c) => Told(b))
    BY <1>3, <1>4, <2>1, AfterAfter, Earlier
  <2>3. Told(c) => /\ c.chip.ctrl_meas = w.chip.ctrl_meas /\ c.chip.config = w.chip.config
                   /\ c.chip.ctrl_hum = s.osr_h /\ c.chip.osr_h \in {w.chip.osr_h, s.osr_h}
    BY <1>3, <1>4, <1>7, <2>1, <2>2
  <2>4. Told(c) => Between(c.chip, w.chip, s)
    BY <2>3 DEF Between, OsrP, OsrT, Filter, Standby
  <2> QED BY <1>1, <1>3, <1>4, <1>7, <2>1, <2>2, <2>3, <2>4
<1> QED BY <1>5, <1>6, <1>7

\* set_osr_press_temp_settings.
LEMMA PressTemp ==
    ASSUME NEW w \in Worlds, NEW desired, NEW s, IsSettings(s),
           NEW v, v = set_osr_press_temp_settings(w, desired, s)
    PROVE  /\ After(w, v) /\ v.dev = w.dev /\ (Well(v) => v.rslt = BME280_OK)
           /\ Told(v) =>
                /\ ModeOf(v.chip) = ModeOf(w.chip) /\ v.chip.config = w.chip.config
                /\ v.chip.ctrl_hum = w.chip.ctrl_hum
                /\ v.rslt = BME280_OK =>
                    /\ v.chip.osr_h = w.chip.ctrl_hum
                    /\ OsrP(v.chip) = Chosen(desired, "osr_p", s.osr_p, OsrP(w.chip))
                    /\ OsrT(v.chip) = Chosen(desired, "osr_t", s.osr_t, OsrT(w.chip))
                /\ Between(v.chip, w.chip, s)
<1> DEFINE a == bme280_get_regs(w, "CTRL_MEAS")
           t == Fill(desired, "osr_t", Fill(desired, "osr_p", a.bytes[0], 4, s.osr_p), 32, s.osr_t)
           b == bme280_set_regs(a, "CTRL_MEAS", t)
<1>1. v = IF a.rslt = BME280_OK THEN b ELSE a
  BY DEF set_osr_press_temp_settings, Then
<1>2. s.osr_p \in 0..7 /\ s.osr_t \in 0..7
  BY SettingsType
<1>3. /\ After(w, a) /\ a.dev = w.dev /\ a.chip = w.chip /\ (Well(a) => a.rslt = BME280_OK)
      /\ a.rslt = BME280_OK => a.bytes[0] \in Byte
      /\ a.rslt = BME280_OK /\ Told(a) => a.bytes[0] = w.chip.ctrl_meas
  BY GetMeas
<1> HIDE DEF a
<1>4. CASE a.rslt # BME280_OK
  BY <1>1, <1>3, <1>4 DEF Between
<1>5. CASE a.rslt = BME280_OK
  <2>1. /\ t \in Byte /\ GetBits(t, 1, 4) = GetBits(a.bytes[0], 1, 4)
        /\ GetBits(t, 4, 8) = Chosen(desired, "osr_p", s.osr_p, GetBits(a.bytes[0], 4, 8))
        /\ GetBits(t, 32, 8) = Chosen(desired, "osr_t", s.osr_t, GetBits(a.bytes[0], 32, 8))
    BY <1>2, <1>3, <1>5, TwoFields
  <2> HIDE DEF t
  <2>2. /\ After(a, b) /\ b.dev = a.dev /\ (Well(b) => b.rslt = BME280_OK)
        /\ b.chip.ctrl_hum = a.chip.ctrl_hum /\ b.chip.config = a.chip.config
        /\ b.rslt = BME280_OK => b.chip.ctrl_meas = t /\ b.chip.osr_h = a.chip.ctrl_hum
        /\ b.rslt # BME280_OK => b.chip = a.chip
    BY <1>3, <2>1, SetMeas DEF After
  <2> HIDE DEF b
  <2>3. After(w, b) /\ (Told(b) => Told(a))
    BY <1>3, <2>2, AfterAfter, Earlier
  <2>5. Told(b) /\ b.rslt = BME280_OK =>
            /\ ModeOf(b.chip) = ModeOf(w.chip)
            /\ OsrP(b.chip) = Chosen(desired, "osr_p", s.osr_p, OsrP(w.chip))
            /\ OsrT(b.chip) = Chosen(desired, "osr_t", s.osr_t, OsrT(w.chip))
    BY <1>3, <1>5, <2>1, <2>2, <2>3 DEF ModeOf, Mode, OsrP, OsrT
  <2>6. Told(b) /\ b.rslt = BME280_OK => Between(b.chip, w.chip, s)
    BY <1>3, <1>5, <2>2, <2>5 DEF Between, Filter, Standby, Chosen
  <2>7. b.rslt # BME280_OK => Between(b.chip, w.chip, s)
    BY <1>3, <2>2 DEF Between
  <2> QED BY <1>1, <1>3, <1>5, <2>2, <2>3, <2>5, <2>6, <2>7
<1> QED BY <1>4, <1>5

Osrs == {"osr_p", "osr_t", "osr_h"}

\* set_osr_settings: a failure of its first half is lost, that is why osr_h is
\* only known if nothing failed.
LEMMA Oversampling ==
    ASSUME NEW w \in Worlds, NEW desired, desired \cap Osrs # {}, NEW s, IsSettings(s),
           NEW v, v = set_osr_settings(w, desired, s)
    PROVE  /\ After(w, v) /\ v.dev = w.dev /\ (Well(v) => v.rslt = BME280_OK)
           /\ Told(v) =>
                /\ ModeOf(v.chip) = ModeOf(w.chip) /\ v.chip.config = w.chip.config
                /\ v.rslt = BME280_OK =>
                    /\ OsrP(v.chip) = Chosen(desired, "osr_p", s.osr_p, OsrP(w.chip))
                    /\ OsrT(v.chip) = Chosen(desired, "osr_t", s.osr_t, OsrT(w.chip))
                /\ Between(v.chip, w.chip, s)
           /\ Well(v) => /\ v.chip.ctrl_hum = Chosen(desired, "osr_h", s.osr_h, w.chip.ctrl_hum)
                         /\ v.chip.osr_h = v.chip.ctrl_hum
<1> DEFINE h == IF "osr_h" \in desired THEN set_osr_humidity_settings(w, s)
                ELSE [w EXCEPT !.rslt = BME280_W_INVALID_OSR_MACRO]
           p == set_osr_press_temp_settings(h, desired, s)
<1>1. v = IF desired \cap {"osr_p", "osr_t"} # {} THEN p ELSE h
  BY DEF set_osr_settings
<1>2. /\ After(w, h) /\ h.dev = w.dev
      /\ Told(h) => h.chip.ctrl_meas = w.chip.ctrl_meas /\ h.chip.config = w.chip.config
  <2>1. CASE "osr_h" \in desired
    BY <2>1, Humidity
  <2>2. CASE "osr_h" \notin desired
    <3>1. BME280_W_INVALID_OSR_MACRO \in Results
      BY DEF Results
    <3>2. h = [w EXCEPT !.rslt = BME280_W_INVALID_OSR_MACRO]
      BY <2>2
    <3> HIDE DEF h
    <3>3. /\ h \in Worlds /\ h.chip = w.chip /\ h.dev = w.dev /\ h.luck = w.luck /\ h.n = w.n
          /\ h.lost = w.lost /\ w.n \in Nat
      BY <3>1, <3>2 DEF Worlds
    <3> QED BY <3>3 DEF After
  <2> QED BY <2>1, <2>2
<1>3. "osr_h" \in desired => /\ Well(h) => h.rslt = BME280_OK
                             /\ Told(h) /\ h.rslt = BME280_OK =>
                                    h.chip.ctrl_hum = s.osr_h /\ h.chip.osr_h = s.osr_h
                             /\ Told(h) => Between(h.chip, w.chip, s)
  BY Humidity
<1>4. "osr_h" \notin desired => h.chip = w.chip
  <2>1. ASSUME "osr_h" \notin desired PROVE h = [w EXCEPT !.rslt = BME280_W_INVALID_OSR_MACRO]
    BY <2>1
  <2> HIDE DEF h
  <2> QED BY <2>1 DEF Worlds
<1> HIDE DEF h
<1>a. Told(h) => Between(h.chip, w.chip, s)
  BY <1>3, <1>4 DEF Between
<1>5. CASE desired \cap {"osr_p", "osr_t"} = {}
  <2>1. "osr_h" \in desired /\ "osr_p" \notin desired /\ "osr_t" \notin desired
    BY <1>5 DEF Osrs
  <2>2. v = h /\ (Well(h) => Told(h))
    BY <1>1, <1>5 DEF Well
  <2> QED BY <1>2, <1>3, <1>a, <2>1, <2>2 DEF Chosen, ModeOf, OsrP, OsrT
<1>6. CASE desired \cap {"osr_p", "osr_t"} # {}
  <2>1. v = p
    BY <1>1, <1>6
  <2>2. /\ After(h, p) /\ p.dev = h.dev /\ (Well(p) => p.rslt = BME280_OK)
        /\ Told(p) =>
            /\ ModeOf(p.chip) = ModeOf(h.chip) /\ p.chip.config = h.chip.config
            /\ p.chip.ctrl_hum = h.chip.ctrl_hum
            /\ p.rslt = BME280_OK =>
                /\ p.chip.osr_h = h.chip.ctrl_hum
                /\ OsrP(p.chip) = Chosen(desired, "osr_p", s.osr_p, OsrP(h.chip))
                /\ OsrT(p.chip) = Chosen(desired, "osr_t", s.osr_t, OsrT(h.chip))
            /\ Between(p.chip, h.chip, s)
    BY <1>2, PressTemp DEF After
  <2> HIDE DEF p
  <2>3. After(w, p) /\ (Told(p) => Told(h)) /\ (Well(p) => Well(h)) /\ (Well(p) => Told(p))
    BY <1>2, <2>2, AfterAfter, Earlier DEF Well
  <2>4. Told(p) => /\ ModeOf(h.chip) = ModeOf(w.chip)
                   /\ OsrP(h.chip) = OsrP(w.chip) /\ OsrT(h.chip) = OsrT(w.chip)
    BY <1>2, <2>3 DEF ModeOf, OsrP, OsrT
  <2>5. Well(p) => p.chip.ctrl_hum = Chosen(desired, "osr_h", s.osr_h, w.chip.ctrl_hum)
    BY <1>3, <1>4, <2>2, <2>3 DEF Chosen
  <2>6. Told(p) => Between(p.chip, w.chip, s)
    BY <1>a, <2>2, <2>3, BetweenBetween
  <2> QED BY <1>2, <2>1, <2>2, <2>3, <2>4, <2>5, <2>6
<1> QED BY <1>5, <1>6

\* set_filter_standby_settings.
LEMMA FilterStandby ==
    ASSUME NEW w \in Worlds, NEW desired, NEW s, IsSettings(s),
           NEW v, v = set_filter_standby_settings(w, desired, s)
    PROVE  /\ After(w, v) /\ v.dev = w.dev /\ (Well(v) => v.rslt = BME280_OK)
           /\ v.chip.ctrl_hum = w.chip.ctrl_hum /\ v.chip.ctrl_meas = w.chip.ctrl_meas
           /\ v.chip.osr_h = w.chip.osr_h
           /\ Told(v) /\ v.rslt = BME280_OK /\ ModeOf(w.chip) = Sleep =>
                /\ Filter(v.chip) = Chosen(desired, "filter", s.filter, Filter(w.chip))
                /\ Standby(v.chip) = Chosen(desired, "standby_time", s.standby_time, Standby(w.chip))
           /\ Told(v) => Between(v.chip, w.chip, s)
<1> DEFINE a == bme280_get_regs(w, "CONFIG")
           t == Fill(desired, "standby_time", Fill(desired, "filter", a.bytes[0], 4, s.filter),
                     32, s.standby_time)
           b == bme280_set_regs(a, "CONFIG", t)
<1>1. v = IF a.rslt = BME280_OK THEN b ELSE a
  BY DEF set_filter_standby_settings, Then
<1>2. s.filter \in 0..7 /\ s.standby_time \in 0..7
  BY SettingsType
<1>3. /\ After(w, a) /\ a.dev = w.dev /\ a.chip = w.chip /\ (Well(a) => a.rslt = BME280_OK)
      /\ a.rslt = BME280_OK => a.bytes[0] \in Byte
      /\ a.rslt = BME280_OK /\ Told(a) => a.bytes[0] = w.chip.config
  BY GetConfig
<1> HIDE DEF a
<1>4. CASE a.rslt # BME280_OK
  BY <1>1, <1>3, <1>4 DEF Between
<1>5. CASE a.rslt = BME280_OK
  <2>1. /\ t \in Byte
        /\ GetBits(t, 4, 8) = Chosen(desired, "filter", s.filter, GetBits(a.bytes[0], 4, 8))
        /\ GetBits(t, 32, 8) =
             Chosen(desired, "standby_time", s.standby_time, GetBits(a.bytes[0], 32, 8))
    BY <1>2, <1>3, <1>5, TwoFields
  <2> HIDE DEF t
  <2>2. /\ After(a, b) /\ b.dev = a.dev /\ (Well(b) => b.rslt = BME280_OK)
        /\ b.chip.ctrl_hum = a.chip.ctrl_hum /\ b.chip.ctrl_meas = a.chip.ctrl_meas
        /\ b.chip.osr_h = a.chip.osr_h /\ b.chip.config \in {a.chip.config, t}
        /\ b.rslt = BME280_OK /\ ModeOf(a.chip) = Sleep => b.chip.config = t
    BY <1>3, <2>1, SetConfig DEF After
  <2> HIDE DEF b
  <2>3. After(w, b) /\ (Told(b) => Told(a))
    BY <1>3, <2>2, AfterAfter, Earlier
  <2>4. Told(b) /\ b.rslt = BME280_OK /\ ModeOf(w.chip) = Sleep =>
            /\ Filter(b.chip) = Chosen(desired, "filter", s.filter, Filter(w.chip))
            /\ Standby(b.chip) = Chosen(desired, "standby_time", s.standby_time, Standby(w.chip))
    BY <1>3, <1>5, <2>1, <2>2, <2>3 DEF Filter, Standby
  <2>5. Told(b) => Between(b.chip, w.chip, s)
    <3>1. Told(b) => /\ Filter(b.chip) \in {Filter(w.chip), s.filter}
                     /\ Standby(b.chip) \in {Standby(w.chip), s.standby_time}
      BY <1>3, <1>5, <2>1, <2>2, <2>3 DEF Filter, Standby, Chosen
    <3> QED BY <1>3, <2>2, <3>1 DEF Between, OsrP, OsrT
  <2> QED BY <1>1, <1>3, <1>5, <2>2, <2>3, <2>4, <2>5
<1> QED BY <1>4, <1>5

\* reload_device_settings: all the settings a sensor that sleeps is given.
LEMMA Reload ==
    ASSUME NEW w \in Worlds, ModeOf(w.chip) = Sleep, NEW s, IsSettings(s),
           NEW v, v = reload_device_settings(w, s)
    PROVE  /\ After(w, v) /\ v.dev = w.dev /\ (Well(v) => v.rslt = BME280_OK)
           /\ Told(v) =>
                /\ ModeOf(v.chip) = Sleep
                /\ v.rslt = BME280_OK =>
                    /\ OsrP(v.chip) = s.osr_p /\ OsrT(v.chip) = s.osr_t
                    /\ Filter(v.chip) = s.filter /\ Standby(v.chip) = s.standby_time
           /\ Well(v) => v.chip.ctrl_hum = s.osr_h /\ v.chip.osr_h = s.osr_h
<1> DEFINE a == set_osr_settings(w, Setting, s)
           b == set_filter_standby_settings(a, Setting, s)
<1>1. v = IF a.rslt = BME280_OK THEN b ELSE a
  BY DEF reload_device_settings, Then
<1>2. /\ "osr_p" \in Setting /\ "osr_t" \in Setting /\ "osr_h" \in Setting
      /\ "filter" \in Setting /\ "standby_time" \in Setting
      /\ Setting \cap Osrs # {}
  BY DEF Setting, Osrs
<1>3. /\ After(w, a) /\ a.dev = w.dev /\ (Well(a) => a.rslt = BME280_OK)
      /\ Told(a) => /\ ModeOf(a.chip) = ModeOf(w.chip)
                    /\ a.rslt = BME280_OK => OsrP(a.chip) = s.osr_p /\ OsrT(a.chip) = s.osr_t
      /\ Well(a) => a.chip.ctrl_hum = s.osr_h /\ a.chip.osr_h = s.osr_h
  BY <1>2, Oversampling DEF Chosen
<1> HIDE DEF a
<1>4. CASE a.rslt # BME280_OK
  BY <1>1, <1>3, <1>4
<1>5. CASE a.rslt = BME280_OK
  <2>1. /\ After(a, b) /\ b.dev = a.dev /\ (Well(b) => b.rslt = BME280_OK)
        /\ b.chip.ctrl_hum = a.chip.ctrl_hum /\ b.chip.ctrl_meas = a.chip.ctrl_meas
        /\ b.chip.osr_h = a.chip.osr_h
        /\ Told(b) /\ b.rslt = BME280_OK /\ ModeOf(a.chip) = Sleep =>
                Filter(b.chip) = s.filter /\ Standby(b.chip) = s.standby_time
    BY <1>2, <1>3, FilterStandby DEF After, Chosen
  <2> HIDE DEF b
  <2>2. After(w, b) /\ (Told(b) => Told(a)) /\ (Well(b) => Well(a))
    BY <1>3, <2>1, AfterAfter, Earlier
  <2>3. ModeOf(b.chip) = ModeOf(a.chip) /\ OsrP(b.chip) = OsrP(a.chip) /\ OsrT(b.chip) = OsrT(a.chip)
    BY <2>1 DEF ModeOf, OsrP, OsrT
  <2> QED BY <1>1, <1>3, <1>5, <2>1, <2>2, <2>3
<1> QED BY <1>4, <1>5

\* The settings parsed of four registers, whatever they hold.
LEMMA ParsedSettings ==
    ASSUME NEW bytes, \A b \in 0..3 : bytes[b] \in Byte, NEW s, s = parse_device_settings(bytes)
    PROVE  /\ IsSettings(s)
           /\ s.osr_h = GetBits(bytes[0], 1, 8) /\ s.osr_p = GetBits(bytes[2], 4, 8)
           /\ s.osr_t = GetBits(bytes[2], 32, 8) /\ s.filter = GetBits(bytes[3], 4, 8)
           /\ s.standby_time = GetBits(bytes[3], 32, 8)
<1>1. bytes[0] \in Byte /\ bytes[2] \in Byte /\ bytes[3] \in Byte
  OBVIOUS
<1>2. /\ GetBits(bytes[0], 1, 8) \in 0..7 /\ GetBits(bytes[2], 4, 8) \in 0..7
      /\ GetBits(bytes[2], 32, 8) \in 0..7 /\ GetBits(bytes[3], 4, 8) \in 0..7
      /\ GetBits(bytes[3], 32, 8) \in 0..7
  BY <1>1, FieldType
<1> QED BY <1>2 DEF parse_device_settings, IsSettings, Setting

\* put_device_to_sleep: a reset, and the settings read before it put back.
LEMMA PutToSleep ==
    ASSUME NEW w \in Worlds, NEW v, v = put_device_to_sleep(w)
    PROVE  /\ After(w, v) /\ v.dev = w.dev /\ (Well(v) => v.rslt = BME280_OK)
           /\ Told(v) =>
                /\ v.chip = w.chip \/ ModeOf(v.chip) = Sleep
                /\ v.rslt = BME280_OK =>
                    /\ ModeOf(v.chip) = Sleep
                    /\ OsrP(v.chip) = OsrP(w.chip) /\ OsrT(v.chip) = OsrT(w.chip)
                    /\ Filter(v.chip) = Filter(w.chip) /\ Standby(v.chip) = Standby(w.chip)
           /\ Well(v) => v.chip.ctrl_hum = w.chip.ctrl_hum /\ v.chip.osr_h = w.chip.ctrl_hum
<1> DEFINE a == bme280_get_regs(w, "CTRL_HUM")
           s == parse_device_settings(a.bytes)
           b == bme280_soft_reset(a)
           c == reload_device_settings(b, s)
<1>1. v = IF a.rslt = BME280_OK THEN IF b.rslt = BME280_OK THEN c ELSE b ELSE a
  BY DEF put_device_to_sleep, Then
<1>2. /\ After(w, a) /\ a.dev = w.dev /\ a.chip = w.chip /\ (Well(a) => a.rslt = BME280_OK)
      /\ a.rslt = BME280_OK => \A k \in 0..3 : a.bytes[k] \in Byte
      /\ a.rslt = BME280_OK /\ Told(a) =>
            a.bytes[0] = w.chip.ctrl_hum /\ a.bytes[2] = w.chip.ctrl_meas /\ a.bytes[3] = w.chip.config
  <2>1. "CTRL_HUM" \in Readable /\ Length("CTRL_HUM") - 1 = 3
    BY DEF Readable, Length
  <2>2. /\ After(w, a) /\ a.chip = w.chip /\ a.dev = w.dev /\ (Well(a) => a.rslt = BME280_OK)
        /\ a.rslt = BME280_OK => \A k \in 0..(Length("CTRL_HUM") - 1) : a.bytes[k] \in Byte
        /\ a.rslt = BME280_OK /\ Told(a) => a.bytes = Contents(w.chip, "CTRL_HUM")
    BY <2>1, GetRegs
  <2> HIDE DEF a
  <2>3. /\ Contents(w.chip, "CTRL_HUM")[0] = w.chip.ctrl_hum
        /\ Contents(w.chip, "CTRL_HUM")[2] = w.chip.ctrl_meas
        /\ Contents(w.chip, "CTRL_HUM")[3] = w.chip.config
    BY ReadFields
  <2> QED BY <2>1, <2>2, <2>3
<1> HIDE DEF a
<1>3. CASE a.rslt # BME280_OK
  BY <1>1, <1>2, <1>3 DEF Well
<1>4. CASE a.rslt = BME280_OK
  <2>1. /\ IsSettings(s)
        /\ Told(a) => /\ s.osr_h = w.chip.ctrl_hum
                      /\ s.osr_p = OsrP(w.chip) /\ s.osr_t = OsrT(w.chip)
                      /\ s.filter = Filter(w.chip) /\ s.standby_time = Standby(w.chip)
    <3>1. /\ IsSettings(s)
          /\ s.osr_h = GetBits(a.bytes[0], 1, 8) /\ s.osr_p = GetBits(a.bytes[2], 4, 8)
          /\ s.osr_t = GetBits(a.bytes[2], 32, 8) /\ s.filter = GetBits(a.bytes[3], 4, 8)
          /\ s.standby_time = GetBits(a.bytes[3], 32, 8)
      BY <1>2, <1>4, ParsedSettings
    <3> HIDE DEF s
    <3>2. w.chip.ctrl_hum \in 0..7 /\ w.chip.ctrl_hum \in Byte
      BY DEF Worlds, Chip, Byte
    <3>3. GetBits(w.chip.ctrl_hum, 1, 8) = w.chip.ctrl_hum
      BY <3>2, FieldType
    <3> QED BY <1>2, <1>4, <3>1, <3>3 DEF OsrP, OsrT, Filter, Standby
  <2> HIDE DEF s
  <2>2. /\ After(a, b) /\ b.dev = a.dev /\ (Well(b) => b.rslt = BME280_OK)
        /\ b.rslt = BME280_OK => b.chip = Reset(a.chip)
        /\ b.chip = a.chip \/ b.chip = Reset(a.chip)
    BY <1>2, SoftReset DEF After
  <2> HIDE DEF b
  <2>3. After(w, b) /\ ModeOf(Reset(a.chip)) = Sleep
    BY <1>2, <2>2, AfterAfter, ResetFields DEF After, Worlds
  <2>4. CASE b.rslt # BME280_OK
    BY <1>1, <1>2, <1>4, <2>2, <2>3, <2>4
  <2>5. CASE b.rslt = BME280_OK
    <3>1. /\ After(b, c) /\ c.dev = b.dev /\ (Well(c) => c.rslt = BME280_OK)
          /\ Told(c) =>
                /\ ModeOf(c.chip) = Sleep
                /\ c.rslt = BME280_OK =>
                    /\ OsrP(c.chip) = s.osr_p /\ OsrT(c.chip) = s.osr_t
                    /\ Filter(c.chip) = s.filter /\ Standby(c.chip) = s.standby_time
          /\ Well(c) => c.chip.ctrl_hum = s.osr_h /\ c.chip.osr_h = s.osr_h
      <4>1. b \in Worlds /\ ModeOf(b.chip) = Sleep
        BY <2>2, <2>3, <2>5 DEF After
      <4> QED BY <2>1, <4>1, Reload
    <3> HIDE DEF c
    <3>2. After(w, c) /\ (Told(c) => Told(a)) /\ (Well(c) => Told(c))
      <4>1. After(a, c) /\ After(w, c)
        BY <1>2, <2>2, <3>1, AfterAfter
      <4> QED BY <4>1, Earlier DEF Well
    <3> QED BY <1>1, <1>2, <1>4, <2>1, <2>2, <2>5, <3>1, <3>2
  <2> QED BY <2>4, <2>5
<1> QED BY <1>3, <1>4

\* What both bme280_set_sensor_settings and bme280_set_sensor_mode begin with.
LEMMA AsleepEffect ==
    ASSUME NEW w \in Worlds, NEW v, v = Asleep(w)
    PROVE  /\ After(w, v) /\ v.dev = w.dev /\ (Well(v) => v.rslt = BME280_OK)
           /\ Told(v) =>
                /\ v.chip = w.chip \/ ModeOf(v.chip) = Sleep
                /\ v.rslt = BME280_OK =>
                    /\ ModeOf(v.chip) = Sleep
                    /\ OsrP(v.chip) = OsrP(w.chip) /\ OsrT(v.chip) = OsrT(w.chip)
                    /\ Filter(v.chip) = Filter(w.chip) /\ Standby(v.chip) = Standby(w.chip)
           /\ Well(v) => /\ v.chip.ctrl_hum = w.chip.ctrl_hum
                         /\ v.chip.osr_h \in {w.chip.osr_h, w.chip.ctrl_hum}
           /\ Told(v) /\ ModeOf(w.chip) = Sleep => v.chip = w.chip
<1> DEFINE a == bme280_get_regs(w, "CTRL_MEAS")
           b == put_device_to_sleep(a)
<1>1. v = IF a.rslt = BME280_OK /\ Mode(a.bytes[0]) # Sleep THEN b ELSE a
  BY DEF Asleep, Then
<1>2. /\ After(w, a) /\ a.dev = w.dev /\ a.chip = w.chip /\ (Well(a) => a.rslt = BME280_OK)
      /\ a.rslt = BME280_OK /\ Told(a) => a.bytes[0] = w.chip.ctrl_meas
  BY GetMeas
<1> HIDE DEF a
<1>3. CASE ~(a.rslt = BME280_OK /\ Mode(a.bytes[0]) # Sleep)
  BY <1>1, <1>2, <1>3 DEF Well, ModeOf
<1>4. CASE a.rslt = BME280_OK /\ Mode(a.bytes[0]) # Sleep
  <2>1. /\ After(a, b) /\ b.dev = a.dev /\ (Well(b) => b.rslt = BME280_OK)
        /\ Told(b) =>
             /\ b.chip = a.chip \/ ModeOf(b.chip) = Sleep
             /\ b.rslt = BME280_OK =>
                 /\ ModeOf(b.chip) = Sleep
                 /\ OsrP(b.chip) = OsrP(a.chip) /\ OsrT(b.chip) = OsrT(a.chip)
                 /\ Filter(b.chip) = Filter(a.chip) /\ Standby(b.chip) = Standby(a.chip)
        /\ Well(b) => b.chip.ctrl_hum = a.chip.ctrl_hum /\ b.chip.osr_h = a.chip.ctrl_hum
    BY <1>2, PutToSleep DEF After
  <2> HIDE DEF b
  <2>2. After(w, b) /\ (Told(b) => Told(a))
    BY <1>2, <2>1, AfterAfter, Earlier
  <2> QED BY <1>1, <1>2, <1>4, <2>1, <2>2 DEF ModeOf
<1> QED BY <1>3, <1>4

\* bme280_set_sensor_settings.
LEMMA SettingsEffect ==
    ASSUME NEW w \in Worlds, IsSettings(w.dev.settings), NEW desired \in SUBSET Setting,
           NEW v, v = bme280_set_sensor_settings(w, desired)
    PROVE  LET s == w.dev.settings
           IN  /\ After(w, v) /\ v.dev = w.dev /\ (Well(v) => v.rslt = BME280_OK)
               /\ Told(v) =>
                    /\ v.chip = w.chip \/ ModeOf(v.chip) = Sleep
                    /\ v.rslt = BME280_OK =>
                        /\ ModeOf(v.chip) = Sleep
                        /\ OsrP(v.chip) = Chosen(desired, "osr_p", s.osr_p, OsrP(w.chip))
                        /\ OsrT(v.chip) = Chosen(desired, "osr_t", s.osr_t, OsrT(w.chip))
                        /\ Filter(v.chip) = Chosen(desired, "filter", s.filter, Filter(w.chip))
                        /\ Standby(v.chip)
                                = Chosen(desired, "standby_time", s.standby_time, Standby(w.chip))
               /\ Well(v) =>
                    /\ v.chip.ctrl_hum = Chosen(desired, "osr_h", s.osr_h, w.chip.ctrl_hum)
                    /\ v.chip.osr_h \in {v.chip.ctrl_hum,
                                         Chosen(desired, "osr_h", s.osr_h, w.chip.osr_h)}
               /\ Told(v) /\ ModeOf(w.chip) = Sleep => Between(v.chip, w.chip, s)
<1> DEFINE s == w.dev.settings
           a == Asleep(w)
           o == IF desired \cap Osrs # {} THEN set_osr_settings(a, desired, a.dev.settings) ELSE a
           b == set_filter_standby_settings(o, desired, o.dev.settings)
<1>1. v = IF a.rslt # BME280_OK THEN a
          ELSE IF desired \cap {"filter", "standby_time"} # {} /\ o.rslt = BME280_OK THEN b ELSE o
  BY DEF bme280_set_sensor_settings, Then, Osrs
<1>2. /\ After(w, a) /\ a.dev = w.dev /\ (Well(a) => a.rslt = BME280_OK)
      /\ Told(a) =>
           /\ a.chip = w.chip \/ ModeOf(a.chip) = Sleep
           /\ a.rslt = BME280_OK =>
               /\ ModeOf(a.chip) = Sleep
               /\ OsrP(a.chip) = OsrP(w.chip) /\ OsrT(a.chip) = OsrT(w.chip)
               /\ Filter(a.chip) = Filter(w.chip) /\ Standby(a.chip) = Standby(w.chip)
      /\ Well(a) => /\ a.chip.ctrl_hum = w.chip.ctrl_hum
                    /\ a.chip.osr_h \in {w.chip.osr_h, w.chip.ctrl_hum}
      /\ Told(a) /\ ModeOf(w.chip) = Sleep => a.chip = w.chip
  BY AsleepEffect
<1> HIDE DEF a
<1>3. CASE a.rslt # BME280_OK
  BY <1>1, <1>2, <1>3 DEF Between
<1>4. CASE a.rslt = BME280_OK
  <2>1. /\ After(a, o) /\ o.dev = a.dev /\ (Well(o) => o.rslt = BME280_OK)
        /\ Told(o) =>
             /\ ModeOf(o.chip) = ModeOf(a.chip) /\ o.chip.config = a.chip.config
             /\ o.rslt = BME280_OK =>
                 /\ OsrP(o.chip) = Chosen(desired, "osr_p", s.osr_p, OsrP(a.chip))
                 /\ OsrT(o.chip) = Chosen(desired, "osr_t", s.osr_t, OsrT(a.chip))
        /\ Well(o) => /\ o.chip.ctrl_hum = Chosen(desired, "osr_h", s.osr_h, a.chip.ctrl_hum)
                      /\ o.chip.osr_h \in {o.chip.ctrl_hum,
                                           Chosen(desired, "osr_h", s.osr_h, a.chip.osr_h)}
        /\ Told(o) => Between(o.chip, a.chip, s)
    <3>1. a \in Worlds /\ a.n \in Nat
      BY <1>2 DEF After, Worlds
    <3>2. CASE desired \cap Osrs # {}
      <4>1. o = set_osr_settings(a, desired, s)
        BY <1>2, <3>2
      <4> HIDE DEF o
      <4> QED BY <1>2, <3>1, <3>2, <4>1, Oversampling
    <3>3. CASE desired \cap Osrs = {}
      <4>1. o = a /\ "osr_p" \notin desired /\ "osr_t" \notin desired /\ "osr_h" \notin desired
        BY <3>3 DEF Osrs
      <4> HIDE DEF o
      <4> QED BY <1>4, <3>1, <4>1 DEF After, Chosen, Between
    <3> QED BY <3>2, <3>3
  <2> HIDE DEF o
  <2>2. /\ After(w, o) /\ (Told(o) => Told(a)) /\ (Well(o) => Well(a))
        /\ Told(o) => Filter(o.chip) = Filter(a.chip) /\ Standby(o.chip) = Standby(a.chip)
    BY <1>2, <2>1, AfterAfter, Earlier DEF Filter, Standby
  <2>3. Well(o) => /\ o.chip.ctrl_hum = Chosen(desired, "osr_h", s.osr_h, w.chip.ctrl_hum)
                   /\ o.chip.osr_h \in {o.chip.ctrl_hum,
                                        Chosen(desired, "osr_h", s.osr_h, w.chip.osr_h)}
    BY <1>2, <2>1, <2>2 DEF Chosen
  <2>a. Told(o) /\ ModeOf(w.chip) = Sleep => Between(o.chip, w.chip, s)
    BY <1>2, <2>1, <2>2
  <2>4. CASE o.rslt # BME280_OK
    BY <1>1, <1>2, <1>4, <2>1, <2>2, <2>3, <2>4, <2>a
  <2>5. CASE o.rslt = BME280_OK /\ desired \cap {"filter", "standby_time"} = {}
    <3>1. "filter" \notin desired /\ "standby_time" \notin desired /\ v = o
      BY <1>1, <1>4, <2>5
    <3> QED BY <1>2, <1>4, <2>1, <2>2, <2>3, <2>5, <2>a, <3>1 DEF Chosen
  <2>6. CASE o.rslt = BME280_OK /\ desired \cap {"filter", "standby_time"} # {}
    <3>1. o \in Worlds /\ o.dev.settings = s /\ v = b
      BY <1>1, <1>2, <1>4, <2>1, <2>6 DEF After
    <3>2. /\ After(o, b) /\ b.dev = o.dev /\ (Well(b) => b.rslt = BME280_OK)
          /\ b.chip.ctrl_hum = o.chip.ctrl_hum /\ b.chip.ctrl_meas = o.chip.ctrl_meas
          /\ b.chip.osr_h = o.chip.osr_h
          /\ Told(b) /\ b.rslt = BME280_OK /\ ModeOf(o.chip) = Sleep =>
               /\ Filter(b.chip) = Chosen(desired, "filter", s.filter, Filter(o.chip))
               /\ Standby(b.chip)
                        = Chosen(desired, "standby_time", s.standby_time, Standby(o.chip))
          /\ Told(b) => Between(b.chip, o.chip, s)
      BY <3>1, FilterStandby
    <3> HIDE DEF b
    <3>3. After(w, b) /\ (Told(b) => Told(o)) /\ (Well(b) => Well(o))
      BY <2>2, <3>2, AfterAfter, Earlier
    <3>4. ModeOf(b.chip) = ModeOf(o.chip) /\ OsrP(b.chip) = OsrP(o.chip) /\ OsrT(b.chip) = OsrT(o.chip)
      BY <3>2 DEF ModeOf, OsrP, OsrT
    <3>5. Told(b) /\ ModeOf(w.chip) = Sleep => Between(b.chip, w.chip, s)
      BY <2>a, <3>2, <3>3, BetweenBetween
    <3> QED BY <1>2, <1>4, <2>1, <2>2, <2>3, <2>6, <3>1, <3>2, <3>3, <3>4, <3>5
  <2> QED BY <2>4, <2>5, <2>6
<1> QED BY <1>3, <1>4

\* bme280_set_sensor_mode: ctrl_meas is written last, and osr_h with it.
LEMMA ModeEffect ==
    ASSUME NEW w \in Worlds, NEW mode \in 0..3, NEW v, v = bme280_set_sensor_mode(w, mode)
    PROVE  /\ After(w, v) /\ v.dev = w.dev /\ (Well(v) => v.rslt = BME280_OK)
           /\ Told(v) =>
                /\ v.rslt # BME280_OK => v.chip = w.chip \/ ModeOf(v.chip) = Sleep
                /\ v.rslt = BME280_OK =>
                    /\ ModeOf(v.chip) = mode
                    /\ OsrP(v.chip) = OsrP(w.chip) /\ OsrT(v.chip) = OsrT(w.chip)
                    /\ Filter(v.chip) = Filter(w.chip) /\ Standby(v.chip) = Standby(w.chip)
           /\ Well(v) => v.chip.osr_h = w.chip.ctrl_hum
           /\ v.rslt = BME280_OK => ModeOf(v.chip) = mode
           /\ Told(v) /\ v.rslt = BME280_OK /\ ModeOf(w.chip) = Sleep =>
                v.chip.osr_h = w.chip.ctrl_hum
<1> DEFINE a == Asleep(w)
           b == bme280_get_regs(a, "CTRL_MEAS")
           byte == SetBits(b.bytes[0], 1, 4, mode)
           c == bme280_set_regs(b, "CTRL_MEAS", byte)
<1>1. v = IF a.rslt # BME280_OK THEN a ELSE IF b.rslt # BME280_OK THEN b ELSE c
  BY DEF bme280_set_sensor_mode, write_power_mode, Then
<1>2. /\ After(w, a) /\ a.dev = w.dev /\ (Well(a) => a.rslt = BME280_OK)
      /\ Told(a) =>
           /\ a.chip = w.chip \/ ModeOf(a.chip) = Sleep
           /\ a.rslt = BME280_OK =>
               /\ ModeOf(a.chip) = Sleep
               /\ OsrP(a.chip) = OsrP(w.chip) /\ OsrT(a.chip) = OsrT(w.chip)
               /\ Filter(a.chip) = Filter(w.chip) /\ Standby(a.chip) = Standby(w.chip)
      /\ Well(a) => a.chip.ctrl_hum = w.chip.ctrl_hum
      /\ Told(a) /\ ModeOf(w.chip) = Sleep => a.chip = w.chip
  BY AsleepEffect
<1> HIDE DEF a
<1>3. /\ After(a, b) /\ b.dev = a.dev /\ b.chip = a.chip /\ (Well(b) => b.rslt = BME280_OK)
      /\ b.rslt = BME280_OK => b.bytes[0] \in Byte
      /\ b.rslt = BME280_OK /\ Told(b) => b.bytes[0] = a.chip.ctrl_meas
  BY <1>2, GetMeas DEF After
<1> HIDE DEF b
<1>4. After(w, b) /\ (Told(b) => Told(a)) /\ (Well(b) => Well(a))
  BY <1>2, <1>3, AfterAfter, Earlier
<1>5. CASE a.rslt # BME280_OK
  BY <1>1, <1>2, <1>5
<1>6. CASE a.rslt = BME280_OK /\ b.rslt # BME280_OK
  BY <1>1, <1>2, <1>3, <1>4, <1>6
<1>7. CASE a.rslt = BME280_OK /\ b.rslt = BME280_OK
  <2>1. /\ byte \in Byte /\ GetBits(byte, 1, 4) = mode
        /\ GetBits(byte, 4, 8) = GetBits(b.bytes[0], 4, 8)
        /\ GetBits(byte, 32, 8) = GetBits(b.bytes[0], 32, 8)
    BY <1>3, <1>7, ModeField
  <2> HIDE DEF byte
  <2>2. /\ After(b, c) /\ c.dev = b.dev /\ (Well(c) => c.rslt = BME280_OK)
        /\ c.chip.ctrl_hum = b.chip.ctrl_hum /\ c.chip.config = b.chip.config
        /\ c.rslt = BME280_OK => c.chip.ctrl_meas = byte /\ c.chip.osr_h = b.chip.ctrl_hum
        /\ c.rslt # BME280_OK => c.chip = b.chip
    BY <1>3, <2>1, SetMeas DEF After
  <2> HIDE DEF c
  <2>3. After(w, c) /\ (Told(c) => Told(b)) /\ (Well(c) => Well(b))
    BY <1>4, <2>2, AfterAfter, Earlier
  <2>4. Told(c) /\ c.rslt = BME280_OK =>
            /\ ModeOf(c.chip) = mode
            /\ OsrP(c.chip) = OsrP(a.chip) /\ OsrT(c.chip) = OsrT(a.chip)
            /\ Filter(c.chip) = Filter(a.chip) /\ Standby(c.chip) = Standby(a.chip)
    BY <1>3, <1>7, <2>1, <2>2, <2>3 DEF ModeOf, Mode, OsrP, OsrT, Filter, Standby
  <2>5. c.rslt = BME280_OK => ModeOf(c.chip) = mode
    BY <2>1, <2>2 DEF ModeOf, Mode
  <2> QED BY <1>1, <1>2, <1>3, <1>4, <1>7, <2>2, <2>3, <2>4, <2>5
<1> QED BY <1>5, <1>6, <1>7

LEMMA ForceFields ==
    ASSUME NEW c
    PROVE  /\ InForce(c)["osr_h"] = c.osr_h
           /\ InForce(c)["osr_p"] = OsrP(c) /\ InForce(c)["osr_t"] = OsrT(c)
           /\ InForce(c)["filter"] = Filter(c) /\ InForce(c)["standby_time"] = Standby(c)
BY DEF InForce, OsrP, OsrT, Filter, Standby

\* Every setting in force is the one asked for, or as after a reset.
HalfSet(c, want) == \A s \in Setting : InForce(c)[s] \in {want[s], InForce(Reset(c))[s]}

\* bme_init (bme280/common/common.c): the result of setting the settings is lost,
\* so that they are only known to be in force if nothing failed.
LEMMA BmeInitEffect ==
    ASSUME NEW w \in Worlds, IsSettings(w.dev.settings), NEW v, v = bme_init(w)
    PROVE  LET s == w.dev.settings
           IN  /\ After(w, v) /\ v.dev.settings = s
               /\ Told(v) =>
                    /\ v.rslt # BME280_OK => v.chip = w.chip \/ ModeOf(v.chip) = Sleep
                    /\ v.rslt = BME280_OK => HalfSet(v.chip, s)
               /\ v.rslt = BME280_OK => ModeOf(v.chip) = Normal
               /\ v.rslt = BME280_OK /\ Calm(v) => v.dev.calib_data = v.chip.trim
               /\ Well(v) /\ w.chip.id \in {BME280_CHIP_ID, BMP280_CHIP_ID} =>
                    /\ v.rslt = BME280_OK
                    /\ OsrP(v.chip) = s.osr_p /\ OsrT(v.chip) = s.osr_t
                    /\ Filter(v.chip) = s.filter /\ v.chip.osr_h = s.osr_h
<1> DEFINE s == w.dev.settings
           a == bme280_init(w)
           desired == Setting \ {"standby_time"}
           b == bme280_set_sensor_settings(a, desired)
           c == [b EXCEPT !.rslt = BME280_OK]
           d == bme280_set_sensor_mode(c, Normal)
<1>1. v = IF a.rslt = BME280_OK THEN d ELSE a
  BY DEF bme_init, Then
<1>2. /\ After(w, a) /\ a.dev.settings = w.dev.settings
      /\ a.chip = w.chip \/ a.chip = Reset(w.chip)
      /\ a.rslt = BME280_OK => a.chip = Reset(w.chip)
      /\ a.rslt = BME280_OK /\ Calm(a) => a.dev.calib_data = w.chip.trim
      /\ Well(a) /\ w.chip.id \in {BME280_CHIP_ID, BMP280_CHIP_ID} => a.rslt = BME280_OK
  BY InitEffect
<1> HIDE DEF a
<1>3. ModeOf(Reset(w.chip)) = Sleep
  BY ResetFields DEF Worlds
<1>4. CASE a.rslt # BME280_OK
  BY <1>1, <1>2, <1>3, <1>4
<1>5. CASE a.rslt = BME280_OK
  <2>1. /\ desired \in SUBSET Setting
        /\ "osr_p" \in desired /\ "osr_t" \in desired /\ "osr_h" \in desired /\ "filter" \in desired
    BY DEF Setting
  <2> HIDE DEF desired
  <2>2. /\ After(a, b) /\ b.dev = a.dev /\ (Well(b) => b.rslt = BME280_OK)
        /\ Told(b) =>
             /\ b.chip = a.chip \/ ModeOf(b.chip) = Sleep
             /\ b.rslt = BME280_OK =>
                 /\ OsrP(b.chip) = s.osr_p /\ OsrT(b.chip) = s.osr_t
                 /\ Filter(b.chip) = s.filter
             /\ Between(b.chip, Reset(w.chip), s)
        /\ Well(b) => b.chip.ctrl_hum = s.osr_h
    <3>1. a \in Worlds /\ IsSettings(a.dev.settings) /\ a.dev.settings = s
      BY <1>2 DEF After
    <3>2. ModeOf(a.chip) = Sleep /\ a.chip = Reset(w.chip)
      BY <1>2, <1>3, <1>5
    <3> QED BY <2>1, <3>1, <3>2, SettingsEffect DEF Chosen
  <2> HIDE DEF b
  <2>3. /\ After(b, c) /\ c.chip = b.chip /\ c.dev = b.dev
        /\ (Told(c) => Told(b)) /\ (Calm(c) => Calm(b)) /\ (Well(c) => Well(b))
    <3>1. b \in Worlds /\ BME280_OK \in Results /\ b.n \in Nat
      BY <2>2 DEF After, Results, Worlds
    <3> HIDE DEF c
    <3>2. /\ c = [b EXCEPT !.rslt = BME280_OK]
      BY DEF c
    <3>3. /\ c \in Worlds /\ c.chip = b.chip /\ c.dev = b.dev /\ c.n = b.n /\ c.luck = b.luck
          /\ c.lost = b.lost
      BY <3>1, <3>2 DEF Worlds
    <3>4. After(b, c)
      BY <3>1, <3>3 DEF After
    <3> QED BY <3>3, <3>4, Earlier
  <2> HIDE DEF c
  <2>4. /\ After(c, d) /\ d.dev = c.dev /\ (Well(d) => d.rslt = BME280_OK)
        /\ Told(d) =>
             /\ d.rslt # BME280_OK => d.chip = c.chip \/ ModeOf(d.chip) = Sleep
             /\ d.rslt = BME280_OK =>
                 /\ ModeOf(d.chip) = Normal
                 /\ OsrP(d.chip) = OsrP(c.chip) /\ OsrT(d.chip) = OsrT(c.chip)
                 /\ Filter(d.chip) = Filter(c.chip) /\ Standby(d.chip) = Standby(c.chip)
                 /\ ModeOf(c.chip) = Sleep => d.chip.osr_h = c.chip.ctrl_hum
        /\ d.rslt = BME280_OK => ModeOf(d.chip) = Normal
        /\ Well(d) => d.chip.osr_h = c.chip.ctrl_hum
    <3>1. c \in Worlds /\ Normal \in 0..3
      BY <2>3 DEF After, Normal
    <3> QED BY <3>1, ModeEffect
  <2> HIDE DEF d
  <2>5. After(w, b) /\ After(w, c) /\ After(w, d)
    BY <1>2, <2>2, <2>3, <2>4, AfterAfter
  <2>6. /\ Told(d) => Told(c) /\ Told(b) /\ Told(a)
        /\ Calm(d) => Calm(c) /\ Calm(b) /\ Calm(a)
        /\ Well(d) => Well(c) /\ Well(b) /\ Well(a) /\ Told(d)
    BY <2>2, <2>3, <2>4, Earlier DEF Well
  <2>7. d.chip.trim = w.chip.trim
    BY <2>5 DEF After
  <2>8. ASSUME Told(d), d.rslt = BME280_OK PROVE HalfSet(d.chip, s)
    <3> DEFINE r == Reset(d.chip)
    <3>1. /\ Reset(w.chip).osr_h = 0 /\ Reset(w.chip).ctrl_hum = 0 /\ r.osr_h = 0
          /\ OsrP(Reset(w.chip)) = OsrP(r) /\ OsrT(Reset(w.chip)) = OsrT(r)
          /\ Filter(Reset(w.chip)) = Filter(r) /\ Standby(Reset(w.chip)) = Standby(r)
      <4>1. w.chip \in Chip /\ d.chip \in Chip
        BY <2>5 DEF After, Worlds
      <4> QED BY <4>1 DEF Reset, WithRegisters, Chip, OsrP, OsrT, Filter, Standby
    <3> HIDE DEF r
    <3>2. ModeOf(c.chip) = Sleep
      BY <1>2, <1>3, <1>5, <2>2, <2>3, <2>6, <2>8
    <3>3. /\ OsrP(d.chip) \in {OsrP(r), s.osr_p} /\ OsrT(d.chip) \in {OsrT(r), s.osr_t}
          /\ Filter(d.chip) \in {Filter(r), s.filter}
          /\ Standby(d.chip) \in {Standby(r), s.standby_time} /\ d.chip.osr_h \in {r.osr_h, s.osr_h}
      BY <2>2, <2>3, <2>4, <2>6, <2>8, <3>1, <3>2 DEF Between
    <3> QED BY <3>3, ForceFields DEF HalfSet, Setting, r
  <2> QED BY <1>1, <1>2, <1>3, <1>5, <2>2, <2>3, <2>4, <2>5, <2>6, <2>7, <2>8
<1> QED BY <1>4, <1>5

-------------------------------------------------------------------------------
(* The specification. *)

\* The type invariant, with the shape of call for it to be inductive.
TypeInv ==
    /\ TypeOK
    /\ call = [name |-> call.name, arg |-> call.arg, rslt |-> call.rslt,
               failed |-> call.failed, lost |-> call.lost]

LEMMA WorldType ==
    ASSUME NEW luck \in Luck, NEW d \in Dev, TypeOK, NEW w, w = World(luck, d)
    PROVE  w \in Worlds /\ w.chip = chip /\ w.dev = d /\ IsSettings(w.dev.settings)
<1>1. /\ w = [chip |-> chip, dev |-> d, rslt |-> BME280_OK, bytes |-> <<>>, n |-> 0,
             lost |-> {}, luck |-> luck]
  BY DEF World
<1>2. <<>> \in Bytes /\ BME280_OK \in Results
  BY DEF Bytes, Results
<1>3. chip \in Chip
  BY DEF TypeOK, Chip
<1>4. IsSettings(d.settings)
  BY DEF Dev, IsSettings
<1> QED BY <1>1, <1>2, <1>3, <1>4 DEF Worlds

\* What a call that returns leaves of its world: its luck held out to the last
\* transfer, or call says that it did not.
LEMMA ReturnsEffect ==
    ASSUME NEW name, NEW arg, NEW w, NEW v, After(w, v), Returns(name, arg, v)
    PROVE  /\ TypeInv' <=> ready' \in BOOLEAN
           /\ chip' = v.chip /\ dev' = v.dev
           /\ call'.name = name /\ call'.arg = arg /\ call'.rslt = v.rslt
           /\ call'.lost = v.lost /\ (call'.lost = {} <=> Told(v))
           /\ call'.lost = {} /\ ~call'.failed <=> Well(v)
<1>1. /\ v \in Worlds /\ v.chip \in Chip /\ v.dev \in Dev /\ v.rslt \in Results
      /\ v.n \in Nat /\ v.luck.busy \in Nat
  BY LuckType DEF After, Worlds
<1>2. /\ chip' = v.chip /\ dev' = v.dev
      /\ call' = [name |-> name, arg |-> arg, rslt |-> v.rslt,
                  failed |-> v.luck.errors \cap 1..v.n # {} \/ v.luck.busy > 5,
                  lost |-> v.lost]
  BY DEF Returns
<1>3. /\ call'.name = name /\ call'.arg = arg /\ call'.rslt = v.rslt
      /\ call'.failed = (v.luck.errors \cap 1..v.n # {} \/ v.luck.busy > 5)
      /\ call'.lost = v.lost
  BY <1>2
<1>4. TypeInv' <=> ready' \in BOOLEAN
  BY <1>1, <1>2, <1>3 DEF TypeInv, TypeOK, Chip, Dev, Results
<1>5. v.luck.busy > 5 <=> ~(v.luck.busy <= 5)
  BY <1>1
<1> QED BY <1>2, <1>3, <1>4, <1>5 DEF Told, Well

LEMMA InitType == Init => TypeInv
<1> SUFFICES ASSUME Init PROVE TypeInv
  OBVIOUS
<1>1. PICK id \in ChipIds, trim \in Trims :
        chip = [id |-> id, trim |-> trim, ctrl_hum |-> 0, ctrl_meas |-> 0, config |-> 0, osr_h |-> 0]
  BY DEF Init
<1>2. PICK settings \in Desired :
        dev = [chip_id |-> 0, settings |-> settings, calib_data |-> Uncalibrated]
  BY DEF Init
<1>3. id \in Byte /\ trim \in Trim /\ settings \in [Setting -> 0..7] /\ 0 \in Byte /\ 0 \in 0..7
  BY DriverAssumption DEF Byte
<1>4. Uncalibrated \in Trim
  <2>1. 0 \in Unsigned(65536) /\ 0 \in TwosComplement(65536) /\ 0 \in TwosComplement(4096)
    BY DEF Unsigned, TwosComplement
  <2> QED BY <2>1 DEF Uncalibrated, Trim
<1>5. chip \in Chip /\ dev \in Dev
  BY <1>1, <1>2, <1>3, <1>4 DEF Chip, Dev
<1>6. /\ ready \in BOOLEAN
      /\ call = [name |-> "none", arg |-> {}, rslt |-> BME280_OK, failed |-> FALSE, lost |-> {}]
  BY DEF Init
<1> QED BY <1>5, <1>6 DEF TypeInv, TypeOK, Chip, Dev

\* What a call that fails leaves behind: NeverHalfMeasuring's step.
HalfMeasuring ==
    call'.name # "none" /\ call'.lost = {} =>
        IF call'.rslt # BME280_OK THEN chip' = chip \/ Mode(chip'.ctrl_meas) = Sleep
        ELSE call'.name = "bme_init" =>
            \A s \in Setting : InForce(chip')[s] \in {dev'.settings[s], InForce(Reset(chip'))[s]}

LEMMA InitCallStep ==
    ASSUME TypeInv, InitCall
    PROVE  /\ TypeInv' /\ InitConfigures' /\ StartedSensorIsCalibrated' /\ HalfMeasuring
           /\ call'.name = "bme_init"
<1>1. PICK luck \in Luck : /\ Returns("bme_init", {}, bme_init(World(luck, dev)))
                          /\ ready' = (call'.rslt = BME280_OK)
  BY DEF InitCall
<1> DEFINE w == World(luck, dev)
           v == bme_init(w)
<1>2. w \in Worlds /\ w.chip = chip /\ w.dev = dev /\ IsSettings(w.dev.settings)
  BY WorldType DEF TypeInv, TypeOK, Dev
<1> HIDE DEF w
<1>3. /\ After(w, v) /\ v.dev.settings = dev.settings
      /\ Told(v) =>
           /\ v.rslt # BME280_OK => v.chip = chip \/ ModeOf(v.chip) = Sleep
           /\ v.rslt = BME280_OK => HalfSet(v.chip, dev.settings)
      /\ v.rslt = BME280_OK => ModeOf(v.chip) = Normal
      /\ v.rslt = BME280_OK /\ Calm(v) => v.dev.calib_data = v.chip.trim
      /\ Well(v) /\ chip.id \in {BME280_CHIP_ID, BMP280_CHIP_ID} =>
           /\ v.rslt = BME280_OK
           /\ OsrP(v.chip) = dev.settings.osr_p /\ OsrT(v.chip) = dev.settings.osr_t
           /\ Filter(v.chip) = dev.settings.filter /\ v.chip.osr_h = dev.settings.osr_h
  BY <1>2, BmeInitEffect
<1>4. Returns("bme_init", {}, v)
  BY <1>1 DEF w
<1> HIDE DEF v
<1>5. /\ TypeInv' <=> ready' \in BOOLEAN
      /\ chip' = v.chip /\ dev' = v.dev
      /\ call'.name = "bme_init" /\ call'.rslt = v.rslt /\ call'.lost = v.lost
      /\ call'.lost = {} <=> Told(v)
      /\ call'.lost = {} /\ ~call'.failed <=> Well(v)
  BY <1>3, <1>4, ReturnsEffect
<1>6. chip'.id = chip.id /\ (Well(v) => Told(v))
  BY <1>2, <1>3, <1>5 DEF After, Well
<1>7. TypeInv'
  BY <1>1, <1>5
<1>8. InitConfigures'
  <2> SUFFICES ASSUME Well(v), chip.id \in {BME280_CHIP_ID, BMP280_CHIP_ID}
               PROVE  /\ ready' /\ Mode(chip'.ctrl_meas) = Normal
                      /\ \A s \in Setting \ {"standby_time"} : InForce(chip')[s] = dev'.settings[s]
    BY <1>5, <1>6 DEF InitConfigures
  <2>1. ready' /\ Mode(chip'.ctrl_meas) = Normal
    BY <1>1, <1>3, <1>5, <1>6 DEF ModeOf
  <2>2. /\ InForce(chip')["osr_p"] = dev'.settings["osr_p"]
        /\ InForce(chip')["osr_t"] = dev'.settings["osr_t"]
        /\ InForce(chip')["osr_h"] = dev'.settings["osr_h"]
        /\ InForce(chip')["filter"] = dev'.settings["filter"]
    BY <1>3, <1>5, ForceFields
  <2> QED BY <2>1, <2>2 DEF Setting
<1>9. StartedSensorIsCalibrated'
  BY <1>1, <1>3, <1>5 DEF StartedSensorIsCalibrated, ModeOf, Calm
<1>10. HalfMeasuring
  <2>1. chip' = v.chip /\ dev'.settings = dev.settings
    BY <1>3, <1>5
  <2>2. Told(v) /\ v.rslt = BME280_OK =>
            \A s \in Setting :
                InForce(v.chip)[s] \in {dev.settings[s], InForce(Reset(v.chip))[s]}
    BY <1>3 DEF HalfSet
  <2>3. Told(v) /\ v.rslt # BME280_OK => v.chip = chip \/ Mode(v.chip.ctrl_meas) = Sleep
    BY <1>3 DEF ModeOf
  <2> HIDE DEF v
  <2> QED BY <1>5, <2>1, <2>2, <2>3 DEF HalfMeasuring
<1> QED BY <1>5, <1>7, <1>8, <1>9, <1>10

\* SelectedSettingsAreSet's step, and ModeKeepsSettings's.
SelectedSet ==
    call'.name = "set_settings" /\ call'.rslt = BME280_OK /\ call'.lost = {} =>
        \A s \in Setting \ (IF call'.failed THEN {"osr_h"} ELSE {}) :
            IF s \in call'.arg THEN InForce(chip')[s] = dev'.settings[s] ELSE Kept(s)

ModeKept ==
    call'.name = "set_mode" /\ call'.rslt = BME280_OK /\ call'.lost = {} =>
        /\ {Mode(chip'.ctrl_meas)} = call'.arg
        /\ \A s \in Setting \ (IF call'.failed THEN {"osr_h"} ELSE {}) : Kept(s)

LEMMA SettingsCallStep ==
    ASSUME TypeInv, SettingsCall
    PROVE  TypeInv' /\ SelectedSet /\ HalfMeasuring /\ call'.name = "set_settings"
<1>1. PICK luck \in Luck, settings \in Desired, desired \in Selections :
        /\ Returns("set_settings", desired,
                   bme280_set_sensor_settings(World(luck, [dev EXCEPT !.settings = settings]), desired))
        /\ UNCHANGED ready
  BY DEF SettingsCall
<1> DEFINE d == [dev EXCEPT !.settings = settings]
           w == World(luck, d)
           v == bme280_set_sensor_settings(w, desired)
<1>2. w \in Worlds /\ w.chip = chip /\ w.dev = d /\ IsSettings(w.dev.settings)
  <2>1. dev \in Dev /\ settings \in [Setting -> 0..7]
    BY DriverAssumption DEF TypeInv, TypeOK, Dev
  <2>2. d \in Dev
    BY <2>1 DEF Dev
  <2> HIDE DEF d
  <2> QED BY <2>2, WorldType DEF TypeInv
<1>3. desired \in SUBSET Setting
  BY DriverAssumption
<1>4. Returns("set_settings", desired, v)
  BY <1>1
<1> HIDE DEF w, d
<1> DEFINE s == d.settings
<1>5. /\ After(w, v) /\ v.dev = d
      /\ Told(v) =>
           /\ v.chip = chip \/ ModeOf(v.chip) = Sleep
           /\ v.rslt = BME280_OK =>
               /\ OsrP(v.chip) = Chosen(desired, "osr_p", s.osr_p, OsrP(chip))
               /\ OsrT(v.chip) = Chosen(desired, "osr_t", s.osr_t, OsrT(chip))
               /\ Filter(v.chip) = Chosen(desired, "filter", s.filter, Filter(chip))
               /\ Standby(v.chip) = Chosen(desired, "standby_time", s.standby_time, Standby(chip))
      /\ Well(v) =>
           /\ v.chip.ctrl_hum = Chosen(desired, "osr_h", s.osr_h, chip.ctrl_hum)
           /\ v.chip.osr_h \in {v.chip.ctrl_hum, Chosen(desired, "osr_h", s.osr_h, chip.osr_h)}
  BY <1>2, <1>3, SettingsEffect
<1> HIDE DEF v
<1>6. /\ TypeInv' <=> ready' \in BOOLEAN
      /\ chip' = v.chip /\ dev' = d
      /\ call'.name = "set_settings" /\ call'.arg = desired /\ call'.rslt = v.rslt
      /\ call'.lost = {} <=> Told(v)
      /\ call'.lost = {} /\ ~call'.failed <=> Well(v)
  BY <1>4, <1>5, ReturnsEffect
<1>7. TypeInv'
  BY <1>1, <1>6 DEF TypeInv, TypeOK
<1>8. SelectedSet
  <2> SUFFICES ASSUME v.rslt = BME280_OK, Told(v), NEW f \in Setting, call'.failed => f # "osr_h"
               PROVE  IF f \in desired THEN InForce(chip')[f] = s[f] ELSE Kept(f)
    BY <1>6 DEF SelectedSet
  <2>1. CASE f = "osr_p"
    BY <1>5, <1>6, <2>1, ForceFields DEF Chosen, Kept
  <2>2. CASE f = "osr_t"
    BY <1>5, <1>6, <2>2, ForceFields DEF Chosen, Kept
  <2>3. CASE f = "filter"
    BY <1>5, <1>6, <2>3, ForceFields DEF Chosen, Kept
  <2>4. CASE f = "standby_time"
    BY <1>5, <1>6, <2>4, ForceFields DEF Chosen, Kept
  <2>5. CASE f = "osr_h"
    <3>1. Well(v)
      BY <1>6, <2>5
    <3> QED BY <1>5, <1>6, <2>5, <3>1, ForceFields DEF Chosen, Kept
  <2> QED BY <2>1, <2>2, <2>3, <2>4, <2>5 DEF Setting
<1>9. HalfMeasuring
  BY <1>5, <1>6 DEF HalfMeasuring, ModeOf
<1> QED BY <1>6, <1>7, <1>8, <1>9

LEMMA ModeCallStep ==
    ASSUME TypeInv, ModeCall
    PROVE  TypeInv' /\ ModeKept /\ HalfMeasuring /\ call'.name = "set_mode"
<1>1. PICK luck \in Luck, mode \in {Sleep, Forced, Normal} :
        /\ Returns("set_mode", {mode}, bme280_set_sensor_mode(World(luck, dev), mode))
        /\ UNCHANGED ready
  BY DEF ModeCall
<1> DEFINE w == World(luck, dev)
           v == bme280_set_sensor_mode(w, mode)
<1>2. w \in Worlds /\ w.chip = chip /\ w.dev = dev /\ mode \in 0..3
  <2>1. mode \in 0..3
    BY DEF Sleep, Forced, Normal
  <2> QED BY <2>1, WorldType DEF TypeInv, TypeOK, Dev
<1>3. Returns("set_mode", {mode}, v)
  BY <1>1
<1> HIDE DEF w
<1>4. /\ After(w, v) /\ v.dev = dev
      /\ Told(v) =>
           /\ v.rslt # BME280_OK => v.chip = chip \/ ModeOf(v.chip) = Sleep
           /\ v.rslt = BME280_OK =>
               /\ ModeOf(v.chip) = mode
               /\ OsrP(v.chip) = OsrP(chip) /\ OsrT(v.chip) = OsrT(chip)
               /\ Filter(v.chip) = Filter(chip) /\ Standby(v.chip) = Standby(chip)
      /\ Well(v) => v.chip.osr_h = chip.ctrl_hum
  BY <1>2, ModeEffect
<1> HIDE DEF v
<1>5. /\ TypeInv' <=> ready' \in BOOLEAN
      /\ chip' = v.chip /\ dev' = v.dev
      /\ call'.name = "set_mode" /\ call'.arg = {mode} /\ call'.rslt = v.rslt
      /\ call'.lost = {} <=> Told(v)
      /\ call'.lost = {} /\ ~call'.failed <=> Well(v)
  BY <1>3, <1>4, ReturnsEffect
<1>6. TypeInv'
  BY <1>1, <1>5 DEF TypeInv, TypeOK
<1>7. ModeKept
  <2> SUFFICES ASSUME v.rslt = BME280_OK, Told(v)
               PROVE  /\ Mode(chip'.ctrl_meas) = mode
                      /\ \A f \in Setting : (call'.failed => f # "osr_h") => Kept(f)
    BY <1>5 DEF ModeKept
  <2>1. Mode(chip'.ctrl_meas) = mode
    BY <1>4, <1>5 DEF ModeOf
  <2>2. ASSUME NEW f \in Setting, call'.failed => f # "osr_h" PROVE Kept(f)
    <3>1. CASE f = "osr_h"
      BY <1>4, <1>5, <2>2, <3>1 DEF Kept
    <3>2. CASE f # "osr_h"
      BY <1>4, <1>5, <3>2, ForceFields DEF Kept, Setting
    <3> QED BY <3>1, <3>2
  <2> QED BY <2>1, <2>2
<1>8. HalfMeasuring
  BY <1>4, <1>5 DEF HalfMeasuring, ModeOf
<1> QED BY <1>5, <1>6, <1>7, <1>8

\* What the sensor does by itself is no call.
LEMMA ChipStep ==
    ASSUME TypeInv, ForcedDone \/ PowerLost
    PROVE  TypeInv' /\ call'.name = "none"
<1>1. chip \in Chip /\ dev \in Dev /\ ready \in BOOLEAN /\ call.rslt \in Results
  BY DEF TypeInv, TypeOK, Chip, Dev, Results
<1>2. chip' \in Chip
  <2>1. CASE ForcedDone
    <3>1. chip.ctrl_meas \in Byte /\ Sleep \in 0..3
      BY <1>1 DEF Chip, Sleep
    <3>2. SetBits(chip.ctrl_meas, 1, 4, Sleep) \in Byte
      BY <3>1, ModeField
    <3>3. chip' = [chip EXCEPT !.ctrl_meas = SetBits(chip.ctrl_meas, 1, 4, Sleep)]
      BY <2>1 DEF ForcedDone
    <3> QED BY <1>1, <3>2, <3>3 DEF Chip
  <2>2. CASE PowerLost
    <3>1. chip' = Reset(chip) /\ 0 \in Byte /\ 0 \in 0..7
      BY <2>2 DEF PowerLost, Byte
    <3> QED BY <1>1, <3>1 DEF Chip, Reset, WithRegisters
  <2> QED BY <2>1, <2>2
<1>3. call' = [call EXCEPT !.name = "none"] /\ dev' = dev /\ ready' = ready
  BY DEF ForcedDone, PowerLost
<1>4. call' = [name |-> "none", arg |-> call.arg, rslt |-> call.rslt,
               failed |-> call.failed, lost |-> call.lost]
  BY <1>3 DEF TypeInv
<1>5. call'.name = "none" /\ call'.rslt = call.rslt /\ call' = [name |-> call'.name, arg |-> call'.arg,
        rslt |-> call'.rslt, failed |-> call'.failed, lost |-> call'.lost]
  BY <1>4
<1> QED BY <1>1, <1>2, <1>3, <1>5 DEF TypeInv, TypeOK, Chip, Dev, Results

\* Every step, with what each of the properties says of it.
LEMMA Step ==
    ASSUME TypeInv, InitConfigures, StartedSensorIsCalibrated, [Next]_vars
    PROVE  /\ TypeInv' /\ InitConfigures' /\ StartedSensorIsCalibrated'
           /\ [SelectedSet]_vars /\ [ModeKept]_vars /\ [HalfMeasuring]_vars
<1>1. CASE InitCall
  BY <1>1, InitCallStep DEF SelectedSet, ModeKept
<1>2. CASE SettingsCall
  BY <1>2, SettingsCallStep DEF ModeKept, InitConfigures, StartedSensorIsCalibrated
<1>3. CASE ModeCall
  BY <1>3, ModeCallStep DEF SelectedSet, InitConfigures, StartedSensorIsCalibrated
<1>4. CASE ForcedDone \/ PowerLost
  BY <1>4, ChipStep DEF SelectedSet, ModeKept, HalfMeasuring, InitConfigures, StartedSensorIsCalibrated
<1>5. CASE UNCHANGED vars
  BY <1>5 DEF vars, TypeInv, TypeOK, InitConfigures, StartedSensorIsCalibrated
<1> QED BY <1>1, <1>2, <1>3, <1>4, <1>5 DEF Next

DriverInv == TypeInv /\ InitConfigures /\ StartedSensorIsCalibrated

LEMMA DriverInvariant == Spec => []DriverInv
<1>1. Init => DriverInv
  <2>1. Init => call.name = "none"
    BY DEF Init
  <2> QED BY <2>1, InitType DEF DriverInv, InitConfigures, StartedSensorIsCalibrated
<1>2. DriverInv /\ [Next]_vars => DriverInv'
  BY Step DEF DriverInv
<1> QED BY <1>1, <1>2, PTL DEF Spec

\* Registers, settings and calibration keep to their widths.
THEOREM TypeCorrect == Spec => []TypeOK
<1>1. DriverInv => TypeOK
  BY DEF DriverInv, TypeInv
<1> QED BY <1>1, DriverInvariant, PTL

\* bme_init, when nothing goes wrong, finds a sensor it knows and leaves it
\* measuring with the settings asked for.
THEOREM InitIsComplete == Spec => []InitConfigures
<1>1. DriverInv => InitConfigures
  BY DEF DriverInv
<1> QED BY <1>1, DriverInvariant, PTL

\* Whatever failed in a bme_init that reports success, the sensor measures; and
\* whatever reads got another register's bytes, the calibration in use is its own
\* as long as its own reads, and the status reads before them, did not
\* (get_calib_data, bme280_init).
THEOREM CalibrationIsItsOwn == Spec => []StartedSensorIsCalibrated
<1>1. DriverInv => StartedSensorIsCalibrated
  BY DEF DriverInv
<1> QED BY <1>1, DriverInvariant, PTL

\* bme280_set_sensor_settings sets the selected settings and no others, whatever
\* the sensor was doing.
THEOREM SettingsAreSelective == Spec => SelectedSettingsAreSet
<1>1. DriverInv /\ [Next]_vars => [SelectedSet]_vars
  BY Step DEF DriverInv
<1>2. []DriverInv /\ [][Next]_vars => [][SelectedSet]_vars
  BY <1>1, PTL
<1>3. [][SelectedSet]_vars => SelectedSettingsAreSet
  BY DEF SelectedSet, SelectedSettingsAreSet
<1> QED BY <1>2, <1>3, DriverInvariant, PTL DEF Spec

\* bme280_set_sensor_mode changes nothing but the mode, over the reset in between.
THEOREM ModeIsSelective == Spec => ModeKeepsSettings
<1>1. DriverInv /\ [Next]_vars => [ModeKept]_vars
  BY Step DEF DriverInv
<1>2. []DriverInv /\ [][Next]_vars => [][ModeKept]_vars
  BY <1>1, PTL
<1>3. [][ModeKept]_vars => ModeKeepsSettings
  BY DEF ModeKept, ModeKeepsSettings
<1> QED BY <1>2, <1>3, DriverInvariant, PTL DEF Spec

\* A call that reports a failure, at whichever of its transfers, leaves the sensor
\* as it was or asleep; a bme_init that reports success over a failure leaves each
\* setting as asked for or as reset.
THEOREM FailureIsHarmless == Spec => NeverHalfMeasuring
<1>1. DriverInv /\ [Next]_vars => [HalfMeasuring]_vars
  BY Step DEF DriverInv
<1>2. []DriverInv /\ [][Next]_vars => [][HalfMeasuring]_vars
  BY <1>1, PTL
<1>3. [][HalfMeasuring]_vars => NeverHalfMeasuring
  BY DEF HalfMeasuring, NeverHalfMeasuring
<1> QED BY <1>2, <1>3, DriverInvariant, PTL DEF Spec
===============================================================================
