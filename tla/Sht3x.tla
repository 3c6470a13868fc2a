---------------------------------- MODULE Sht3x ----------------------------------
(***************************************************************************)
(* The SHT3x driver, src/sht3x/sht3x.c and src/sht3x/common/common.c, as   *)
(* functions of what is on the bus.  A bus is the pair of what a write     *)
(* returns and what a read finds: the bytes, or the empty sequence when    *)
(* the read fails.                                                         *)
(***************************************************************************)
EXTENDS Integers, Sequences, SequencesExt

OK == 0
FAIL == -1                  \* STATUS_FAIL, a failed read
INVALID_PARAMS == -4

-------------------------------------------------------------------------------
(* Checksums and words. *)

Byte == 0..255
Word == 0 .. 256 * 256 - 1

CRC8_POLYNOMIAL == 49
CRC8_INIT == 255

\* The exclusive or of two bytes, bit by bit.
Xor(x, y) ==
    LET bit(p) == (((x \div p) + (y \div p)) % 2) * p
    IN  bit(128) + bit(64) + bit(32) + bit(16) + bit(8) + bit(4) + bit(2) + bit(1)

CrcShift(crc) == IF crc >= 128 THEN Xor((2 * crc) % 256, CRC8_POLYNOMIAL) ELSE 2 * crc

CrcByte(byte, crc) ==
    LET half(c) == CrcShift(CrcShift(CrcShift(CrcShift(c))))
    IN  half(half(Xor(crc, byte)))

\* Of the two bytes of a word, count being SENSIRION_WORD_SIZE everywhere.
sensirion_common_generate_crc(bytes) == CrcByte(bytes[2], CrcByte(bytes[1], CRC8_INIT))

sensirion_common_check_crc(bytes, checksum) == sensirion_common_generate_crc(bytes) = checksum

BytesOf(word) == <<word \div 256, word % 256>>
WordOf(bytes) == 256 * bytes[1] + bytes[2]

\* A word as it is on the bus.
Framed(word) == Append(BytesOf(word), sensirion_common_generate_crc(BytesOf(word)))

sensirion_fill_cmd_send_buf(cmd, args) == BytesOf(cmd) \o FlattenSeq([n \in 1..Len(args) |-> Framed(args[n])])

\* What follows a failure is what was in the words before, never the words read:
\* garbage, as it is on the stack.
sensirion_i2c_read_words(bus, num_words, garbage) ==
    LET frame(n) == SubSeq(bus.bytes, 3 * n - 2, 3 * n)
        good(n)  == sensirion_common_check_crc(SubSeq(frame(n), 1, 2), frame(n)[3])
    IN  IF Len(bus.bytes) < 3 * num_words THEN [ret |-> FAIL, words |-> garbage]
        ELSE IF \E n \in 1..num_words : ~good(n) THEN [ret |-> FAIL, words |-> garbage]
        ELSE [ret |-> OK, words |-> [n \in 1..num_words |-> WordOf(frame(n))]]

sensirion_i2c_write_cmd(bus) == bus.write

sensirion_i2c_delayed_read_cmd(bus, num_words, garbage) ==
    IF bus.write # OK THEN [ret |-> bus.write, words |-> garbage]
    ELSE sensirion_i2c_read_words(bus, num_words, garbage)

-------------------------------------------------------------------------------
(* Conversions, of 16-bit ticks and thousandths; >> rounds down. *)

tick_to_temperature(tick) == ((21875 * tick) \div 8192) - 45000
tick_to_humidity(tick) == (12500 * tick) \div 8192
temperature_to_tick(temperature) == ((temperature * 12271 + 552195000) \div 32768) % 65536
humidity_to_tick(humidity) == ((humidity * 21474) \div 32768) % 65536

-------------------------------------------------------------------------------
(* The driver. *)

\* Mutant: the result of the read is dropped.
sht3x_read_Unchecked(bus, garbage) ==
    LET read == sensirion_i2c_read_words(bus, 2, garbage)
    IN  [ret |-> OK,
         data |-> [temperature |-> tick_to_temperature(read.words[1]), humidity |-> tick_to_humidity(read.words[2])]]

\* Both values are written, whatever the read returned.
sht3x_read(bus, garbage) ==
    LET read == sensirion_i2c_read_words(bus, 2, garbage)
    IN  [ret |-> read.ret,
         data |-> [temperature |-> tick_to_temperature(read.words[1]), humidity |-> tick_to_humidity(read.words[2])]]

sht3x_measure_blocking_read(bus, data, garbage) ==
    IF sensirion_i2c_write_cmd(bus) # OK THEN [ret |-> bus.write, data |-> data]
    ELSE sht3x_read(bus, garbage)

\* The humidity limit is in the upper seven bits, the temperature's in the other nine.
LimitWord(humidity, temperature) ==
    (humidity_to_tick(humidity) \div 512) * 512 + ((temperature_to_tick(temperature) \div 128) % 512)

Thresholds == {"HIALRT_SET", "HIALRT_CLR", "LOALRT_CLR", "LOALRT_SET"}

\* The word that is sent, with its checksum; none for a threshold that does not exist.
sht3x_set_alert_thd(bus, thd, humidity, temperature) ==
    IF thd \in Thresholds
      THEN [ret |-> bus.write, sent |-> Framed(LimitWord(humidity, temperature))]
      ELSE [ret |-> INVALID_PARAMS, sent |-> <<>>]

sht3x_get_alert_thd(bus, thd, garbage) ==
    LET read == IF thd \in Thresholds
                  THEN sensirion_i2c_delayed_read_cmd(bus, 1, garbage)
                  ELSE [ret |-> INVALID_PARAMS, words |-> garbage]
        word == read.words[1]
    IN  [ret |-> read.ret,
         humidity |-> tick_to_humidity((word \div 512) * 512),
         temperature |-> tick_to_temperature((word % 512) * 128)]
===============================================================================
