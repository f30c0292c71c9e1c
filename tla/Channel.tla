------------------------------ MODULE Channel -------------------------------
(***************************************************************************)
(* What one colour channel does as a whole: how much of a stream           *)
(* ijel_stuff_message puts into a channel of a given number of MCUs, and   *)
(* what ijel_unstuff_message returns for it (ijel.c).  The walk over the   *)
(* MCUs is in Steg; StegLink shows that it has these results.  Channels    *)
(* composes them into jel_embed and jel_extract.                           *)
(***************************************************************************)
EXTENDS Integers

CONSTANTS
    McuBits,   \* bits in one active MCU: nfreqs * bits_per_freq
    Garbage    \* lengths a receiver out of step may decode

ASSUME ChannelAssumption ==
    /\ McuBits \in Nat \ {0}
    /\ Garbage \subseteq Nat

HeaderBits == 48                       \* density, length, checksum
StreamBits(len) == HeaderBits + 8 * len

Unspecified == -1      \* mcu_density when it is to be computed from the message

JEL_ERR_MSG_OVERFLOW == -10
JEL_ERR_CHECKSUM == -13

Lesser(a, b) == IF a < b THEN a ELSE b
Greater(a, b) == IF a > b THEN a ELSE b

-----------------------------------------------------------------------------
(* The sender.                                                             *)

ImageBits(mcus) == McuBits * mcus

\* ijel_image_capacity, in bits.
ImageCapacity(mcus, d) ==
    IF d > 0 /\ d < 100 THEN (d * ImageBits(mcus)) \div 100
                        ELSE ImageBits(mcus)

\* jel_capacity for this channel, in bytes, without ECC.
Capacity(mcus, d) == (ImageCapacity(mcus, d) \div 8) - (HeaderBits \div 8)

\* The message does not fit at all.  Looked at only when the density is to
\* be computed.
Overflows(mcus, d, len) ==
    d = Unspecified /\ StreamBits(len) > ImageCapacity(mcus, d)

\* The density of the stream: the one set, or the least that fits plus one.
StreamDensity(mcus, d, len) ==
    LET c == (100 * StreamBits(len) + ImageBits(mcus) - 1)
                \div ImageBits(mcus)
    IN  IF d # Unspecified THEN d ELSE IF c < 100 THEN c + 1 ELSE c

\* The MCUs after the first that a walk at density d may fill.  MCU m goes by
\* the flag of MCU m - 1, and MCU 0 is always selected: the last flag is
\* never looked at.
Fillable(mcus, seeded, d) ==
    LET active == Greater((d * mcus) \div 100, 1)
    IN  IF ~seeded \/ active >= mcus THEN {mcus - 1}
        ELSE IF active = 1 THEN {1}
        ELSE {active - 1, active}

\* The bits of the stream that go into the channel.
Stored(mcus, seeded, d, len) ==
    { Lesser(StreamBits(len), 8 + McuBits * a) :
        a \in Fillable(mcus, seeded, d) }

-----------------------------------------------------------------------------
(* The receiver.  "buffer" is the cfg->data_lengths entry it starts with.  *)

MaxBytes(mcus) == ImageBits(mcus) \div 8

\* A receiver in step with the sender.
Found(mcus, len, stored, buffer) ==
    IF stored < HeaderBits THEN buffer
    ELSE IF len > MaxBytes(mcus) THEN JEL_ERR_MSG_OVERFLOW
    ELSE len

\* A receiver that reads other coefficients, or in another order: whatever it
\* takes for density, length and checksum.
Misread(mcus, buffer) ==
    {JEL_ERR_CHECKSUM, JEL_ERR_MSG_OVERFLOW, 0, buffer}
        \cup {n \in Garbage : n <= MaxBytes(mcus)}

\* The byte of the message that is in the channel and in the receiver's
\* bit stream, which is as long as its capacity.
Readable(i, stored, capacity) == StreamBits(i + 1) <= stored /\ i < capacity
=============================================================================
