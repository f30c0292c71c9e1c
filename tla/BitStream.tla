----------------------------- MODULE BitStream ------------------------------
(***************************************************************************)
(* The bits themselves, which Steg takes by their positions: the fields of *)
(* a jelbs and the order of their bits, the checksum, the code of a value  *)
(* in a coefficient, the limit libjpeg's encoder sets to a coefficient,    *)
(* and what a receiver makes of a stream in which one coefficient has      *)
(* changed on its way.  (ijel.c.)                                          *)
(*                                                                         *)
(* There is no seed, so every MCU is in use whatever the density, and one  *)
(* frequency in an MCU: a step is a coefficient.  Only the density has     *)
(* four, of two bits each.  Integers have two's complement.                *)
(***************************************************************************)
EXTENDS Integers, Sequences

CONSTANTS
    Codes,     \* bits_per_freq and set_lsbs
    Covers,    \* the value the coefficients of the image have had
    Messages,  \* sequences of bytes
    Caps,      \* the capacity of the receiver, in bytes
    Changes    \* what a coefficient may change to

Byte == 0 .. 255

\* What an encoder has codes for, in an AC coefficient.
Coefficient == -1023 .. 1023

ASSUME BitStreamAssumption ==
    /\ Codes \subseteq [bits : 1 .. 8, lsbs : BOOLEAN]
    /\ Covers \subseteq Coefficient
    /\ Messages \subseteq Seq(Byte)
    /\ Caps \subseteq 0 .. 2^28 - 7  \* bits are counted in an int
    /\ \A m \in Messages, cap \in Caps : Len(m) <= cap
    /\ Changes \subseteq Coefficient

VARIABLES
    job,      \* code, cover and message of the sender, capacity of the receiver
    pc,       \* "insert", "way", "extract", "done", "failed" or "refused"
    coefs,    \* the coefficients that carry bits, in the order of the walk
    bs,       \* the fields of the sender's jelbs, then of the receiver's
    bit,      \* bs->bit
    read,     \* coefficients the receiver has read
    limit,    \* msg_nbits of the receiver
    header,   \* got_length
    changed   \* history: the coefficient that has changed; 0 if none has

vars == <<job, pc, coefs, bs, bit, read, limit, header, changed>>

-----------------------------------------------------------------------------
(* The fields of a jelbs.                                                  *)

HeaderBits == 48
StreamBits(len) == HeaderBits + 8 * len

\* The bytes of a number of 32 bits, the lowest first.
LengthBytes(n) == [i \in 1 .. 4 |-> (n \div 2^(8 * (i - 1))) % 256]

\* A length of 2^31 or more is negative when it is made an int.
Length(b) ==
    LET low == b.msgsize[1] + 256 * b.msgsize[2] + 65536 * b.msgsize[3]
    IN  IF b.msgsize[4] < 128 THEN low + 2^24 * b.msgsize[4]
                              ELSE low + 2^24 * (b.msgsize[4] - 256)

Bit(x, i) == (x \div 2^i) % 2

\* Mutant: the second byte of the length is left out.
ChecksumShort(b) == CHOOSE sum \in Byte :
    \A i \in 0 .. 7 :
        Bit(sum, i) = (Bit(b.density, i) + Bit(b.msgsize[1], i)
                       + Bit(b.msgsize[3], i) + Bit(b.msgsize[4], i)) % 2

\* jelbs_compute_checksum: the exclusive or of density and length.
Checksum(b) == CHOOSE sum \in Byte :
    \A i \in 0 .. 7 :
        Bit(sum, i) = (Bit(b.density, i) + Bit(b.msgsize[1], i) + Bit(b.msgsize[2], i)
                       + Bit(b.msgsize[3], i) + Bit(b.msgsize[4], i)) % 2

\* The byte that bit k is in.
ByteOf(b, k) ==
    CASE k < 8 -> b.density
      [] k \in 8 .. 39 -> b.msgsize[k \div 8]
      [] k \in 40 .. 47 -> b.checksum
      [] k >= 48 -> b.msg[(k \div 8) - 5]

\* jelbs_get_bit.
GetBit(b, k) == Bit(ByteOf(b, k), k % 8)

\* Mutant: the bit is not cleared before it is set.
SetBitOr(b, k, v) ==
    LET old == ByteOf(b, k)
        new == IF v = 1 /\ GetBit(b, k) = 0 THEN old + 2^(k % 8) ELSE old
    IN  CASE k < 8 -> [b EXCEPT !.density = new]
          [] k \in 8 .. 39 -> [b EXCEPT !.msgsize[k \div 8] = new]
          [] k \in 40 .. 47 -> [b EXCEPT !.checksum = new]
          [] k >= 48 -> [b EXCEPT !.msg[(k \div 8) - 5] = new]

\* jelbs_set_bit.
SetBit(b, k, v) ==
    LET new == ByteOf(b, k) + (v - GetBit(b, k)) * 2^(k % 8)
    IN  CASE k < 8 -> [b EXCEPT !.density = new]
          [] k \in 8 .. 39 -> [b EXCEPT !.msgsize[k \div 8] = new]
          [] k \in 40 .. 47 -> [b EXCEPT !.checksum = new]
          [] k >= 48 -> [b EXCEPT !.msg[(k \div 8) - 5] = new]

\* The value of n bits from the first on, the highest first.
ValueOf(b, first, n) ==
    LET val[k \in 0 .. n] == IF k = 0 THEN 0
                             ELSE 2 * val[k - 1] + GetBit(b, first + k - 1)
    IN  val[n]

\* The first n bits of a value of so many are set, from the first on.
SetBits(b, first, n, val, width) ==
    LET set[k \in 0 .. n] == IF k = 0 THEN b
                             ELSE SetBit(set[k - 1], first + k - 1, Bit(val, width - k))
    IN  set[n]

-----------------------------------------------------------------------------
(* Values in coefficients.                                                 *)

FACTOR == 2
OFFSET == -2
XFORM(x) == x * FACTOR + OFFSET

\* Division in C goes towards 0.
INVXFORM(y) == IF y >= OFFSET THEN (y - OFFSET) \div FACTOR
                              ELSE -((OFFSET - y) \div FACTOR)

\* The first four coefficients hold two bits each.
Width(n) == IF n < 4 THEN 2 ELSE job.code.bits

\* Mutant: the low bits are not cleared.
PutAdd(old, val, width) == IF job.code.lsbs THEN old + val ELSE XFORM(val)

\* The low bits of the coefficient, or all of it.
Put(old, val, width) ==
    IF job.code.lsbs THEN old - (old % 2^width) + val ELSE XFORM(val)

Got(coef) == IF job.code.lsbs THEN coef ELSE INVXFORM(coef)

\* The encoder has codes for AC coefficients of so many bits.
MAX_COEF_BITS == 10
Encodable(coef) == -(2^MAX_COEF_BITS) < coef /\ coef < 2^MAX_COEF_BITS

-----------------------------------------------------------------------------
(* The sender.                                                             *)

\* ijel_insert_density and ijel_insert_bits, for one coefficient: the first
\* bit is the highest; if there are not enough, all are 0.
Insert ==
    LET width == Width(Len(coefs))
        all == StreamBits(Len(job.msg))
        rest == all - bit
        val == IF rest < width THEN 0 ELSE ValueOf(bs, bit, width)
    IN  /\ pc = "insert"
        /\ rest > 0
        /\ coefs' = Append(coefs, Put(job.cover, val, width))
        /\ bit' = bit + (IF rest < width THEN rest ELSE width)
        /\ UNCHANGED <<job, pc, bs, read, limit, header, changed>>

\* The receiver's jelbs before the first bit is read.
Fresh == [density |-> 0, msgsize |-> LengthBytes(job.cap), checksum |-> 0,
          msg |-> [i \in 1 .. job.cap |-> 0]]

\* encode_one_block takes every coefficient.
Write ==
    /\ pc = "insert"
    /\ bit = StreamBits(Len(job.msg))
    /\ \A n \in DOMAIN coefs : Encodable(coefs[n])
    /\ pc' = "way"
    /\ UNCHANGED <<job, coefs, bs, bit, read, limit, header, changed>>

\* JERR_BAD_DCT_COEF.
WriteFails ==
    /\ pc = "insert"
    /\ bit = StreamBits(Len(job.msg))
    /\ \E n \in DOMAIN coefs : ~Encodable(coefs[n])
    /\ pc' = "failed"
    /\ UNCHANGED <<job, coefs, bs, bit, read, limit, header, changed>>

-----------------------------------------------------------------------------
(* The way of the image, and the receiver.                                 *)

Change ==
    /\ pc = "way"
    /\ changed = 0
    /\ \E n \in DOMAIN coefs, v \in Changes :
         /\ v # coefs[n]
         /\ coefs' = [coefs EXCEPT ![n] = v]
         /\ changed' = n
    /\ UNCHANGED <<job, pc, bs, bit, read, limit, header>>

UnstuffBegin ==
    /\ pc = "way"
    /\ pc' = "extract"
    /\ bs' = Fresh
    /\ bit' = 0
    /\ limit' = StreamBits(job.cap)
    /\ UNCHANGED <<job, coefs, read, header, changed>>

\* The density is not one, or the header has just been completed.
BogusDensity == read = 4 /\ bs.density \notin 1 .. 100
HeaderComplete == bit >= HeaderBits /\ ~header
More == read < Len(coefs) /\ bit < limit

\* ijel_extract_density and ijel_extract_bits, for one coefficient.  Bits the
\* jelbs has no room for are dropped.
Extract ==
    LET width == Width(read)
        val == Got(coefs[read + 1])
        room == StreamBits(job.cap) - bit
        n == IF room < width THEN room ELSE width
    IN  /\ pc = "extract"
        /\ ~BogusDensity /\ ~HeaderComplete /\ More
        /\ bs' = SetBits(bs, bit, n, val, width)
        /\ bit' = bit + n
        /\ read' = read + 1
        /\ UNCHANGED <<job, pc, coefs, limit, header, changed>>

\* The ways to accept a header, and the ways to refuse it.
MaxBytes == job.cap + 6
Lawful ==
    /\ bs.checksum = Checksum(bs)
    /\ bs.density \in 1 .. 100
    /\ Length(bs) \in 0 .. MaxBytes

AcceptHeader ==
    /\ pc = "extract"
    /\ HeaderComplete
    /\ Lawful
    /\ header' = TRUE
    /\ limit' = StreamBits(Length(bs))
    /\ pc' = IF Length(bs) = 0 THEN "done" ELSE pc
    /\ UNCHANGED <<job, coefs, bs, bit, read, changed>>

Refuse ==
    /\ pc = "extract"
    /\ BogusDensity \/ (HeaderComplete /\ ~Lawful)
    /\ pc' = "refused"
    /\ UNCHANGED <<job, coefs, bs, bit, read, limit, header, changed>>

UnstuffEnd ==
    /\ pc = "extract"
    /\ ~BogusDensity /\ ~HeaderComplete /\ ~More
    /\ pc' = "done"
    /\ UNCHANGED <<job, coefs, bs, bit, read, limit, header, changed>>

-----------------------------------------------------------------------------
\* ijel_stuff_message sets the fields.
Stream(msg, density) ==
    LET b == [density |-> density, msgsize |-> LengthBytes(Len(msg)),
              checksum |-> 0, msg |-> msg]
    IN  [b EXCEPT !.checksum = Checksum(b)]

Init ==
    /\ job \in [code : Codes, cover : Covers, msg : Messages, cap : Caps]
    /\ pc = "insert"
    /\ coefs = <<>>
    /\ \E density \in {1, 100} : bs = Stream(job.msg, density)
    /\ bit = 0
    /\ read = 0
    /\ limit = 0
    /\ header = FALSE
    /\ changed = 0

Next == Insert \/ Write \/ WriteFails \/ Change \/ UnstuffBegin \/ Extract
        \/ AcceptHeader \/ Refuse \/ UnstuffEnd

Spec == Init /\ [][Next]_vars

-----------------------------------------------------------------------------
(* What must hold.                                                         *)

\* If the message ends at the end of a coefficient (see ijel_insert_bits) the
\* receiver finds every byte of it that no changed coefficient has a part in,
\* whatever the image was like before, and whatever has been in its buffer;
\* and it is told the right length.
Whole == (StreamBits(Len(job.msg)) - 8) % job.code.bits = 0
FirstBit(n) == IF n <= 4 THEN 2 * (n - 1) ELSE 8 + (n - 5) * job.code.bits
HeaderHit == changed # 0 /\ FirstBit(changed) < HeaderBits
Touched(i) ==
    /\ changed # 0
    /\ FirstBit(changed) < HeaderBits + 8 * i
    /\ FirstBit(changed + 1) > HeaderBits + 8 * (i - 1)

Understood ==
    pc \in {"done", "refused"} /\ Whole /\ ~HeaderHit =>
        /\ pc = "done"
        /\ Length(bs) = Len(job.msg)
        /\ \A i \in 1 .. Len(job.msg) : ~Touched(i) => bs.msg[i] = job.msg[i]

\* One changed coefficient in the header never makes a receiver take another
\* header for the right one: the checksum is found wrong wherever the change
\* is, in the density, in the length, across two bytes of it or in itself.
\* (Of an empty message the last bits of the checksum may be lost.)
HeaderGuarded ==
    pc = "done" /\ (Whole \/ Len(job.msg) > 0) =>
        header /\ Length(bs) = Len(job.msg)

\* Hiding bits does not make an image that cannot be written, except where a
\* coefficient is close to the lowest that can.
Writable ==
    pc = "failed" =>
        job.code.lsbs /\ \E width \in {2, job.code.bits} : job.cover < 2^width - 1024
=============================================================================
