-------------------------------- MODULE Ecc --------------------------------
(***************************************************************************)
(* A message through one channel under ECC (ijel-ecc.c, and its callers in *)
(* jel.c and ijel.c): the capacity under ECC, the cutting into blocks with *)
(* their lengths, the Reed-Solomon code of each block, the bit stream the  *)
(* receiver makes room for, and the decoding block by block.  On the way   *)
(* some bytes of one block are damaged; the header of the stream is not.   *)
(***************************************************************************)
EXTENDS ReedSolomon, FiniteSetsExt

CONSTANTS
    BlockLen,   \* block_len: bytes in a coded block
    Jobs,       \* the bytes the channel has room for, header included, the
                \* length of the message, and whether the receiver asks for
                \* the raw capacity
    Damages,    \* which bytes of a block may be damaged together
    Flips       \* what a damaged byte may be XORed with

ASSUME EccAssumption ==
    /\ BlockLen \in NPAR + 2 .. 255
    /\ Jobs \subseteq [room : Nat, len : Nat, raw : BOOLEAN]
    /\ Damages \subseteq SUBSET (1 .. BlockLen)
    /\ Flips \subseteq 1 .. 255

VARIABLES
    job,     \* one of Jobs; never changes
    pc,      \* where the program is
    block,   \* i: the block that is coded or decoded
    at,      \* the byte of the block that is next; the n of Berlekamp-Massey
    lfsr,    \* the shift register of the encoder
    coded,   \* the coded message: the sender's, then the receiver's
    syn,     \* synBytes
    bm,      \* psi, D, L, k of the Berlekamp-Massey algorithm
    damage,  \* the bytes that were damaged, all in one block
    out      \* the decoded message

vars == <<job, pc, block, at, lfsr, coded, syn, bm, damage, out>>

-----------------------------------------------------------------------------
(* Sizes.                                                                  *)

JELBS_HDR_SIZE == 6

max_mlen == BlockLen - NPAR      \* bytes of a block without parity
msgchunk == max_mlen - 1         \* and without the length byte

\* ijel_capacity_ecc.
CapacityEcc(n) == (n \div BlockLen) * (max_mlen - 1)

\* Mutant: the header is not counted.
CapacityNoHeader(n) == CapacityEcc(n)

\* jel_capacity and jel_raw_capacity for one channel.
Capacity(n) == CapacityEcc(n) - JELBS_HDR_SIZE
RawCapacity(n) == n - JELBS_HDR_SIZE

\* One block more than are full: its length, less than msgchunk, ends the
\* message.
NBlocks(len) == len \div msgchunk + 1

\* The blocks of a damaged message can call for more blocks than there are;
\* the decoder looks for twice as many (HACK).
HACK == 2

-----------------------------------------------------------------------------
(* Inputs.                                                                 *)

Text(i) == 1 + ((37 * i) % 255)    \* byte i of the message, from 0
Message == [i \in 1 .. job.len |-> Text(i - 1)]

\* Byte p of block b before it is coded.
InBlock(b, p) ==
    LET rest == job.len - b * msgchunk
    IN  CASE p = 0 -> Min({rest, msgchunk})
          [] p > 0 /\ p <= rest -> Text(b * msgchunk + p - 1)
          [] p > 0 /\ p > rest -> 0

NoShift == [j \in 0 .. NPAR - 1 |-> 0]
NoMassey == [psi |-> One, D |-> mul_z_poly(One), L |-> 0, k |-> -1]

-----------------------------------------------------------------------------
(* ijel_encode_ecc.                                                        *)

EncodeByte ==
    /\ pc = "encode"
    /\ at < max_mlen
    /\ lfsr' = Shift(lfsr, InBlock(block, at))
    /\ coded' = Append(coded, InBlock(block, at))
    /\ at' = at + 1
    /\ UNCHANGED <<job, pc, block, syn, bm, damage, out>>

EncodeParity ==
    /\ pc = "encode"
    /\ at = max_mlen
    /\ coded' = coded \o Parity(lfsr)
    /\ lfsr' = NoShift
    /\ at' = 0
    /\ block' = block + 1
    /\ pc' = IF block + 1 = NBlocks(job.len) THEN "stuff" ELSE pc
    /\ UNCHANGED <<job, syn, bm, damage, out>>

-----------------------------------------------------------------------------
(* ijel_stuff_message, the way to the receiver, and ijel_unstuff_message up *)
(* to the decoding.                                                        *)

TooLong == Len(coded) + JELBS_HDR_SIZE > job.room

Overflow ==
    /\ pc = "stuff"
    /\ TooLong
    /\ pc' = "overflow"
    /\ UNCHANGED <<job, block, at, lfsr, coded, syn, bm, damage, out>>

\* The receiver's bit stream has room for so many bytes of the message; what
\* there is of it beyond is lost, and zero in the receiver's buffer.
StreamSize == IF job.raw THEN RawCapacity(job.room) ELSE Capacity(job.room)

Transmit ==
    /\ pc = "stuff"
    /\ ~TooLong
    /\ \E b \in 0 .. block - 1, places \in Damages, x \in Flips :
         /\ damage' = places
         /\ coded' = [p \in 1 .. Len(coded) |->
                        CASE p > StreamSize -> 0
                          [] p <= StreamSize /\ p - b * BlockLen \in places ->
                                Xor(coded[p], x)
                          [] p <= StreamSize /\ p - b * BlockLen \notin places ->
                                coded[p]]
    /\ pc' = "decode"
    /\ block' = 0
    /\ UNCHANGED <<job, at, lfsr, syn, bm, out>>

-----------------------------------------------------------------------------
(* ijel_decode_ecc.                                                        *)

Word == SubSeq(coded, block * BlockLen + 1, (block + 1) * BlockLen)

\* All the blocks are read, and none was the last: the next one is not there.
Beyond ==
    /\ pc = "decode"
    /\ block * BlockLen = Len(coded)
    /\ pc' = "beyond"
    /\ UNCHANGED <<job, block, at, lfsr, coded, syn, bm, damage, out>>

DecodeData ==
    /\ pc = "decode"
    /\ block * BlockLen < Len(coded)
    /\ syn' = Syndrome(Word)
    /\ pc' = IF \A j \in Degrees : syn'[j] = 0 THEN "take" ELSE "massey"
    /\ bm' = NoMassey
    /\ at' = 0
    /\ UNCHANGED <<job, block, lfsr, coded, damage, out>>

\* Mutant: the register is not lengthened.
MasseyShort ==
    /\ pc = "massey"
    /\ at < NPAR
    /\ LET d == Discrepancy(bm.psi, syn, bm.L, at)
       IN  bm' = [bm EXCEPT !.psi = AddScaled(bm.psi, d, bm.D),
                            !.D = mul_z_poly(bm.D)]
    /\ at' = at + 1
    /\ UNCHANGED <<job, pc, block, lfsr, coded, syn, damage, out>>

\* One pass of the loop in Modified_Berlekamp_Massey.
Massey ==
    /\ pc = "massey"
    /\ at < NPAR
    /\ LET d == Discrepancy(bm.psi, syn, bm.L, at)
           longer == d # 0 /\ bm.L < at - bm.k
       IN  bm' = [psi |-> AddScaled(bm.psi, d, bm.D),
                  D |-> mul_z_poly(IF longer THEN Scale(ginv(d), bm.psi) ELSE bm.D),
                  L |-> IF longer THEN at - bm.k ELSE bm.L,
                  k |-> IF longer THEN at - bm.L ELSE bm.k]
    /\ at' = at + 1
    /\ UNCHANGED <<job, pc, block, lfsr, coded, syn, damage, out>>

CorrectErrors ==
    /\ pc = "massey"
    /\ at = NPAR
    /\ LET fixed == Correct(Word, bm.psi, Omega(bm.psi, syn))
       IN  coded' = [p \in 1 .. Len(coded) |->
                       IF p - block * BlockLen \in 1 .. BlockLen
                         THEN fixed[p - block * BlockLen] ELSE coded[p]]
    /\ pc' = "take"
    /\ UNCHANGED <<job, block, at, lfsr, syn, bm, damage, out>>

\* The bytes of the block, as many as its length says, if there is room.
TakeBlock ==
    LET mlen == Word[1]
        limit == HACK * Len(coded)
    IN  /\ pc = "take"
        /\ IF mlen > 0 /\ Len(out) + mlen > limit
             THEN out' = <<>> /\ pc' = "trash"
             ELSE /\ out' = out \o [i \in 1 .. mlen |->
                              IF block * BlockLen + i + 1 <= Len(coded)
                                THEN coded[block * BlockLen + i + 1] ELSE 0]
                  /\ pc' = IF mlen < max_mlen - 1 THEN "done" ELSE "decode"
        /\ block' = block + 1
        /\ UNCHANGED <<job, at, lfsr, coded, syn, bm, damage>>

-----------------------------------------------------------------------------
Init ==
    /\ job \in Jobs
    /\ pc = "encode"
    /\ block = 0
    /\ at = 0
    /\ lfsr = NoShift
    /\ coded = <<>>
    /\ syn = Zero
    /\ bm = NoMassey
    /\ damage = {}
    /\ out = <<>>

Next == EncodeByte \/ EncodeParity \/ Overflow \/ Transmit \/ Beyond
        \/ DecodeData \/ Massey \/ CorrectErrors \/ TakeBlock

Spec == Init /\ [][Next]_vars

-----------------------------------------------------------------------------
(* What must hold.                                                         *)

\* All of the coded message reaches the receiver.
AllRead == Len(coded) <= StreamSize
Correctable == Cardinality(damage) <= NPAR \div 2

\* If the receiver has room for the coded message, and at most NPAR / 2 bytes
\* of a block are damaged, the message comes back, whatever the damage.
Recovered ==
    pc \notin {"encode", "stuff", "overflow"} /\ AllRead /\ Correctable =>
        /\ pc \notin {"beyond", "trash"}
        /\ pc = "done" => out = Message

\* The decoder takes what the encoder makes for a codeword: a block that was
\* not damaged needs no correction.
CodewordsAgree ==
    pc = "stuff" =>
        \A b \in 0 .. block - 1 :
            Syndrome(SubSeq(coded, b * BlockLen + 1, (b + 1) * BlockLen)) = Zero

\* A block is taken as it was before it was coded, if the damage is within the
\* power of the code.
Corrected ==
    pc = "take" /\ AllRead /\ Correctable =>
        \A p \in 0 .. max_mlen - 1 : coded[block * BlockLen + p + 1] = InBlock(block, p)

\* Encoder and decoder have the same code, and what reaches the receiver of it is
\* enough for the message as long as the damage is within its power.
CodeHolds == CodewordsAgree /\ Corrected /\ Recovered

\* A message within the capacity, coded, goes into the channel, provided the
\* blocks leave room for the header.
CapacityHolds ==
    pc = "overflow" =>
        \/ job.len > Capacity(job.room)
        \/ job.room % BlockLen < JELBS_HDR_SIZE
=============================================================================
