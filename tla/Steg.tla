-------------------------------- MODULE Steg --------------------------------
(***************************************************************************)
(* One message through one colour channel of one image: ijel_stuff_message *)
(* hides it, ijel_unstuff_message finds it again (ijel.c).  Both walk the  *)
(* MCUs of the channel in the same order, drawing PRNs as they go; the     *)
(* receiver gets the right bits only if its walk stays in step with the    *)
(* sender's, MCU by MCU, although it learns the density and the length     *)
(* from the very bits it is reading.                                       *)
(*                                                                         *)
(* Message bits are abstracted to their POSITION in the bit stream (48     *)
(* header bits, then 8 per message byte).  A coefficient holds the         *)
(* position of the first of the bits packed into it, so "the receiver has  *)
(* the right bit i" is got[i] = i.  The coefficient code (XFORM, or the    *)
(* low bits) gives back the value that was stored; it is not modelled.     *)
(*                                                                         *)
(* The sender and the receiver have configurations of their own; the walk  *)
(* variables below belong to the sender while pc is "stuffing" and to the  *)
(* receiver while it is "unstuffing", each of whom starts by setting them. *)
(***************************************************************************)
EXTENDS Selection, FiniteSets

CONSTANTS
    NFreqs,       \* cfg->freqs.nfreqs: frequencies used in each MCU
    BitsPerFreq,  \* cfg->bits_per_freq
    Rings,        \* the possible contents of the PRN ring
    Starts,       \* where earlier channels may have left the ring
    Densities,    \* the possible explicit densities of a sender
    MaxLen,       \* longest message, in bytes (after any ECC)
    Garbage       \* header values a receiver out of step may decode

ASSUME StegAssumption ==
    /\ MaxFreqs >= 4     \* "Need at least 4 frequencies to encode density!"
    /\ NFreqs \in 1 .. MaxFreqs
    /\ BitsPerFreq \in Nat \ {0}
    /\ Rings \subseteq [0 .. NList - 1 -> Nat]
    /\ Starts \subseteq 0 .. NList
    /\ Densities \subseteq 1 .. 100
    /\ MaxLen \in Nat
    /\ Garbage \subseteq Nat

VARIABLES
    job,      \* what is sent, with which settings; never changes
    pc,       \* where the program is
    density,  \* the sender's cfg->mcu_density, and the stream's density byte
    m,        \* all_mcus: MCUs walked so far
    idx,      \* cfg->mcu_index
    flag,     \* cfg->mcu_flag
    used,     \* cfg->freqs.in_use
    k,        \* cfg->prn_cache->k
    bit,      \* bs->bit: the next bit of the bit stream
    count,    \* nbits_in, nbits_out
    coef,     \* the coefficients of the channel: [Mcus -> [Freqs -> Slot]]
    got,      \* the bits of the receiver's bit stream
    limit,    \* the receiver's msg_nbits
    msgNbytes,\* the receiver's msg_nbytes
    embedded, \* what ijel_stuff_message returned
    extracted,\* what ijel_unstuff_message returned
    trace     \* history: the sender's bit, k, used as it reached each MCU

walk == <<m, idx, flag, used, k, bit, count>>
vars == <<job, pc, density, walk, coef, got, limit, msgNbytes,
          embedded, extracted, trace>>

-----------------------------------------------------------------------------
(* Sizes.                                                                  *)

HeaderBits == 48                       \* density, length, checksum
StreamBits(len) == HeaderBits + 8 * len

McuBits == NFreqs * BitsPerFreq        \* bits in one active MCU
ImageBits == McuBits * NMcus

\* ijel_capacity_iter: the bits of the channel, prorated by an explicit
\* density below 100.
ImageCapacity(d) ==
    IF d > 0 /\ d < 100 THEN (d * ImageBits) \div 100 ELSE ImageBits

\* jel_capacity for one channel, in bytes, without ECC.
Capacity(d) == (ImageCapacity(d) \div 8) - (HeaderBits \div 8)

\* floor((cfg->mcu_density * cfg->maxmcus) / 100.0)
ActiveMcus(d) == (d * NMcus) \div 100

\* Mutant: the density is rounded down.
AutoDensityDown(nbits) == (100 * nbits) \div ImageBits

\* The density ijel_stuff_message computes when none is set.  (The code
\* takes the ceiling of a float; adding 1 covers what rounding may lose.)
AutoDensity(nbits) ==
    LET c == (100 * nbits + ImageBits - 1) \div ImageBits
    IN  IF c < 100 THEN c + 1 ELSE c

-----------------------------------------------------------------------------
(* Inputs.                                                                 *)

Unspecified == -1      \* mcu_density when it is to be computed from the message

\* header: cfg->embed_bitstream_header.  ring, theirs: the PRNs of the sender
\* and of the receiver, different if the receiver has another seed.  k: where
\* earlier channels of the image left the ring, on both sides.  receiver: the
\* receiver's mcu_density as it computes its capacity, the default or the one
\* agreed on.
Jobs ==
    { j \in [len : 0 .. MaxLen, seeded : BOOLEAN, header : BOOLEAN,
             ring : Rings, theirs : Rings, k : Starts,
             density : Densities \cup {Unspecified},
             receiver : Densities \cup {Unspecified}] :
        /\ j.receiver \in {Unspecified, j.density}
        /\ Capacity(j.density) >= 0 }

nbits == StreamBits(job.len)                     \* the sender's bs->nbits
gotBits == StreamBits(Capacity(job.receiver))    \* the receiver's bs->nbits

JEL_ERR_MSG_OVERFLOW == -10
JEL_ERR_CHECKSUM == -13

NotYet == -99       \* a function that has not returned
Unknown == -1       \* a length the receiver has not read
Unset == -3         \* a bit of the receiver's stream it has not set

\* What a coefficient holds besides a position: what the image had there, or
\* the 0 that insert_bits writes once the stream has ended.
Cover == -1
Zero == -2

-----------------------------------------------------------------------------
(* The steps both walks share.                                             *)

Ring == IF pc \in {"unstuff", "unstuffing"} THEN job.theirs ELSE job.ring

\* ijel_permute_freqs, called when there is a seed.
NextUsed == IF job.seeded THEN PermuteFreqs(Ring, k, used) ELSE used
NextK == IF job.seeded THEN Advance(k, MaxFreqs - 1) ELSE k

\* The first MCU of a stream with a header holds the density byte.
AtDensity == job.header /\ m = 0

\* Setting up before the loop: the MCU map, then the frequencies, permuted
\* once.
BeginWalk ==
    /\ m' = 0
    /\ idx' = 0
    /\ flag' = [x \in Mcus |-> TRUE]
    /\ used' = IF job.seeded THEN PermuteFreqs(Ring, job.k, ResetFreqs)
                             ELSE ResetFreqs
    /\ k' = IF job.seeded THEN Advance(job.k, MaxFreqs - 1) ELSE job.k
    /\ bit' = 0
    /\ count' = 0


Lesser(a, b) == IF a < b THEN a ELSE b

\* One iteration of the loop: every MCU permutes the frequencies.
NextMcu ==
    /\ m < NMcus
    /\ m' = m + 1
    /\ used' = NextUsed

\* insert_density and extract_density reinitialise the active MCUs, which
\* resets the ring, and leave mcu_index alone.
SelectMcus(d) ==
    /\ flag' = McuFlags(job.seeded, Ring, ActiveMcus(d))
    /\ k' = SelectIndex(job.seeded, NextK)

-----------------------------------------------------------------------------
(* ijel_stuff_message.                                                     *)

\* Mutant: the last bits of the stream count as past its end.
PackShort(order, n, w) ==
    [f \in Freqs |->
        IF \E j \in 0 .. n - 1 : order[j] = f
          THEN LET j == CHOOSE x \in 0 .. n - 1 : order[x] = f
               IN  IF bit + (j + 1) * w < nbits THEN bit + j * w ELSE Zero
          ELSE coef[m][f]]

\* The coefficients of MCU m with n frequencies of w bits written in the
\* given order.  A frequency the stream does not fill is set to 0, the bits
\* already taken for it included.
Pack(order, n, w) ==
    [f \in Freqs |->
        IF \E j \in 0 .. n - 1 : order[j] = f
          THEN LET j == CHOOSE x \in 0 .. n - 1 : order[x] = f
               IN  IF bit + (j + 1) * w <= nbits THEN bit + j * w ELSE Zero
          ELSE coef[m][f]]

Insert(n, w) ==
    /\ coef' = [coef EXCEPT ![m] = Pack(NextUsed, n, w)]
    /\ bit' = Lesser(bit + n * w, nbits)
    /\ count' = count + (bit' - bit)

Record == trace' = [trace EXCEPT ![m + 1] =
                       [bit |-> bit', k |-> k', used |-> used']]

\* Mutant: the header is left out of the check.
TooLongBody ==
    job.density = Unspecified /\ 8 * job.len > ImageCapacity(Unspecified)

TooLong == job.density = Unspecified /\ nbits > ImageCapacity(Unspecified)

StuffOverflow ==
    /\ pc = "stuff"
    /\ TooLong
    /\ pc' = "done"
    /\ embedded' = JEL_ERR_MSG_OVERFLOW
    /\ UNCHANGED <<job, density, walk, coef, got, limit, msgNbytes,
                   extracted, trace>>

StuffBegin ==
    /\ pc = "stuff"
    /\ ~TooLong
    /\ pc' = "stuffing"
    /\ density' = IF job.density = Unspecified THEN AutoDensity(nbits)
                                        ELSE job.density
    /\ BeginWalk
    /\ trace' = [trace EXCEPT ![0] = [bit |-> 0, k |-> k', used |-> used']]
    /\ UNCHANGED <<job, coef, got, limit, msgNbytes, embedded, extracted>>

Stuffing ==
    /\ pc = "stuffing"
    /\ NextMcu
    /\ UNCHANGED <<job, pc, density, got, limit, msgNbytes, embedded,
                   extracted>>

\* The first MCU: ijel_insert_density, always 4 frequencies of 2 bits.
StuffDensity ==
    /\ Stuffing
    /\ count < nbits
    /\ AtDensity
    /\ Insert(4, 2)
    /\ SelectMcus(density)
    /\ UNCHANGED idx
    /\ Record

\* ijel_insert_bits on an active MCU.
StuffBits ==
    /\ Stuffing
    /\ count < nbits
    /\ ~AtDensity
    /\ flag[idx]
    /\ Insert(NFreqs, BitsPerFreq)
    /\ idx' = idx + 1
    /\ k' = NextK
    /\ UNCHANGED flag
    /\ Record

\* ijel_insert_bits on an MCU that was not selected.
StuffIdle ==
    /\ Stuffing
    /\ count < nbits
    /\ ~AtDensity
    /\ ~flag[idx]
    /\ idx' = idx + 1
    /\ k' = NextK
    /\ UNCHANGED <<flag, bit, count, coef>>
    /\ Record

\* Mutant: no PRNs are drawn once the message is in.
StuffSkipStill ==
    /\ Stuffing
    /\ count >= nbits
    /\ UNCHANGED <<idx, flag, k, bit, count, coef>>
    /\ Record

\* The message is in: the walk goes on only to keep drawing PRNs.
StuffSkip ==
    /\ Stuffing
    /\ count >= nbits
    /\ k' = NextK
    /\ UNCHANGED <<idx, flag, bit, count, coef>>
    /\ Record

\* The function returns the length of the stream, whether or not all of it
\* went into the image.
StuffEnd ==
    /\ pc = "stuffing"
    /\ m = NMcus
    /\ pc' = "unstuff"
    /\ embedded' = job.len
    /\ UNCHANGED <<job, density, walk, coef, got, limit, msgNbytes,
                   extracted, trace>>

-----------------------------------------------------------------------------
(* ijel_unstuff_message.                                                   *)

\* The receiver's bit stream with the n frequencies of w bits of MCU m added.
\* Bits past the end of the stream are dropped.
Unpack(order, n, w) ==
    [i \in DOMAIN got |->
        IF bit <= i /\ i < bit + n * w
          THEN LET slot == coef[m][order[(i - bit) \div w]]
               IN  IF slot >= 0 THEN slot + ((i - bit) % w) ELSE slot
          ELSE got[i]]

\* Mutant: the stream advances one bit less than it was given.
ExtractLess(n, w) ==
    /\ got' = Unpack(NextUsed, n, w)
    /\ bit' = Lesser(bit + n * w - 1, gotBits)
    /\ count' = count + n * w

\* The bits dropped are counted all the same.
Extract(n, w) ==
    /\ got' = Unpack(NextUsed, n, w)
    /\ bit' = Lesser(bit + n * w, gotBits)
    /\ count' = count + n * w

Intact(from, to) == \A i \in from .. to : got'[i] = i

Return(code) ==
    /\ pc' = "done"
    /\ extracted' = code
    /\ UNCHANGED <<limit, msgNbytes>>

GoOn == UNCHANGED <<pc, limit, msgNbytes, extracted>>

\* Without a header the length is a secret the two sides share.
UnstuffBegin ==
    /\ pc = "unstuff"
    /\ pc' = "unstuffing"
    /\ BeginWalk
    /\ limit' = gotBits
    /\ msgNbytes' = IF job.header THEN Unknown ELSE job.len
    /\ UNCHANGED <<job, density, coef, got, embedded, extracted, trace>>

Unstuffing ==
    /\ pc = "unstuffing"
    /\ NextMcu
    /\ UNCHANGED <<job, density, coef, embedded, trace>>

\* The first MCU: ijel_extract_density.
UnstuffDensity ==
    /\ Unstuffing
    /\ count < limit
    /\ AtDensity
    /\ Extract(4, 2)
    /\ UNCHANGED idx
    /\ \E d \in IF Intact(0, 7) THEN {density} ELSE Garbage :
          /\ IF d > 100 THEN UNCHANGED flag /\ k' = NextK ELSE SelectMcus(d)
          /\ IF d \in 1 .. 100 THEN GoOn ELSE Return(JEL_ERR_CHECKSUM)

\* ijel_extract_bits on an active MCU.
ExtractBits ==
    /\ Unstuffing
    /\ count < limit
    /\ ~AtDensity
    /\ flag[idx]
    /\ Extract(NFreqs, BitsPerFreq)
    /\ idx' = idx + 1
    /\ k' = NextK
    /\ UNCHANGED flag

\* jelbs_got_length, for the first time.
HeaderComplete == msgNbytes = Unknown /\ bit' >= HeaderBits

UnstuffBits ==
    /\ ExtractBits
    /\ ~HeaderComplete
    /\ GoOn

\* Mutant: the limit forgets the bits of the header.
UnstuffHeaderBody ==
    /\ ExtractBits
    /\ HeaderComplete
    /\ \E ok \in IF Intact(0, HeaderBits - 1) THEN {TRUE} ELSE BOOLEAN,
          n \in IF Intact(8, 39) THEN {job.len} ELSE Garbage :
          CASE ~ok -> Return(JEL_ERR_CHECKSUM)
            [] ok /\ n = 0 -> Return(0)
            [] ok /\ n > ImageBits \div 8 -> Return(JEL_ERR_MSG_OVERFLOW)
            [] OTHER -> /\ msgNbytes' = n
                        /\ limit' = 8 * n
                        /\ UNCHANGED <<pc, extracted>>

\* The receiver checks what it has before it goes on with that length.
UnstuffHeader ==
    /\ ExtractBits
    /\ HeaderComplete
    /\ \E ok \in IF Intact(0, HeaderBits - 1) THEN {TRUE} ELSE BOOLEAN,
          n \in IF Intact(8, 39) THEN {job.len} ELSE Garbage :
          CASE ~ok -> Return(JEL_ERR_CHECKSUM)
            [] ok /\ n = 0 -> Return(0)
            [] ok /\ n > ImageBits \div 8 -> Return(JEL_ERR_MSG_OVERFLOW)
            [] OTHER -> /\ msgNbytes' = n
                        /\ limit' = StreamBits(n)
                        /\ UNCHANGED <<pc, extracted>>

\* Mutant: no PRNs are drawn for an MCU that is not used.
UnstuffIdleStill ==
    /\ Unstuffing
    /\ count < limit
    /\ ~AtDensity
    /\ ~flag[idx]
    /\ idx' = idx + 1
    /\ UNCHANGED <<flag, k, bit, count, got>>
    /\ GoOn

UnstuffIdle ==
    /\ Unstuffing
    /\ count < limit
    /\ ~AtDensity
    /\ ~flag[idx]
    /\ idx' = idx + 1
    /\ k' = NextK
    /\ UNCHANGED <<flag, bit, count, got>>
    /\ GoOn

UnstuffSkip ==
    /\ Unstuffing
    /\ count >= limit
    /\ k' = NextK
    /\ UNCHANGED <<idx, flag, bit, count, got>>
    /\ GoOn

\* Mutant: the receiver goes on waiting for a length.
UnstuffEndWait ==
    /\ pc = "unstuffing"
    /\ m = NMcus
    /\ msgNbytes # Unknown
    /\ pc' = "done"
    /\ extracted' = msgNbytes
    /\ UNCHANGED <<job, density, walk, coef, got, limit, msgNbytes,
                   embedded, trace>>

\* A receiver that never got 48 bits still returns a length: the size of the
\* buffer it was given, here its capacity.
UnstuffEnd ==
    /\ pc = "unstuffing"
    /\ m = NMcus
    /\ pc' = "done"
    /\ extracted' = IF msgNbytes = Unknown THEN Capacity(job.receiver)
                                           ELSE msgNbytes
    /\ UNCHANGED <<job, density, walk, coef, got, limit, msgNbytes,
                   embedded, trace>>

-----------------------------------------------------------------------------
Nowhere == [bit |-> 0, k |-> 0, used |-> ResetFreqs]

Init ==
    /\ job \in Jobs
    /\ pc = "stuff"
    /\ density = Unspecified
    /\ m = 0
    /\ idx = 0
    /\ flag = [x \in Mcus |-> FALSE]
    /\ used = ResetFreqs
    /\ k = job.k
    /\ bit = 0
    /\ count = 0
    /\ coef = [x \in Mcus |-> [f \in Freqs |-> Cover]]
    /\ got = [i \in 0 .. gotBits - 1 |-> Unset]
    /\ limit = 0
    /\ msgNbytes = Unknown
    /\ embedded = NotYet
    /\ extracted = NotYet
    /\ trace = [x \in 0 .. NMcus |-> Nowhere]

Stuff == StuffOverflow \/ StuffBegin \/ StuffDensity \/ StuffBits
         \/ StuffIdle \/ StuffSkip \/ StuffEnd

Unstuff == UnstuffBegin \/ UnstuffDensity \/ UnstuffBits \/ UnstuffHeader
           \/ UnstuffIdle \/ UnstuffSkip \/ UnstuffEnd

Next == Stuff \/ Unstuff

Spec == Init /\ [][Next]_vars

\* Two sequential functions that run until they return.
FairSpec == Spec /\ WF_vars(Next)

-----------------------------------------------------------------------------
(* What must hold.                                                         *)

Slots == {Cover, Zero} \cup (0 .. nbits)

\* The values of the variables.
TypeOK ==
    /\ job \in Jobs
    /\ pc \in {"stuff", "stuffing", "unstuff", "unstuffing", "done"}
    /\ density \in {Unspecified} \cup (1 .. 100)
    /\ m \in 0 .. NMcus
    /\ idx \in 0 .. m
    /\ flag \in [Mcus -> BOOLEAN]
    /\ used \in Orders
    /\ k \in 0 .. NList
    /\ bit \in Nat
    /\ count \in Nat
    /\ coef \in [Mcus -> [Freqs -> Slots]]
    /\ got \in [0 .. gotBits - 1 -> Int]
    /\ limit \in Nat
    /\ msgNbytes \in {Unknown} \cup Nat
    /\ embedded \in {NotYet, JEL_ERR_MSG_OVERFLOW} \cup Nat
    /\ extracted \in {NotYet, JEL_ERR_MSG_OVERFLOW, JEL_ERR_CHECKSUM}
                        \cup Nat
    /\ trace \in [0 .. NMcus -> [bit : Nat, k : 0 .. NList, used : Orders]]

SameKey == job.theirs = job.ring

Delivered(n) == \A i \in HeaderBits .. StreamBits(n) - 1 : got[i] = i

\* Every bit of the stream was put into the image.
Placed == trace[NMcus].bit = nbits

\* Permuting in_use over and over never makes two of the frequencies of an
\* MCU the same: no bits are written over other bits of the same MCU.
NoFreqTwice == Distinct(used)

\* The receiver reaches each MCU with the PRN ring and the frequency order
\* the sender had there: the selection in the middle of the first MCU, which
\* resets the ring, does not put them out of step, whatever the density.
PrnInStep ==
    pc = "unstuffing" /\ SameKey => /\ k = trace[m].k
                                    /\ used = trace[m].used

\* If all of the stream went into the image, a receiver with the same key
\* and enough capacity gets exactly the bytes that were sent.
RoundTrip ==
    /\ pc = "done"
    /\ embedded >= 0
    /\ SameKey
    /\ Placed
    /\ job.len <= Capacity(job.receiver)
    => extracted = job.len /\ Delivered(job.len)

\* A message within what jel_capacity promises goes into the image whole,
\* with the MCUs its density selects.
FitsCapacity ==
    pc = "unstuff" /\ job.len <= Capacity(job.density) => Placed

\* The overflow check of ijel_stuff_message, in bits of the channel, agrees
\* with the capacity jel_capacity reports, in bytes of the message.
OverflowAgrees ==
    pc = "unstuff" \/ embedded = JEL_ERR_MSG_OVERFLOW =>
        (embedded = JEL_ERR_MSG_OVERFLOW <=>
            job.density = Unspecified /\ job.len > Capacity(Unspecified))

\* What jel_capacity promises and what ijel_stuff_message accepts and stores
\* agree, although one computes in bytes and from the density, the other in bits
\* and from the message.
CapacityKept == FitsCapacity /\ OverflowAgrees

Touched == {x \in Mcus : \E f \in Freqs : coef[x][f] # Cover}

\* With a seed, no more MCUs are modified than the density asks for, the
\* first one, which holds the density itself, aside.
DensityBound ==
    job.seeded /\ job.header /\ density # Unspecified =>
        Cardinality(Touched) <= ActiveMcus(density) + 1

\* After a message was read the ring stands where the sender left it, so the
\* next channel of the image can be read too.
NextChannelInStep ==
    pc = "done" /\ SameKey /\ extracted > 0 => k = trace[NMcus].k

\* Bits of the receiver's stream, once set, are never set again: what was
\* decoded as density and length is still what the stream says.
BitsSetOnce ==
    [][\A i \in 0 .. gotBits - 1 : got[i] # Unset => got'[i] = got[i]]_vars

\* Both functions return, whatever they find in the image.
Terminates == <>(pc = "done")
=============================================================================
