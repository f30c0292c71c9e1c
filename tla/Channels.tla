------------------------------ MODULE Channels ------------------------------
(***************************************************************************)
(* jel_embed and jel_extract over the colour channels of one image         *)
(* (jel.c).  The sender splits the message over the channels in use and    *)
(* embeds the pieces one after the other; the receiver extracts one piece  *)
(* after the other and moves them together.  What a single channel does is *)
(* Channel's; what makes the channels depend on each other is here: the    *)
(* density left in the configuration, the PRN ring that goes from one      *)
(* channel to the next, the capacities the message is split by.            *)
(*                                                                         *)
(* A byte of the message is its position in it.  The two configurations    *)
(* are fresh (_jel_init); streams have headers; there is no ECC.           *)
(***************************************************************************)
EXTENDS Channel, Sequences, FiniteSets, FiniteSetsExt

CONSTANTS
    Images,      \* MCUs of components 0, 1, 2 of the possible images
    Uses,        \* the components used, in order: cfg->components
    Densities,   \* the possible explicit densities of a sender
    MaxLen       \* longest message, in bytes

ASSUME ChannelsAssumption ==
    /\ Images \subseteq [0 .. 2 -> Nat \ {0}]
    /\ Uses \subseteq {<<a>> : a \in 0 .. 2}
                \cup {<<a, b>> : a, b \in 0 .. 2}
                \cup {<<a, b, c>> : a, b, c \in 0 .. 2}
    /\ Densities \subseteq 1 .. 100
    /\ MaxLen \in Nat

VARIABLES
    job,        \* the image, the settings of both sides; never changes
    pc,         \* where the program is
    chan,       \* the channel that is next
    capacity,   \* cfg->capacity
    lengths,    \* cfg->data_lengths
    density,    \* the sender's cfg->mcu_density
    ring,       \* how far the PRN ring has been turned
    image,      \* what each channel holds
    nwedge,     \* the results of the sender's channels
    embedded,   \* what jel_embed returned
    buffer,     \* the receiver's buffer
    clen,       \* the results of the receiver's channels
    extracted   \* what jel_extract returned

vars == <<job, pc, chan, capacity, lengths, density, ring, image, nwedge,
          embedded, buffer, clen, extracted>>

NotYet == -99

-----------------------------------------------------------------------------
(* Inputs.                                                                 *)

Chans == 0 .. 2
Used(use) == 0 .. Len(use) - 1           \* channels with a component
Mcus(j, c) == j.mcus[j.use[c + 1]]       \* MCUs of the component of channel c

\* jel_capacity fills in the entries of the channels in use; the others keep
\* the 0 of _jel_init.
Capacities(j, d) ==
    [c \in Chans |-> IF c \in Used(j.use) THEN Capacity(Mcus(j, c), d) ELSE 0]

Total(f) == f[0] + f[1] + f[2]

\* receiver: the receiver's mcu_density, the default or the one agreed on.
\* The capacities are positive: with a negative one, or a sum of 0, the
\* unsigned arithmetic of ijel_set_message is beyond this model.
Jobs ==
    { j \in [mcus : Images, use : Uses, len : 0 .. MaxLen,
             seeded : BOOLEAN, sameKey : BOOLEAN,
             density : Densities \cup {Unspecified},
             receiver : Densities \cup {Unspecified}] :
        /\ j.receiver \in {Unspecified, j.density}
        /\ \A c \in Used(j.use) : Capacity(Mcus(j, c), j.density) > 0 }

Nothing == [from |-> 0, len |-> 0, stored |-> 0, ring |-> 0]

\* Where the ring stands: at the start, or after a channel of so many MCUs
\* was walked to its end, or somewhere in the middle.  (A walk that is not
\* seeded does not turn the ring.)
Start == 0
Lost == -1
\* Mutant: the selection of the MCUs does not reset the ring.
TurnedOn(mcus) == IF job.seeded THEN ring + mcus ELSE ring
Turned(mcus) == IF job.seeded THEN mcus ELSE ring

-----------------------------------------------------------------------------
(* jel_embed.                                                              *)

\* Mutant: what the division leaves is forgotten.
SplitLossy(len, cap) ==
    LET n == Lesser(len, Total(cap))
    IN  IF Len(job.use) = 1
          THEN [c \in Chans |-> IF c = 0 THEN n ELSE 0]
          ELSE [c \in Chans |-> (cap[c] * n) \div Total(cap)]

\* ijel_set_message: a message that is too long is cut; each channel gets its
\* share, rounded down, and the first one what is left.
Split(len, cap) ==
    LET n == Lesser(len, Total(cap))
        share == [c \in Chans |-> (cap[c] * n) \div Total(cap)]
    IN  IF Len(job.use) = 1
          THEN [c \in Chans |-> IF c = 0 THEN n ELSE 0]
          ELSE [share EXCEPT ![0] = n - share[1] - share[2]]

From(n, c) == CASE c = 0 -> 0 [] c = 1 -> n[0] [] c = 2 -> n[0] + n[1]

EmbedBegin ==
    /\ pc = "embed"
    /\ pc' = "stuff"
    /\ chan' = 0
    /\ capacity' = Capacities(job, job.density)
    /\ lengths' = Split(job.len, capacity')
    /\ density' = job.density
    /\ ring' = Start
    /\ UNCHANGED <<job, image, nwedge, embedded, buffer, clen, extracted>>

Stuffing ==
    /\ pc = "stuff"
    /\ chan \in Used(job.use)
    /\ chan' = chan + 1
    /\ UNCHANGED <<job, pc, capacity, lengths, embedded, buffer, clen,
                   extracted>>

\* ijel_stuff_message gives up before it turns the ring.
StuffOverflow ==
    /\ Stuffing
    /\ Overflows(Mcus(job, chan), density, lengths[chan])
    /\ nwedge' = [nwedge EXCEPT ![chan] = JEL_ERR_MSG_OVERFLOW]
    /\ UNCHANGED <<density, ring, image>>

\* The density that is computed for a channel stays in the configuration: the
\* next channel takes it for an explicit one.
StuffChannel ==
    /\ Stuffing
    /\ ~Overflows(Mcus(job, chan), density, lengths[chan])
    /\ density' = StreamDensity(Mcus(job, chan), density, lengths[chan])
    /\ \E s \in Stored(Mcus(job, chan), job.seeded, density', lengths[chan]) :
          image' = [image EXCEPT ![chan] =
                      [from |-> From(lengths, chan), len |-> lengths[chan],
                       stored |-> s, ring |-> ring]]
    /\ nwedge' = [nwedge EXCEPT ![chan] = lengths[chan]]
    /\ ring' = Turned(Mcus(job, chan))

EmbedEnd ==
    /\ pc = "stuff"
    /\ chan \notin Used(job.use)
    /\ pc' = "extract"
    /\ embedded' = LET failed == {c \in Chans : nwedge[c] < 0}
                   IN  IF failed # {} THEN nwedge[Min(failed)]
                                      ELSE Total(nwedge)
    /\ UNCHANGED <<job, chan, capacity, lengths, density, ring, image, nwedge,
                   buffer, clen, extracted>>

-----------------------------------------------------------------------------
(* jel_extract.  The buffer is as large as the receiver could ever need.   *)

Junk == -1
Places == 0 .. 3 * Max({MaxBytes(i[c]) : i \in Images, c \in Chans}) - 1

\* cfg->data_ptr: a channel's piece is put where its capacity begins.
Pointer(c) == From(capacity, c)

\* ijel_set_buffer.
ExtractBegin ==
    /\ pc = "extract"
    /\ pc' = "unstuff"
    /\ chan' = 0
    /\ capacity' = Capacities(job, job.receiver)
    /\ lengths' = capacity'
    /\ ring' = Start
    /\ UNCHANGED <<clen, job, density, image, nwedge, embedded, buffer, extracted>>

Unstuffing ==
    /\ pc = "unstuff"
    /\ chan \in Used(job.use)
    /\ chan' = chan + 1
    /\ UNCHANGED <<job, pc, capacity, density, image, nwedge, embedded,
                   extracted>>

\* The receiver draws the PRNs the sender drew where it wrote this channel.
InStep ==
    /\ nwedge[chan] >= 0
    /\ job.seeded => job.sameKey /\ ring = image[chan].ring

\* ijel_unstuff_message walks to the end and delivers n bytes.
Deliver(n, bytes) ==
    /\ buffer' = [p \in Places |->
                    IF Pointer(chan) <= p /\ p < Pointer(chan) + n
                      THEN bytes[p - Pointer(chan)] ELSE buffer[p]]
    /\ lengths' = [lengths EXCEPT ![chan] = n]
    /\ ring' = Turned(Mcus(job, chan))

\* It returns early: no length, no bytes, and the ring is left as it is.
GiveUp ==
    /\ ring' = IF job.seeded THEN Lost ELSE ring
    /\ UNCHANGED <<lengths, buffer>>

\* What the piece says it is: nothing at all, or too much, ends the walk.
UnstuffFound ==
    /\ Unstuffing
    /\ InStep
    /\ LET piece == image[chan]
           n == Found(Mcus(job, chan), piece.len, piece.stored, lengths[chan])
           bytes == [i \in 0 .. n - 1 |->
                       IF /\ i < piece.len
                          /\ Readable(i, piece.stored, capacity[chan])
                         THEN piece.from + i ELSE Junk]
       IN  /\ clen' = [clen EXCEPT ![chan] = n]
           /\ IF n > 0 THEN Deliver(n, bytes) ELSE GiveUp

UnstuffMisread ==
    /\ Unstuffing
    /\ ~InStep
    /\ \E n \in Misread(Mcus(job, chan), lengths[chan]) :
          /\ clen' = [clen EXCEPT ![chan] = n]
          /\ IF n > 0 THEN Deliver(n, [i \in 0 .. n - 1 |-> Junk]) ELSE GiveUp

\* Moves n bytes from p to q.
Move(text, p, q, n) ==
    [x \in Places |-> IF q <= x /\ x < q + n THEN text[x - q + p] ELSE text[x]]

\* Mutant: the third piece goes behind the second one's capacity.
ExtractEndGap ==
    /\ pc = "unstuff"
    /\ chan \notin Used(job.use)
    /\ pc' = "done"
    /\ buffer' =
         LET second == lengths[0]
             third == second + capacity[1]
             one == IF 1 \in Used(job.use)
                      THEN Move(buffer, Pointer(1), second, lengths[1])
                      ELSE buffer
         IN  IF 2 \in Used(job.use)
               THEN Move(one, Pointer(2), third, lengths[2]) ELSE one
    /\ extracted' = Total(clen)
    /\ UNCHANGED <<job, chan, capacity, lengths, density, ring, image, nwedge,
                   embedded, clen>>

\* The pieces are moved together by the lengths in the configuration.
ExtractEnd ==
    /\ pc = "unstuff"
    /\ chan \notin Used(job.use)
    /\ pc' = "done"
    /\ buffer' =
         LET second == lengths[0]
             third == second + lengths[1]
             one == IF 1 \in Used(job.use)
                      THEN Move(buffer, Pointer(1), second, lengths[1])
                      ELSE buffer
         IN  IF 2 \in Used(job.use)
               THEN Move(one, Pointer(2), third, lengths[2]) ELSE one
    /\ extracted' = Total(clen)
    /\ UNCHANGED <<job, chan, capacity, lengths, density, ring, image, nwedge,
                   embedded, clen>>

-----------------------------------------------------------------------------
Init ==
    /\ job \in Jobs
    /\ pc = "embed"
    /\ chan = 0
    /\ capacity = [c \in Chans |-> 0]
    /\ lengths = [c \in Chans |-> 0]
    /\ density = Unspecified
    /\ ring = Start
    /\ image = [c \in Chans |-> Nothing]
    /\ nwedge = [c \in Chans |-> 0]
    /\ embedded = NotYet
    /\ buffer = [p \in Places |-> Junk]
    /\ clen = [c \in Chans |-> 0]
    /\ extracted = NotYet

Next == EmbedBegin \/ StuffOverflow \/ StuffChannel \/ EmbedEnd
        \/ ExtractBegin \/ UnstuffFound \/ UnstuffMisread \/ ExtractEnd

Spec == Init /\ [][Next]_vars

-----------------------------------------------------------------------------
(* What must hold.                                                         *)

Last == Len(job.use) - 1
Whole(c) == image[c].stored = StreamBits(image[c].len)
AllWhole == \A c \in Used(job.use) : nwedge[c] >= 0 /\ Whole(c)
InKey == job.seeded => job.sameKey

\* The split covers the message exactly, and only the first of three channels,
\* which takes what the division leaves, can be asked for more than its
\* capacity: for one byte more.
MessageSplit ==
    pc = "stuff" =>
        /\ Total(lengths) = Lesser(job.len, Total(capacity))
        /\ \A c \in 1 .. 2 : lengths[c] \in 0 .. capacity[c]
        /\ lengths[0] \in 0 .. capacity[0] + (Last \div 2)

\* A piece within the capacity of its channel goes into it whole, provided
\* the density was set, or is computed for that channel.
PieceFits ==
    pc = "extract" =>
        \A c \in Used(job.use) :
            /\ nwedge[c] >= 0
            /\ image[c].len <= capacity[c]
            /\ c = 0 \/ job.density # Unspecified
            => Whole(c)

\* The split loses nothing of the message, and what it gives to a channel can
\* be stored there.
SplitFits == MessageSplit /\ PieceFits

\* An empty piece makes the receiver return before it has drawn the PRNs of
\* the channel, and leaves data_lengths as it was.  The last channel, and
\* without a seed empty channels at the end, do no harm.
NoGap ==
    \A c \in Used(job.use) : image[c].len = 0 =>
        IF job.seeded THEN c = Last
                      ELSE \A e \in c .. Last : image[e].len = 0

\* If every piece went in whole, none is empty and the receiver has the
\* capacities for them, then what it puts together from the channels is the
\* message, of the length jel_embed returned.
EndToEnd ==
    /\ pc = "done"
    /\ AllWhole
    /\ InKey
    /\ NoGap
    /\ \A c \in Used(job.use) : image[c].len <= capacity[c]
    => /\ extracted = embedded
       /\ embedded = Lesser(job.len, Total(Capacities(job, job.density)))
       /\ \A i \in 0 .. embedded - 1 : buffer[i] = i

\* A receiver that was out of step, and took what it read for a message, is
\* in step again at the next channel: the selection of the MCUs has reset
\* its ring.
Resync ==
    pc = "unstuff" /\ chan - 1 \in Used(job.use) /\ chan \in Used(job.use) =>
        (clen[chan - 1] > 0 /\ nwedge[chan - 1] >= 0
            => nwedge[chan] < 0 \/ ring = image[chan].ring)

-----------------------------------------------------------------------------
(* What the documentation says of the program, and the program does not do.*)

\* The bytes of the message that channel c holds.
BytesIn(c) == Greater(0, (image[c].stored - HeaderBits) \div 8)

\* jel_embed returns the number of bytes that were embedded.
CountEmbedded ==
    pc = "extract" /\ embedded >= 0 =>
        embedded = BytesIn(0) + BytesIn(1) + BytesIn(2)
=============================================================================
