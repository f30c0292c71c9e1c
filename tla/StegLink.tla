------------------------------ MODULE StegLink ------------------------------
(***************************************************************************)
(* The walk over the MCUs (Steg) seen from outside: it keeps the promise   *)
(* of jel_embed and jel_extract (Link), and its results are those Channels *)
(* composes (Channel).                                                     *)
(***************************************************************************)
EXTENDS Steg

Sending == pc \in {"stuff", "stuffing"}

\* The refinement mapping.
L == INSTANCE Link WITH
        len <- job.len,
        room <- Capacity(job.density),
        able <- SameKey /\ job.len <= Capacity(job.receiver),
        phase <- CASE Sending -> "sending"
                   [] pc \in {"unstuff", "unstuffing"} -> "hidden"
                   [] pc = "done" /\ embedded < 0 -> "refused"
                   [] OTHER -> "found",
        whole <- ~Sending /\ Placed,
        correct <- /\ pc = "done"
                   /\ extracted = job.len
                   /\ job.len <= Capacity(job.receiver)
                   /\ Delivered(job.len)

\* Seen as one exchange, the two walks do what jel.h says of jel_embed and
\* jel_extract: no message within the capacity is refused or cut, a receiver
\* with the seed and the capacity finds exactly it.
KeepsPromise == L!Spec

C == INSTANCE Channel

\* The sender fills the channel as far as Channel says, whatever MCUs the
\* shuffle has selected.
StoredAsComputed ==
    pc = "unstuff" /\ job.header =>
        /\ ~C!Overflows(NMcus, job.density, job.len)
        /\ density = C!StreamDensity(NMcus, job.density, job.len)
        /\ trace[NMcus].bit \in C!Stored(NMcus, job.seeded, density, job.len)

ByteRight(i) ==
    \A b \in HeaderBits + 8 * i .. HeaderBits + 8 * i + 7 : got[b] = b

\* The receiver in step returns what Channel says, and has every byte that
\* Channel calls readable.
FoundAsComputed ==
    pc = "done" /\ embedded >= 0 /\ job.header /\ SameKey =>
        LET stored == trace[NMcus].bit
            room == Capacity(job.receiver)
        IN  /\ extracted = C!Found(NMcus, job.len, stored, room)
            /\ extracted = job.len =>
                  \A i \in 0 .. job.len - 1 :
                      C!Readable(i, stored, room) => ByteRight(i)

\* Where the ring stands after a channel does not depend on where it stood
\* before: the selection of the MCUs resets it.
RingForgets ==
    pc = "unstuff" /\ job.header /\ job.seeded =>
        k = Advance(SelectIndex(TRUE, 0), (NMcus - 1) * (MaxFreqs - 1))

\* All that Channels takes from Channel is what the two walks do: how many bits
\* go in, what the receiver returns and has, and where the ring is left.
WalksAsComputed == StoredAsComputed /\ FoundAsComputed /\ RingForgets
=============================================================================
