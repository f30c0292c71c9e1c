------------------------------ MODULE PrnCache ------------------------------
(***************************************************************************)
(* The ring of PRNs (jel.c, jelprn_create to jelprn_reload) over the life  *)
(* of the two configurations: the one that embeds a series of images and   *)
(* the one that extracts from them.  jel_embed and jel_extract fill a ring *)
(* from the generator state kept in the configuration, which goes on from  *)
(* image to image, and free it once the channels are done; an error of     *)
(* libjpeg after that loses the image, but not what the generator did.     *)
(*                                                                         *)
(* Both sides have the same seed.  The n-th value that nrand48 returns     *)
(* after seeding is the number n.  What Steg and Channels assume of the    *)
(* ring, that both sides start an image with the same one, is a property   *)
(* of this module.                                                         *)
(***************************************************************************)
EXTENDS Integers, Sequences

CONSTANTS
    Sizes,        \* ring sizes: the MCUs of the possible images
    MaxImages,    \* bound: images sent
    MaxFills,     \* bound: rings filled between two seedings
    MaxCalls      \* bound: PRNs drawn for one image

ASSUME PrnCacheAssumption ==
    /\ Sizes \subseteq Nat \ {0}
    /\ MaxImages \in Nat
    /\ MaxFills \in Nat
    /\ MaxCalls \in Nat

VARIABLES
    seed16v,   \* how far each generator has gone since it was seeded
    cache,     \* cfg->prn_cache: list and k
    busy,      \* inside jel_embed, jel_extract
    opened,    \* history: how the image under way was started
    drawn,     \* history: the PRNs drawn since then, or since the last reset,
               \* and the read index the series started at
    filled,    \* history: the sizes of the rings filled since seeding
    sent,      \* history: how each image that was sent had been started
    received   \* the images that reached the receiver, or were lost

vars == <<seed16v, cache, busy, opened, drawn, filled, sent, received>>

Sides == {"sender", "receiver"}

NoCache == [list |-> <<>>, k |-> 0]

\* The n PRNs that follow the first p of the series.
Fill(p, n) == [i \in 1 .. n |-> p + i]

-----------------------------------------------------------------------------
\* Mutant: the new seed does not reach the generator.
SeedNot(s) ==
    /\ ~busy[s]
    /\ filled' = [filled EXCEPT ![s] = <<>>]
    /\ UNCHANGED <<seed16v, cache, busy, opened, drawn, sent, received>>

\* jel_setprop(PRN_SEED) seeds the generator.  It does not touch a ring.
Seed(s) ==
    /\ ~busy[s]
    /\ seed16v' = [seed16v EXCEPT ![s] = 0]
    /\ filled' = [filled EXCEPT ![s] = <<>>]
    /\ UNCHANGED <<cache, busy, opened, drawn, sent, received>>

\* Mutant: the generator is copied, and every ring filled from the same state.
OpenCopy(s, size) ==
    /\ ~busy[s]
    /\ Len(filled[s]) < MaxFills
    /\ busy' = [busy EXCEPT ![s] = TRUE]
    /\ IF cache[s] = NoCache
         THEN /\ cache' = [cache EXCEPT ![s] =
                             [list |-> Fill(seed16v[s], size), k |-> 0]]
              /\ filled' = [filled EXCEPT ![s] = Append(@, size)]
              /\ UNCHANGED seed16v
         ELSE UNCHANGED <<cache, seed16v, filled>>
    /\ opened' = [opened EXCEPT ![s] =
                    [ring |-> cache'[s], filled |-> filled'[s], size |-> size]]
    /\ drawn' = [drawn EXCEPT ![s] = [from |-> cache'[s].k, prns |-> <<>>]]

\* The start of jel_embed, jel_extract: a ring is made unless there is one.
Open(s, size) ==
    /\ ~busy[s]
    /\ Len(filled[s]) < MaxFills
    /\ busy' = [busy EXCEPT ![s] = TRUE]
    /\ IF cache[s] = NoCache
         THEN /\ cache' = [cache EXCEPT ![s] =
                             [list |-> Fill(seed16v[s], size), k |-> 0]]
              /\ seed16v' = [seed16v EXCEPT ![s] = @ + size]
              /\ filled' = [filled EXCEPT ![s] = Append(@, size)]
         ELSE UNCHANGED <<cache, seed16v, filled>>
    /\ opened' = [opened EXCEPT ![s] =
                    [ring |-> cache'[s], filled |-> filled'[s], size |-> size]]
    /\ drawn' = [drawn EXCEPT ![s] = [from |-> cache'[s].k, prns |-> <<>>]]

OpenToEmbed ==
    /\ Len(sent) < MaxImages
    /\ \E size \in Sizes : Open("sender", size)
    /\ UNCHANGED <<sent, received>>

OpenToExtract ==
    /\ received < Len(sent)
    /\ Open("receiver", sent[received + 1].size)
    /\ received' = received + 1
    /\ UNCHANGED sent

\* Mutant: the ring goes round one entry early.
DrawEarly(s) ==
    /\ busy[s]
    /\ Len(drawn[s].prns) < MaxCalls
    /\ LET c == cache[s]
           k == IF c.k >= Len(c.list) - 1 THEN 0 ELSE c.k
       IN  /\ drawn' = [drawn EXCEPT ![s].prns = Append(@, c.list[k + 1])]
           /\ cache' = [cache EXCEPT ![s].k = k + 1]
    /\ UNCHANGED <<seed16v, busy, opened, filled, sent, received>>

\* jelprn_next.
Draw(s) ==
    /\ busy[s]
    /\ Len(drawn[s].prns) < MaxCalls
    /\ LET c == cache[s]
           k == IF c.k >= Len(c.list) THEN 0 ELSE c.k
       IN  /\ drawn' = [drawn EXCEPT ![s].prns = Append(@, c.list[k + 1])]
           /\ cache' = [cache EXCEPT ![s].k = k + 1]
    /\ UNCHANGED <<seed16v, busy, opened, filled, sent, received>>

\* jelprn_reset.
Reset(s) ==
    /\ busy[s]
    /\ cache' = [cache EXCEPT ![s].k = 0]
    /\ drawn' = [drawn EXCEPT ![s] = [from |-> 0, prns |-> <<>>]]
    /\ UNCHANGED <<seed16v, busy, opened, filled, sent, received>>

\* The channels are done: jelprn_destroy, and the image is finished.
Close(s) ==
    /\ busy[s]
    /\ busy' = [busy EXCEPT ![s] = FALSE]
    /\ cache' = [cache EXCEPT ![s] = NoCache]
    /\ sent' = IF s = "sender" THEN Append(sent, opened[s]) ELSE sent
    /\ UNCHANGED <<seed16v, opened, drawn, filled, received>>

\* The channels are done, but libjpeg cannot write the image, and longjmp
\* leaves jel_embed with JEL_ERR_JPEG.  The caller may try again.
Abort ==
    /\ busy["sender"]
    /\ busy' = [busy EXCEPT !["sender"] = FALSE]
    /\ cache' = [cache EXCEPT !["sender"] = NoCache]
    /\ UNCHANGED <<seed16v, opened, drawn, filled, sent, received>>

\* An image does not reach the receiver.
Lose ==
    /\ ~busy["receiver"]
    /\ received < Len(sent)
    /\ received' = received + 1
    /\ UNCHANGED <<seed16v, cache, busy, opened, drawn, filled, sent>>

-----------------------------------------------------------------------------
Idle == [ring |-> NoCache, filled |-> <<>>, size |-> 0]

Init ==
    /\ seed16v = [s \in Sides |-> 0]
    /\ cache = [s \in Sides |-> NoCache]
    /\ busy = [s \in Sides |-> FALSE]
    /\ opened = [s \in Sides |-> Idle]
    /\ drawn = [s \in Sides |-> [from |-> 0, prns |-> <<>>]]
    /\ filled = [s \in Sides |-> <<>>]
    /\ sent = <<>>
    /\ received = 0

Next ==
    \/ OpenToEmbed
    \/ OpenToExtract
    \/ Lose
    \/ Abort
    \/ \E s \in Sides : Seed(s) \/ Draw(s) \/ Reset(s) \/ Close(s)

Spec == Init /\ [][Next]_vars

-----------------------------------------------------------------------------
(* What must hold.                                                         *)

Rings == [list : Seq(Nat), k : Nat]
Openings == [ring : Rings, filled : Seq(Sizes), size : Nat]

\* The values of the variables.
TypeOK ==
    /\ seed16v \in [Sides -> Nat]
    /\ cache \in [Sides -> Rings]
    /\ busy \in [Sides -> BOOLEAN]
    /\ opened \in [Sides -> Openings]
    /\ drawn \in [Sides -> [from : Nat, prns : Seq(Nat)]]
    /\ filled \in [Sides -> Seq(Sizes)]
    /\ sent \in Seq(Openings)
    /\ received \in 0 .. Len(sent)

\* The operators Steg draws with, for a ring of n PRNs.
Closed(n) == INSTANCE Selection WITH NMcus <- 1, MaxFreqs <- 1, NList <- n

\* A series of calls of jelprn_next, wherever it starts and however often it
\* goes round the ring, returns what PrnAt says and leaves the read index
\* where Advance says.
RingGoesRound ==
    \A s \in Sides : busy[s] =>
        LET c == cache[s]
            n == Len(c.list)
            ring == [i \in 0 .. n - 1 |-> c.list[i + 1]]
            d == drawn[s]
        IN  /\ c.k = Closed(n)!Advance(d.from, Len(d.prns))
            /\ \A i \in 1 .. Len(d.prns) :
                  d.prns[i] = Closed(n)!PrnAt(ring, d.from, i)

\* What the receiver is about to read, as the sender started it.
Image == sent[received]

\* Two sides that have filled rings of the same sizes since they seeded start
\* an image with the same ring, at the same place, whatever was seeded again,
\* failed or lost before.
InStep ==
    busy["receiver"] =>
        (Image.filled = opened["receiver"].filled
            => Image.ring = opened["receiver"].ring)

\* No PRN is used for two images between two seedings.
NoPrnTwice ==
    \A i, j \in 1 .. Len(sent) :
        /\ i < j
        /\ Len(sent[i].filled) < Len(sent[j].filled)
        /\ sent[i].filled = SubSeq(sent[j].filled, 1, Len(sent[i].filled))
        => \A x \in DOMAIN sent[i].ring.list, y \in DOMAIN sent[j].ring.list :
              sent[i].ring.list[x] # sent[j].ring.list[y]
=============================================================================
