----------------------------- MODULE Selection ------------------------------
(***************************************************************************)
(* The pseudo-random choices of libjel, as pure operators: which entry of  *)
(* the PRN ring a call reads (jel.c, jelprn_next), the permutation of the  *)
(* frequency list before each MCU (ijel.c, ijel_permute_freqs) and the     *)
(* choice of the active MCUs (ijel.c, ijel_select_mcus).                   *)
(*                                                                         *)
(* A ring is the content of cfg->prn_cache->list.  The read index k is     *)
(* cfg->prn_cache->k: it is in 0 .. NList, NList meaning that the next     *)
(* call wraps to entry 0.                                                  *)
(***************************************************************************)
EXTENDS Integers

CONSTANTS
    NMcus,      \* cfg->maxmcus: blocks in the colour component
    MaxFreqs,   \* cfg->freqs.maxfreqs: frequencies offered for embedding
    NList       \* cfg->prn_cache->nlist: PRNs in the ring

ASSUME SelectionAssumption ==
    /\ NMcus \in Nat \ {0}
    /\ MaxFreqs \in Nat \ {0}
    /\ NList \in Nat \ {0}

Mcus == 0 .. NMcus - 1
Freqs == 0 .. MaxFreqs - 1

\* in_use holds indices into the (distinct) entries of cfg->freqs.freqs.
Orders == [Freqs -> Freqs]

Distinct(f) == \A x, y \in DOMAIN f : f[x] = f[y] => x = y

-----------------------------------------------------------------------------
(* The ring.                                                               *)

\* What the c-th of a series of calls returns (c >= 1), the series starting
\* at read index k.
PrnAt(ring, k, c) == ring[(k + c - 1) % NList]

\* Mutant: jelprn_next never goes back to entry 0.
AdvanceOn(k, c) == k + c

\* The read index c calls later.
Advance(k, c) == IF c = 0 THEN k ELSE ((k + c - 1) % NList) + 1

-----------------------------------------------------------------------------
(* Shuffling.                                                              *)

\* Mutant: the second half of a swap is missing.
SwapHalf(f, i, j) == [f EXCEPT ![i] = f[j]]

Swap(f, i, j) == [f EXCEPT ![i] = f[j], ![j] = f[i]]

\* The Fisher-Yates loops: pass i, for i from 1 to n, swaps entry i of f with
\* the entry drawn for it.
Shuffle(f, n, draw) ==
    LET pass[i \in 0 .. n] ==
            IF i = 0 THEN f ELSE Swap(pass[i - 1], i, draw[i])
    IN  pass[n]

-----------------------------------------------------------------------------
(* Frequencies.                                                            *)

\* ijel_reset_freqs: the frequencies in the order they were found.
ResetFreqs == [j \in Freqs |-> j]

FreqDraw(ring, k) ==
    [i \in 1 .. MaxFreqs - 1 |-> PrnAt(ring, k, i) % (i + 1)]

\* ijel_permute_freqs: it starts from what the last call left in in_use.
PermuteFreqs(ring, k, used) == Shuffle(used, MaxFreqs - 1, FreqDraw(ring, k))

-----------------------------------------------------------------------------
(* MCUs.                                                                   *)

\* From a ring that was just reset.  Pass 1 draws nothing, and a draw of 0
\* moves nothing: entry 0 stays in place.
McuDraw(ring) ==
    [i \in 1 .. NMcus - 1 |->
        LET j == IF i > 1 THEN PrnAt(ring, 0, i - 1) % (i + 1) ELSE 1
        IN  IF j = 0 THEN i ELSE j]

McuList(ring) == Shuffle([x \in Mcus |-> x], NMcus - 1, McuDraw(ring))

\* Mutant: the flags are not cleared before the chosen ones are set.
McuFlagsAll(seeded, ring, nmcus) == [x \in Mcus |-> TRUE]

\* cfg->mcu_flag.  Without a seed the stride loop only sets flags that are
\* set already, so every MCU stays active whatever the density.
McuFlags(seeded, ring, nmcus) ==
    IF seeded
      THEN LET list == McuList(ring)
           IN  [x \in Mcus |-> x = 0 \/ \E j \in 1 .. nmcus - 1 : list[j] = x]
      ELSE [x \in Mcus |-> TRUE]

\* Where the read index stands after ijel_select_mcus: one draw for each of
\* the passes 2 .. NMcus - 1, after a reset.
SelectIndex(seeded, k) ==
    IF seeded THEN Advance(0, IF NMcus > 2 THEN NMcus - 2 ELSE 0) ELSE k
=============================================================================
