---------------------------- MODULE Frequencies -----------------------------
(***************************************************************************)
(* Which frequencies carry the bits of a channel.  Both sides choose them  *)
(* from the quantisation tables they see, each from its own: the sender    *)
(* from the tables of its compressor, which are those of the image, of a   *)
(* quality, or of libjpeg's defaults, the receiver from those of the file. *)
(* They may choose once (jel_init_frequencies), or anew in each function   *)
(* that looks at a channel (ijel.c).                                       *)
(*                                                                         *)
(* The two configurations make their calls in any order; then the sender   *)
(* embeds, the receiver opens the file, makes its calls and extracts.      *)
(***************************************************************************)
EXTENDS Integers, Sequences, FiniteSets, SequencesExt

CONSTANTS
    DCTSIZE2,    \* the frequencies of a block are 0 .. DCTSIZE2 - 1
    Images,      \* the quantisation tables of images: luminance, chroma
    Standard,    \* the tables of jpeg_set_quality, by quality
    Lists,       \* lists of frequencies a caller may ask for
    Maxes,       \* values of maxfreqs
    NLevels,     \* nlevels: how many levels a frequency must have
    MaxCalls     \* how many calls one side makes

Default == 75              \* the quality of jpeg_set_defaults
Unset == -1                \* cfg->quality after _jel_init
Qualities == DOMAIN Standard
NoTable == <<>>            \* a table the image does not define: NULL
Frequency == 0 .. DCTSIZE2 - 1
Table == [Frequency -> 1 .. 255]
Slots == {0, 1}

ASSUME FrequenciesAssumption ==
    /\ DCTSIZE2 \in Nat \ {0}
    /\ Images \subseteq {i \in [Slots -> Table \cup {NoTable}] : i[0] # NoTable}
    /\ Qualities \subseteq 1 .. 100
    /\ Default \in Qualities
    /\ \A q \in Qualities : Standard[q] \in [Slots -> Table]
    /\ \A l \in Lists : l \in Seq(Frequency) \ {<<>>} /\ Len(l) <= DCTSIZE2
    /\ Maxes \subseteq 1 .. DCTSIZE2
    /\ NLevels \in 1 .. 255
    /\ MaxCalls \in Nat

Sides == {"sender", "receiver"}
Chans == 0 .. 2

VARIABLES
    max,       \* fspec->maxfreqs both sides have agreed on; never changes
    src, dst,  \* quant_tbl_ptrs of srcinfo and dstinfo, by side
    quality,   \* cfg->quality, by side
    init,      \* fspec->init: how the frequencies were chosen, by side
    freqs,     \* fspec->freqs, by side
    open,      \* which sides have a source
    calls,     \* how many calls each side has made
    pc,        \* "sender", "stuff", "receiver", "unstuff", "done", "NULL table"
    chan,      \* the channel that is next
    file,      \* the tables in the file
    used,      \* the frequencies of each channel, by side
    tables,    \* history: the tables the channels' frequencies were chosen
               \* from, by side
    late       \* history, by side: whether a source was opened after the
               \* quality was set, and whether either was done after the
               \* frequencies were chosen for good

config == <<src, dst, quality, init, freqs, open, tables, late>>
vars == <<max, config, calls, pc, chan, file, used>>

Anew == "anew"             \* init = 0: chosen in every function
Chosen == "chosen"         \* by jel_init_frequencies, from a table
Given == "given"           \* by the caller, as a list

-----------------------------------------------------------------------------
(* ijel_get_freq_indices.                                                  *)

Suitable(table) == {j \in Frequency : 255 \div table[j] >= NLevels}

\* Mutant: as many as the caller asks for, suitable or not.
HighestAll(table) ==
    [k \in 1 .. max |-> DCTSIZE2 - k]

\* The loop over the frequencies from above: those found among the highest n,
\* at most max.
Found(table) ==
    LET found[n \in 0 .. DCTSIZE2] ==
          IF n = 0 THEN <<>>
          ELSE IF Len(found[n - 1]) < max /\ DCTSIZE2 - n \in Suitable(table)
            THEN Append(found[n - 1], DCTSIZE2 - n)
            ELSE found[n - 1]
    IN  found
Highest(table) == Found(table)[DCTSIZE2]

\* Entries for which there is no frequency keep their value.
Over(old, list) ==
    [k \in Frequency |-> IF k < Len(list) THEN list[k + 1] ELSE old[k]]

\* The slot of a component's table; components and channels are in order.
Slot(c) == IF c = 0 THEN 0 ELSE 1

\* What a function that looks at channel c leaves in fspec->freqs.
Choose(s, old, c) ==
    IF init[s] = Anew THEN Over(old, Highest(dst[s][Slot(c)])) ELSE old

-----------------------------------------------------------------------------
(* The calls before embedding and extracting.                              *)

Call(s) ==
    /\ pc = s
    /\ calls[s] < MaxCalls
    /\ calls' = [calls EXCEPT ![s] = @ + 1]
    /\ UNCHANGED <<max, pc, chan, file, used>>

\* JEL_PROP_QUALITY.
SetQuality(s) ==
    /\ Call(s)
    /\ \E q \in Qualities :
         /\ quality' = [quality EXCEPT ![s] = q]
         /\ dst' = [dst EXCEPT ![s] = Standard[q]]
    /\ late' = [late EXCEPT ![s].opened = FALSE,
                            ![s].chosen = @ \/ init[s] = Chosen]
    /\ UNCHANGED <<src, init, freqs, open, tables>>

\* Mutant: the tables of the compressor are left as they are.
OpenNoCopy(s) ==
    /\ Call(s)
    /\ \E i \in IF s = "sender" THEN Images ELSE {file} :
          src' = [src EXCEPT ![s] = i]
    /\ open' = open \cup {s}
    /\ late' = [late EXCEPT ![s].opened = (quality[s] # Unset),
                            ![s].chosen = @ \/ init[s] = Chosen]
    /\ UNCHANGED <<dst, quality, init, freqs, tables>>

\* ijel_open_source: jpeg_copy_critical_parameters sets libjpeg's defaults and
\* copies the tables the source has over them, whatever the quality.
Open(s) ==
    /\ Call(s)
    /\ \E i \in IF s = "sender" THEN Images ELSE {file} :
         /\ src' = [src EXCEPT ![s] = i]
         /\ dst' = [dst EXCEPT ![s] =
              [t \in Slots |-> IF i[t] = NoTable THEN Standard[Default][t] ELSE i[t]]]
    /\ open' = open \cup {s}
    /\ late' = [late EXCEPT ![s].opened = (quality[s] # Unset),
                            ![s].chosen = @ \/ init[s] = Chosen]
    /\ UNCHANGED <<quality, init, freqs, tables>>

\* JEL_PROP_NLEVELS, NFREQS, MAXFREQS: the frequencies are to be chosen again.
Reset(s) ==
    /\ Call(s)
    /\ init' = [init EXCEPT ![s] = Anew]
    /\ late' = [late EXCEPT ![s].chosen = FALSE]
    /\ UNCHANGED <<src, dst, quality, freqs, open, tables>>

\* jel_init_frequencies without a list: only if it has not been done before.
jel_init_frequencies(s) ==
    /\ Call(s)
    /\ IF init[s] # Anew THEN UNCHANGED <<init, freqs, tables>>
       ELSE /\ init' = [init EXCEPT ![s] = Chosen]
            /\ freqs' = [freqs EXCEPT ![s] = Over(@, Highest(dst[s][0]))]
            /\ tables' = [tables EXCEPT ![s] = [t \in Slots |-> dst[s][0]]]
    /\ UNCHANGED <<src, dst, quality, open, late>>

\* With a list of maxfreqs frequencies.
GiveFrequencies(s) ==
    /\ Call(s)
    /\ init[s] = Anew
    /\ \E l \in Lists :
         /\ Len(l) = max
         /\ freqs' = [freqs EXCEPT ![s] = Over(@, l)]
    /\ init' = [init EXCEPT ![s] = Given]
    /\ UNCHANGED <<src, dst, quality, open, tables, late>>

\* jel_capacity, through ijel_capacity_iter and ijel_max_mcus.
jel_capacity(s) ==
    /\ Call(s)
    /\ s \in open
    /\ \E c \in Chans : freqs' = [freqs EXCEPT ![s] = Choose(s, @, c)]
    /\ UNCHANGED <<src, dst, quality, init, open, tables, late>>

-----------------------------------------------------------------------------
(* jel_embed.                                                              *)

\* The size of the ring: ijel_max_mcus of the three components.
Begin(s, next) ==
    /\ pc = s
    /\ s \in open
    /\ pc' = next
    /\ chan' = 0
    /\ freqs' = [freqs EXCEPT ![s] = Choose(s, Choose(s, Choose(s, @, 0), 1), 2)]
    /\ tables' = IF init[s] = Anew THEN [tables EXCEPT ![s] = dst[s]] ELSE tables
    /\ UNCHANGED <<max, src, dst, quality, init, open, late, calls, file, used>>

EmbedBegin == Begin("sender", "stuff")

\* ijel_reset_freqs: the first maxfreqs of them.
InUse(list) == [k \in 1 .. max |-> list[k - 1]]

\* ijel_stuff_message.
Stuff ==
    /\ pc = "stuff"
    /\ chan \in Chans
    /\ LET list == Choose("sender", freqs["sender"], chan)
       IN  /\ freqs' = [freqs EXCEPT !["sender"] = list]
           /\ used' = [used EXCEPT !["sender"][chan] = InUse(list)]
    /\ chan' = chan + 1
    /\ UNCHANGED <<max, src, dst, quality, init, open, tables, late, calls, pc, file>>

\* The tables of the quality are set again, and the tables some component
\* goes by are written.
EmbedEnd ==
    /\ pc = "stuff"
    /\ chan \notin Chans
    /\ dst' = IF quality["sender"] = Unset THEN dst
              ELSE [dst EXCEPT !["sender"] = Standard[quality["sender"]]]
    /\ file' = [t \in Slots |-> IF src["sender"][t] = NoTable THEN NoTable
                                ELSE dst'["sender"][t]]
    /\ pc' = "receiver"
    /\ UNCHANGED <<max, src, quality, init, freqs, open, tables, late, calls, chan, used>>

-----------------------------------------------------------------------------
(* jel_extract.                                                            *)

ExtractBegin == Begin("receiver", "unstuff")

\* ijel_unstuff_message chooses from the tables of the source, and then
\* ijel_max_mcus from those of the compressor.
Unstuff ==
    /\ pc = "unstuff"
    /\ chan \in Chans
    /\ ~(init["receiver"] = Anew /\ src["receiver"][Slot(chan)] = NoTable)
    /\ LET old == freqs["receiver"]
           first == IF init["receiver"] = Anew
                      THEN Over(old, Highest(src["receiver"][Slot(chan)])) ELSE old
           list == Choose("receiver", first, chan)
       IN  /\ freqs' = [freqs EXCEPT !["receiver"] = list]
           /\ used' = [used EXCEPT !["receiver"][chan] = InUse(list)]
    /\ chan' = chan + 1
    /\ UNCHANGED <<max, src, dst, quality, init, open, tables, late, calls, pc, file>>

\* The file has no table for chroma.
UnstuffNoTable ==
    /\ pc = "unstuff"
    /\ chan \in Chans
    /\ init["receiver"] = Anew
    /\ src["receiver"][Slot(chan)] = NoTable
    /\ pc' = "NULL table"
    /\ UNCHANGED <<max, config, calls, chan, file, used>>

ExtractEnd ==
    /\ pc = "unstuff"
    /\ chan \notin Chans
    /\ pc' = "done"
    /\ UNCHANGED <<max, config, calls, chan, file, used>>

-----------------------------------------------------------------------------
Init ==
    /\ max \in Maxes
    /\ src = [s \in Sides |-> [t \in Slots |-> NoTable]]
    /\ dst = [s \in Sides |-> Standard[Default]]
    /\ quality = [s \in Sides |-> Unset]
    /\ init = [s \in Sides |-> Anew]
    /\ freqs = [s \in Sides |-> [k \in Frequency |-> 0]]
    /\ open = {}
    /\ tables = [s \in Sides |-> [t \in Slots |-> NoTable]]
    /\ late = [s \in Sides |-> [opened |-> FALSE, chosen |-> FALSE]]
    /\ calls = [s \in Sides |-> 0]
    /\ pc = "sender"
    /\ chan = 0
    /\ file = [t \in Slots |-> NoTable]
    /\ used = [s \in Sides |-> [c \in Chans |-> <<>>]]

Prepare(s) == SetQuality(s) \/ Open(s) \/ Reset(s) \/ jel_init_frequencies(s)
              \/ GiveFrequencies(s) \/ jel_capacity(s)

Next == (\E s \in Sides : Prepare(s)) \/ EmbedBegin \/ Stuff \/ EmbedEnd
        \/ ExtractBegin \/ Unstuff \/ UnstuffNoTable \/ ExtractEnd

Spec == Init /\ [][Next]_vars

-----------------------------------------------------------------------------
(* What must hold.                                                         *)

\* The table the frequencies of channel c come from, and whether it has
\* enough that are suitable.
TableOf(s, c) == tables[s][Slot(c)]
Enough(s, c) ==
    init[s] # Given /\ Cardinality(Suitable(TableOf(s, c))) >= max

\* The sender has set the quality, if at all, after it opened the image, the
\* receiver has set none after it opened the file, and frequencies chosen for
\* good were chosen after that.
InOrder(s) ==
    /\ ~late[s].chosen
    /\ CASE s = "sender" -> ~late[s].opened
         [] s = "receiver" -> quality[s] = Unset \/ late[s].opened

\* Two sides that make their calls in order, and choose both for good or both
\* anew, use the same frequencies in every channel where there are enough.
SameFrequencies ==
    /\ pc = "done"
    /\ init["sender"] = init["receiver"]
    /\ \A s \in Sides : InOrder(s)
    => \A c \in Chans : Enough("sender", c) =>
          used["sender"][c] = used["receiver"][c]

\* Where there are enough, no frequency is used twice in a block, and if they
\* are chosen for each channel, in order, every one has the levels it needs in
\* the table of the channel in the file.
FrequenciesHold ==
    \A s \in Sides, c \in Chans : used[s][c] # <<>> /\ Enough(s, c) =>
        /\ IsInjective(used[s][c])
        /\ /\ pc = "done"
           /\ init[s] = Anew
           /\ InOrder(s)
           /\ file[Slot(c)] # NoTable
           => ToSet(used[s][c]) \subseteq Suitable(file[Slot(c)])
=============================================================================
