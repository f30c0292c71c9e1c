------------------------------ MODULE Restart -------------------------------
(***************************************************************************)
(* The entropy coded data of an image with restart markers: one libjpeg    *)
(* writes it, it is damaged on its way, and the libjpeg under jel reads    *)
(* it.  A restart marker begins every segment but the first; the reader    *)
(* has lost its place in a segment that is damaged and looks for it again  *)
(* at the next marker, of whose number it knows three bits.                *)
(*                                                                         *)
(* A file is the sequence of its segments, each with its marker and its    *)
(* symbols; the last is the end of the image.  The Huffman codes are left  *)
(* out: a symbol is a run length, a size and the bits of a value.  Whatever *)
(* bits are lost in a segment, and whatever is added to it, there is a     *)
(* marker at its end.                                                      *)
(***************************************************************************)
EXTENDS Integers, FiniteSets, FiniteSetsExt, SequencesExt

CONSTANTS
    Image,       \* the image: a sequence of MCUs, each a sequence of blocks,
                 \* one of each component, in zigzag order
    DctSize2,    \* DCTSIZE2: coefficients of a block
    Interval,    \* restart_interval
    Managers,    \* the data sources: "stdio" and "memory"
    Wrong,       \* what a marker may turn into
    Cuts,        \* how many symbols a damaged segment may keep
    MaxDamages   \* how often a file is damaged

\* Markers, from the first restart marker on; none at all; no legal one.
RSTs == 0 .. 7
SOI == 8
EOI == 9
None == -1
Invalid == -2
Markers == RSTs \cup {SOI, EOI, Invalid}

Zero == [k \in 0 .. DctSize2 - 1 |-> 0]
Grey == [c \in DOMAIN Image[1] |-> Zero]

ASSUME RestartAssumption ==
    /\ DctSize2 \in Nat \ {0}
    /\ \A n \in DOMAIN Image : \A c \in DOMAIN Image[n] :
          /\ DOMAIN Image[n] = DOMAIN Image[1]
          /\ Image[n][c] \in [0 .. DctSize2 - 1 -> -1023 .. 1023]
    /\ Interval \in Nat \ {0}
    /\ Managers \subseteq {"stdio", "memory"}
    /\ Wrong \subseteq Markers
    /\ Cuts \subseteq Nat
    /\ MaxDamages \in Nat

VARIABLES
    phase,     \* "writing", "damage", "reading", "done" or "error"
    file,      \* the segments of the file
    manager,   \* the data source
    togo,      \* restarts_to_go
    number,    \* next_restart_num
    lastDc,    \* last_dc_val of each component
    count,     \* MCUs written or read so far
    place,     \* the reader: how many markers and symbols after them are read
    unread,    \* unread_marker
    starved,   \* insufficient_data
    mcus,      \* the MCUs that have been read
    hurt,      \* history: the segments whose data has been damaged or lost
    astray,    \* history: the segments whose marker has been damaged or lost
    misread,   \* history: those whose marker has become another restart marker
    damages    \* history: how often it has been damaged

coder == <<togo, number, lastDc, count>>
input == <<place, unread, starved>>
history == <<hurt, astray, misread, damages>>
vars == <<phase, file, manager, coder, input, mcus, history>>

-----------------------------------------------------------------------------
(* Symbols: encode_one_block of jchuff.c and decode_mcu of jdhuff.c.        *)

Comps == DOMAIN Image[1]
NoPrediction == [c \in Comps |-> 0]

\* The number of bits of the magnitude of v.
Size(v) == CHOOSE n \in 0 .. 11 :
    /\ v < 2 ^ n /\ -v < 2 ^ n
    /\ n > 0 => (v >= 2 ^ (n - 1) \/ -v >= 2 ^ (n - 1))

\* A negative value is coded as the complement of its magnitude.
Bits(v) == IF v >= 0 THEN v ELSE v - 1 + 2 ^ Size(v)

HUFF_EXTEND(bits, size) ==
    IF size > 0 /\ bits < 2 ^ (size - 1) THEN bits - 2 ^ size + 1 ELSE bits

Symbol(run, v) == [run |-> run, size |-> Size(v), bits |-> Bits(v)]
ZRL == [run |-> 15, size |-> 0, bits |-> 0]
EOB == Symbol(0, 0)

\* Runs of more than 15 zeros are taken apart, and those at the end left out.
AcSymbols(block) ==
    LET step(st, k) ==
          IF block[k] = 0 THEN [st EXCEPT !.run = @ + 1]
          ELSE [run |-> 0,
                coded |-> st.coded \o [n \in 1 .. st.run \div 16 |-> ZRL]
                            \o <<Symbol(st.run % 16, block[k])>>]
        all == FoldLeft(step, [run |-> 0, coded |-> <<>>],
                        [k \in 1 .. DctSize2 - 1 |-> k])
    IN  all.coded \o (IF all.run > 0 THEN <<EOB>> ELSE <<>>)

encode_one_block(block, last) == <<Symbol(0, block[0] - last)>> \o AcSymbols(block)

\* What 0 bits mean in the tables of std_huff_tables: a difference of 0; for
\* luminance a coefficient of one bit, for chrominance the end of the block.
ZerosDc == [run |-> 0, size |-> 0, bits |-> 0]
ZerosAc(c) == IF c = 1 THEN [run |-> 0, size |-> 1, bits |-> 0] ELSE EOB

-----------------------------------------------------------------------------
(* The writer: jchuff.c.                                                   *)

\* encode_mcu_huff, with emit_restart.
EncodeMcu ==
    LET restart == togo = 0
        dc == IF restart THEN NoPrediction ELSE lastDc
        mcu == Image[count + 1]
        data == FlattenSeq([c \in Comps |-> encode_one_block(mcu[c], dc[c])])
        last == Len(file)
    IN  /\ phase = "writing"
        /\ count < Len(Image)
        /\ file' =
             IF restart
               THEN Append(file, [is |-> last + 1, marker |-> number, data |-> data])
               ELSE [file EXCEPT ![last].data = @ \o data]
        /\ togo' = (IF restart THEN Interval ELSE togo) - 1
        /\ number' = IF restart THEN (number + 1) % 8 ELSE number
        /\ lastDc' = [c \in Comps |-> mcu[c][0]]
        /\ count' = count + 1
        /\ UNCHANGED <<phase, manager, input, mcus, history>>

\* finish_pass_huff and write_file_trailer.
FinishPass ==
    /\ phase = "writing"
    /\ count = Len(Image)
    /\ phase' = "damage"
    /\ file' = Append(file, [is |-> Len(file) + 1, marker |-> EOI, data |-> <<>>])
    /\ UNCHANGED <<manager, coder, input, mcus, history>>

-----------------------------------------------------------------------------
(* What may happen to a file.                                              *)

Damage(segments) ==
    /\ phase = "damage"
    /\ damages < MaxDamages
    /\ damages' = damages + 1
    /\ file' = segments
    /\ UNCHANGED <<phase, manager, coder, input, mcus>>

\* The segments from the i-th on.
From(i) == {file[j].is : j \in i .. Len(file)}

\* Its data goes to the segment before.
LoseMarker == \E i \in 2 .. Len(file) :
    LET longer == [file EXCEPT ![i - 1].data = @ \o file[i].data]
    IN  /\ Damage(RemoveAt(longer, i))
        /\ astray' = astray \cup {file[i].is}
        /\ UNCHANGED <<hurt, misread>>

\* At what seems to be the end of the image, or its start, reading stops.
WrongMarker == \E i \in 2 .. Len(file), m \in Wrong :
    /\ m # file[i].marker
    /\ Damage([file EXCEPT ![i].marker = m])
    /\ astray' = astray \cup {file[i].is}
    /\ misread' = IF m \in RSTs THEN misread \cup {file[i].is} ELSE misread
    /\ hurt' = IF m \in {SOI, EOI} THEN hurt \cup From(i) ELSE hurt

\* Only its first n symbols are left of a segment.
LoseData == \E i \in 1 .. Len(file), n \in Cuts :
    /\ n < Len(file[i].data)
    /\ Damage([file EXCEPT ![i].data = SubSeq(@, 1, n)])
    /\ hurt' = hurt \cup {file[i].is}
    /\ UNCHANGED <<astray, misread>>

\* The file ends before the marker of a segment.
Truncate == \E i \in 2 .. Len(file) :
    /\ Damage(SubSeq(file, 1, i - 1))
    /\ hurt' = hurt \cup From(i)
    /\ UNCHANGED <<astray, misread>>

-----------------------------------------------------------------------------
(* The reader: jdhuff.c and jdmarker.c, over jpeg-stdio-src.c or           *)
(* jpeg-mem-src.c.  Its state r is the variables of input.                 *)

\* The number of a restart marker, n after or before another.
After(number0, n) == (number0 + n) % 8

\* get_sos and start_pass_huff_decoder.
StartPass ==
    /\ phase = "damage"
    /\ phase' = "reading"
    /\ count' = 0
    /\ togo' = Interval
    /\ number' = 0
    /\ lastDc' = NoPrediction
    /\ UNCHANGED <<file, manager, input, mcus, history>>

\* Mutant: a file, too, begins again.
AtEndAgain == SOI

\* fill_input_buffer at the end of the data: that of a file puts an end of
\* image there, that of memory gives the data again, from its start of image.
AtEnd == IF manager = "stdio" THEN EOI ELSE SOI

\* next_marker: what is before the next marker is skipped.
next_marker(r) ==
    IF r.place.segment < Len(file)
      THEN [r EXCEPT !.place = [segment |-> @.segment + 1, symbol |-> 0],
                     !.unread = file[r.place.segment + 1].marker]
      ELSE [r EXCEPT !.unread = AtEnd]

\* Mutant: only the next restart marker is known to be one to come.
RECURSIVE ResyncToNext(_, _)
ResyncToNext(r, desired) ==
    LET prior == {After(desired, -1), After(desired, -2)}
        future == {After(desired, 1)}
    IN  CASE r.unread \in prior \cup {Invalid} ->
               ResyncToNext(next_marker(r), desired)
          [] r.unread \in future \cup {EOI, SOI} -> r
          [] r.unread \in RSTs \ (prior \cup future) -> [r EXCEPT !.unread = None]

\* A marker of the past, or none: on to the next one.  One of the near future,
\* or one that ends the data: it is left.  Any other: it is ignored.
RECURSIVE jpeg_resync_to_restart(_, _)
jpeg_resync_to_restart(r, desired) ==
    LET prior == {After(desired, -1), After(desired, -2)}
        future == {After(desired, 1), After(desired, 2)}
    IN  CASE r.unread \in prior \cup {Invalid} ->
               jpeg_resync_to_restart(next_marker(r), desired)
          [] r.unread \in future \cup {EOI, SOI} -> r
          [] r.unread \in RSTs \ (prior \cup future) -> [r EXCEPT !.unread = None]

read_restart_marker(r) ==
    LET found == IF r.unread = None THEN next_marker(r) ELSE r
    IN  IF found.unread = number THEN [found EXCEPT !.unread = None]
                                 ELSE jpeg_resync_to_restart(found, number)

\* process_restart: a marker that is left leaves its segment empty.
process_restart(r) ==
    LET next == read_restart_marker(r)
    IN  [next EXCEPT !.starved = @ /\ next.unread # None]

\* Mutant: that there was no data is forgotten.
ReadOn(r, zeros) ==
    LET data == file[r.place.segment].data
        more == r.unread = None /\ r.place.symbol < Len(data)
        there == IF r.unread = None THEN next_marker(r) ELSE r
    IN  IF more THEN [to |-> [r EXCEPT !.place.symbol = @ + 1],
                      symbol |-> data[r.place.symbol + 1]]
                ELSE [to |-> there, symbol |-> zeros]

\* jpeg_fill_bit_buffer: at a marker, zeros.
Read(r, zeros) ==
    LET data == file[r.place.segment].data
        more == r.unread = None /\ r.place.symbol < Len(data)
        there == IF r.unread = None THEN next_marker(r) ELSE r
    IN  IF more THEN [to |-> [r EXCEPT !.place.symbol = @ + 1],
                      symbol |-> data[r.place.symbol + 1]]
                ELSE [to |-> [there EXCEPT !.starved = TRUE], symbol |-> zeros]

Value(symbol) == HUFF_EXTEND(symbol.bits, symbol.size)

\* The coefficients of a block of component c from the k-th on.
RECURSIVE DecodeAc(_, _, _, _)
DecodeAc(r, c, block, k) ==
    LET got == Read(r, ZerosAc(c))
        at == k + got.symbol.run
    IN  IF k >= DctSize2 THEN [to |-> r, block |-> block]
        ELSE IF got.symbol.size > 0
          THEN DecodeAc(got.to, c, [block EXCEPT ![Min({at, DctSize2 - 1})] =
                                                     Value(got.symbol)], at + 1)
        ELSE IF got.symbol.run = 15 THEN DecodeAc(got.to, c, block, at + 1)
        ELSE [to |-> got.to, block |-> block]

DecodeBlock(r, c, last) ==
    LET dc == Read(r, ZerosDc)
    IN  DecodeAc(dc.to, c, [Zero EXCEPT ![0] = last + Value(dc.symbol)], 1)

\* The blocks of an MCU: nothing if there is no data left.
DecodeBlocks(r, dc) ==
    LET step(st, c) ==
          LET got == DecodeBlock(st.to, c, dc[c])
          IN  [to |-> got.to, blocks |-> Append(st.blocks, got.block)]
    IN  IF r.starved THEN [to |-> r, blocks |-> Grey]
        ELSE FoldLeft(step, [to |-> r, blocks |-> <<>>], [c \in Comps |-> c])

\* decode_mcu.
DecodeMcu ==
    LET restart == togo = 0
        before == [place |-> place, unread |-> unread, starved |-> starved]
        start == IF restart THEN process_restart(before) ELSE before
        dc == IF restart THEN NoPrediction ELSE lastDc
        mcu == DecodeBlocks(start, dc)
    IN  /\ phase = "reading"
        /\ count < Len(Image)
        /\ place' = mcu.to.place
        /\ unread' = mcu.to.unread
        /\ starved' = mcu.to.starved
        /\ number' = IF restart THEN (number + 1) % 8 ELSE number
        /\ togo' = (IF restart THEN Interval ELSE togo) - 1
        /\ lastDc' = IF start.starved THEN dc ELSE [c \in Comps |-> mcu.blocks[c][0]]
        /\ mcus' = Append(mcus, mcu.blocks)
        /\ count' = count + 1
        /\ UNCHANGED <<phase, file, manager, history>>

\* read_markers, when all MCUs have been read: restart markers are ignored.
ReadMarkers ==
    LET before == [place |-> place, unread |-> unread, starved |-> starved]
        found == IF unread = None THEN next_marker(before) ELSE before
    IN  /\ phase = "reading"
        /\ count = Len(Image)
        /\ place' = found.place
        /\ unread' = None
        /\ phase' = CASE found.unread = EOI -> "done"
                      [] found.unread \in {SOI, Invalid} -> "error"
                      [] found.unread \in RSTs -> "reading"
        /\ UNCHANGED <<file, manager, coder, starved, mcus, history>>

-----------------------------------------------------------------------------
Init ==
    /\ phase = "writing"
    /\ file = << [is |-> 1, marker |-> None, data |-> <<>>] >>
    /\ manager \in Managers
    /\ togo = Interval
    /\ number = 0
    /\ lastDc = NoPrediction
    /\ count = 0
    /\ place = [segment |-> 1, symbol |-> 0]
    /\ unread = None
    /\ starved = FALSE
    /\ mcus = <<>>
    /\ hurt = {}
    /\ astray = {}
    /\ misread = {}
    /\ damages = 0

Next ==
    \/ EncodeMcu \/ FinishPass
    \/ LoseMarker \/ WrongMarker \/ LoseData \/ Truncate
    \/ StartPass \/ DecodeMcu \/ ReadMarkers

Spec == Init /\ [][Next]_vars

-----------------------------------------------------------------------------
(* What must hold.                                                         *)

SegmentOf(n) == (n - 1) \div Interval + 1

\* The reader is where it should be in the segments after s - 3.
Placed(s) == (s - 2 .. s) \cap misread = {}

\* However two places of a file have been damaged, every segment whose marker
\* and data are there is read as it was written, into its place; only after a
\* marker with a wrong number the reader may need two more segments
\* (jpeg_resync_to_restart, "no more than two counts behind or ahead").
InPlace ==
    \A n \in 1 .. Len(mcus) :
        LET s == SegmentOf(n)
        IN  s \notin hurt \cup astray /\ Placed(s) => mcus[n] = Image[n]

\* Of a segment that is not all there, one MCU at most is made up of what is
\* not in the image; those after it are left zero (insufficient_data).  The
\* marker after it must be there, or its data may go on with other data.
OneMadeUp ==
    \A s \in 1 .. SegmentOf(Len(Image)) :
        LET mine == (s - 1) * Interval + 1 .. Min({s * Interval, Len(mcus)})
            wrong == {n \in mine : mcus[n] \notin {Image[n], Grey}}
        IN  Placed(s) /\ s + 1 \notin astray => Cardinality(wrong) <= 1

\* Reading fails only because of a marker that cannot be where it is, or because
\* an image in memory has lost its end; a file that has is given one
\* (fill_input_buffer).
EndSupplied ==
    phase = "error" =>
        \/ \E i \in DOMAIN file : file[i].marker \in {SOI, Invalid}
        \/ manager = "memory" /\ \A i \in DOMAIN file : file[i].marker # EOI
=============================================================================
