---------------------------- MODULE Progressive ----------------------------
(***************************************************************************)
(* Progressive JPEG in libjpeg: scan scripts (jcparam.c, jcmaster.c), the  *)
(* encoder of a scan (jcphuff.c) and its decoder (jdphuff.c), which jel    *)
(* uses for a progressive image.  A coefficient comes in several scans,    *)
(* first without its Al lowest bits, then one bit at a time; runs of       *)
(* blocks that end in zeros are counted, and the correction bits of such   *)
(* blocks wait in a buffer until the count is written.                     *)
(*                                                                         *)
(* A segment of a scan is a sequence of Huffman symbols, of which Huffman  *)
(* has the codes, and bits.  An MCU has one block of each component of the *)
(* scan (Transcode has the geometry).                                      *)
(***************************************************************************)
EXTENDS Integers, FiniteSets, FiniteSetsExt, SequencesExt, TLC

CONSTANTS
    NumComps, NumBlocks,   \* components, and blocks of each
    DCTSIZE2,              \* 64
    RunMax,                \* 16
    MAX_CORR_BITS, MAX_COEF_BITS, MAX_AH_AL, MAX_COMPS_IN_SCAN,
    MAX_AL,                \* what the decoder takes for Al: 13
    FirstBand,             \* 5: the end of the first band of AC coefficients
    Jobs,                  \* scripts, images, and restart intervals (0 if none)
    CutScripts,            \* the scripts whose files may be cut
    Fillers                \* symbols that zeros may stand for

Components == 1 .. NumComps
Coefs == 0 .. DCTSIZE2 - 1

ASSUME ProgressiveAssumption ==
    /\ NumComps \in Nat \ {0} /\ NumBlocks \in Nat \ {0}
    /\ DCTSIZE2 \in Nat \ {0, 1} /\ RunMax \in Nat \ {0, 1}
    /\ MAX_CORR_BITS >= DCTSIZE2   \* "The minimum safe size is 64 bits."
    /\ \A j \in Jobs :
           /\ j.image \in [Components -> [1 .. NumBlocks -> [Coefs -> Int]]]
           /\ j.interval \in Nat
    /\ Fillers \subseteq (0 .. RunMax - 1) \X Nat

VARIABLES
    phase,      \* "script", "writing", "written", "reading", "read", "sequential",
                \* "refused" by the writer, "bad" for the reader
    script,     \* the scans
    image,      \* the coefficients that are written
    restart_interval,
    file,       \* the scans with their segments
    cut,        \* history: whether the file has been cut
    mcu,        \* how many MCUs of the scan are done; -1: no scan has been started
    enc,        \* the encoder
    in,         \* the decoder
    array,      \* the coefficients that are read
    coef_bits,  \* the Al of the last scan of a coefficient, -1 for none
    before,     \* history: coef_bits before the scan,
    torn,       \* the MCU in which the data of the scan ended, or 0,
    warned      \* and how often the decoder has found the scans in disorder

\* What is set once.
given == <<script, image, restart_interval>>

vars == <<phase, given, file, cut, mcu, enc, in, array, coef_bits, before, torn, warned>>

-----------------------------------------------------------------------------
(* Scans.                                                                  *)

Scan(comps, ss, se, ah, al) ==
    [comps |-> comps, Ss |-> ss, Se |-> se, Ah |-> ah, Al |-> al]

IsDC(s) == s.Ss = 0

Covers(s, c, k) == Contains(s.comps, c) /\ k \in s.Ss .. s.Se

\* One scan for all the components if it may have so many.
fill_dc_scans(ah, al) ==
    IF NumComps <= MAX_COMPS_IN_SCAN
      THEN <<Scan([c \in Components |-> c], 0, 0, ah, al)>>
      ELSE [c \in Components |-> Scan(<<c>>, 0, 0, ah, al)]

fill_scans(ss, se, ah, al) == [c \in Components |-> Scan(<<c>>, ss, se, ah, al)]

\* The recommended script.
jpeg_simple_progression(isYCbCr) ==
    LET top == DCTSIZE2 - 1
        a(c, ss, se, ah, al) == <<Scan(<<c>>, ss, se, ah, al)>>
    IN  IF NumComps = 3 /\ isYCbCr
          THEN fill_dc_scans(0, 1)
               \o a(1, 1, FirstBand, 0, 2) \o a(3, 1, top, 0, 1) \o a(2, 1, top, 0, 1)
               \o a(1, FirstBand + 1, top, 0, 2) \o a(1, 1, top, 2, 1)
               \o fill_dc_scans(1, 0)
               \o a(3, 1, top, 1, 0) \o a(2, 1, top, 1, 0) \o a(1, 1, top, 1, 0)
          ELSE fill_dc_scans(0, 1)
               \o fill_scans(1, FirstBand, 0, 2) \o fill_scans(FirstBand + 1, top, 0, 2)
               \o fill_scans(1, top, 2, 1)
               \o fill_dc_scans(1, 0) \o fill_scans(1, top, 1, 0)

-----------------------------------------------------------------------------
(* validate_script.                                                        *)

ValidComps(s) ==
    /\ Len(s.comps) \in 1 .. MAX_COMPS_IN_SCAN
    /\ \A i \in DOMAIN s.comps : s.comps[i] \in Components
    /\ \A i \in 2 .. Len(s.comps) : s.comps[i] > s.comps[i - 1]

NoBits == [c \in Components |-> [k \in Coefs |-> -1]]

\* The last Al of every coefficient after some scans.
Sent(scans) ==
    FoldLeft(LAMBDA bits, s :
                 [c \in Components |-> [k \in Coefs |->
                     IF Covers(s, c, k) THEN s.Al ELSE bits[c][k]]],
             NoBits, scans)

\* Mutant: a refinement may also skip a bit.
ValidOrderLoose(s, last) ==
    \A c \in ToSet(s.comps) : \A k \in s.Ss .. s.Se :
        IF last[c][k] < 0 THEN s.Ah = 0 ELSE s.Ah = last[c][k] /\ s.Al < s.Ah

\* A scan is the first of its coefficients, or refines them by one bit.
ValidOrder(s, last) ==
    \A c \in ToSet(s.comps) : \A k \in s.Ss .. s.Se :
        IF last[c][k] < 0 THEN s.Ah = 0 ELSE s.Ah = last[c][k] /\ s.Al = s.Ah - 1

ValidProgression(s, last) ==
    /\ s.Ss \in Coefs /\ s.Se \in s.Ss .. DCTSIZE2 - 1
    /\ s.Ah \in 0 .. MAX_AH_AL /\ s.Al \in 0 .. MAX_AH_AL
    /\ IsDC(s) => s.Se = 0
    /\ ~IsDC(s) => Len(s.comps) = 1 /\ last[s.comps[1]][0] >= 0
    /\ ValidOrder(s, last)

IsProgressive(scans) == scans[1].Ss # 0 \/ scans[1].Se # DCTSIZE2 - 1

validate_script(scans) ==
    /\ scans # <<>>
    /\ \A n \in DOMAIN scans : ValidComps(scans[n])
    /\ IF IsProgressive(scans)
         THEN /\ \A n \in DOMAIN scans :
                    ValidProgression(scans[n], Sent(SubSeq(scans, 1, n - 1)))
              /\ \A c \in Components : Sent(scans)[c][0] >= 0
         ELSE /\ \A n \in DOMAIN scans :
                    scans[n] = Scan(scans[n].comps, 0, DCTSIZE2 - 1, 0, 0)
              /\ \A m, n \in DOMAIN scans :
                    m # n => ToSet(scans[m].comps) \cap ToSet(scans[n].comps) = {}
              /\ \A c \in Components : \E n \in DOMAIN scans : Contains(scans[n].comps, c)

-----------------------------------------------------------------------------
(* Elements of a segment.                                                  *)

Sym(r, s) == <<"sym", r, s>>
Bit(b) == <<"bit", b>>
Bits(v, n) == [i \in 1 .. n |-> Bit((v \div 2 ^ (n - i)) % 2)]

ZRL == Sym(RunMax - 1, 0)

\* 0x7FFF: the longest run of blocks that can be written.
EobMax == 2 ^ (RunMax - 1) - 1

Magnitude(v) == IF v < 0 THEN -v ELSE v
NumBits(v) == CHOOSE n \in 0 .. v : v < 2 ^ n /\ (n > 0 => v >= 2 ^ (n - 1))

\* A number in so many bits; the complement of its magnitude if it is negative.
ValueBits(v, n) == Bits(IF v < 0 THEN v - 1 ELSE v, n)

\* The point transform: a shift for DC, rounding towards 0 for AC coefficients.
Transformed(v, k, al) ==
    IF k = 0 \/ v >= 0 THEN v \div 2 ^ al ELSE -((-v) \div 2 ^ al)

-----------------------------------------------------------------------------
(* The encoder.  e.be are the correction bits that wait for the run of      *)
(* blocks that is counted (BE of bit_buffer), br those of this block (BR);  *)
(* e.peak is how much of bit_buffer was ever used.                          *)

NewEncoder ==
    [out |-> <<>>, eobrun |-> 0, be |-> <<>>, br |-> <<>>, r |-> 0,
     last |-> [c \in Components |-> 0], failed |-> FALSE, peak |-> 0]

Emit(e, elements) == [e EXCEPT !.out = @ \o elements]

\* Mutant: the correction bits are written before the run.
EmitEobrunLate(e) ==
    LET n == NumBits(e.eobrun) - 1
    IN  IF e.eobrun = 0 THEN e
        ELSE [e EXCEPT !.out = @ \o e.be \o <<Sym(n, 0)>> \o Bits(e.eobrun, n),
                       !.eobrun = 0, !.be = <<>>,
                       !.failed = @ \/ n > RunMax - 2]

\* The run, and then the correction bits.
emit_eobrun(e) ==
    LET n == NumBits(e.eobrun) - 1
    IN  IF e.eobrun = 0 THEN e
        ELSE [e EXCEPT !.out = @ \o <<Sym(n, 0)>> \o Bits(e.eobrun, n) \o e.be,
                       !.eobrun = 0, !.be = <<>>,
                       !.failed = @ \/ n > RunMax - 2]

\* The longest run is written at once.
Forced(e) == e.eobrun = EobMax

encode_mcu_DC_first(e, s, n) ==
    FoldLeft(LAMBDA x, c :
                 LET v == Transformed(image[c][n][0], 0, s.Al)
                     diff == v - x.last[c]
                     size == NumBits(Magnitude(diff))
                 IN  [Emit(x, <<Sym(0, size)>> \o ValueBits(diff, size))
                         EXCEPT !.last[c] = v,
                                !.failed = @ \/ size > MAX_COEF_BITS + 1],
             e, s.comps)

encode_mcu_DC_refine(e, s, n) ==
    FoldLeft(LAMBDA x, c : Emit(x, Bits(image[c][n][0] \div 2 ^ s.Al, 1)), e, s.comps)

Band(s) == [i \in 1 .. s.Se - s.Ss + 1 |-> s.Ss + i - 1]

ZRLs(count) == [i \in 1 .. count |-> ZRL]

encode_mcu_AC_first(e, s, n) ==
    LET step(x, k) ==
            LET v == Transformed(image[s.comps[1]][n][k], k, s.Al)
                size == NumBits(Magnitude(v))
            IN  IF v = 0 THEN [x EXCEPT !.r = @ + 1]
                ELSE [Emit(emit_eobrun(x), ZRLs(x.r \div RunMax)
                               \o <<Sym(x.r % RunMax, size)>> \o ValueBits(v, size))
                         EXCEPT !.r = 0, !.failed = @ \/ size > MAX_COEF_BITS]
        done == FoldLeft(step, [e EXCEPT !.r = 0], Band(s))
        counted == [done EXCEPT !.eobrun = @ + 1]
    IN  IF done.r = 0 THEN done
        ELSE IF Forced(counted) THEN emit_eobrun(counted) ELSE counted

\* Mutant: the buffer of correction bits may be fuller.
TooManyLate(e) == Len(e.be) > MAX_CORR_BITS - DCTSIZE2 + 2

\* The correction bits of the next block might not fit.
TooMany(e) == Len(e.be) > MAX_CORR_BITS - DCTSIZE2 + 1

\* Runs of zeros are written before a coefficient that becomes 1, with the
\* correction bits so far; not if they are part of the end of the block.
encode_mcu_AC_refine(e, s, n) ==
    LET abs(k) == Transformed(Magnitude(image[s.comps[1]][n][k]), k, s.Al)
        eob == Max({0} \cup {k \in s.Ss .. s.Se : abs(k) = 1})
        runs(x, k) ==
            IF x.r >= RunMax /\ k <= eob
              THEN [Emit(emit_eobrun(x), <<ZRL>> \o x.br \o ZRLs(x.r \div RunMax - 1))
                       EXCEPT !.r = @ % RunMax, !.br = <<>>]
              ELSE x
        correct(x, k) ==
            [x EXCEPT !.br = Append(@, Bit(abs(k) % 2)),
                      !.peak = Max({@, Len(x.be) + Len(x.br) + 1})]
        new(x, k) ==
            [Emit(emit_eobrun(x),
                  <<Sym(x.r, 1), Bit(IF image[s.comps[1]][n][k] < 0 THEN 0 ELSE 1)>> \o x.br)
                EXCEPT !.r = 0, !.br = <<>>]
        step(x, k) ==
            IF abs(k) = 0 THEN [x EXCEPT !.r = @ + 1]
            ELSE IF abs(k) > 1 THEN correct(runs(x, k), k) ELSE new(runs(x, k), k)
        done == FoldLeft(step, [e EXCEPT !.r = 0, !.br = <<>>], Band(s))
        counted == [done EXCEPT !.eobrun = @ + 1, !.be = @ \o done.br]
    IN  IF done.r = 0 /\ done.br = <<>> THEN done
        ELSE IF Forced(counted) \/ TooMany(counted)
               THEN emit_eobrun(counted) ELSE counted

EncodeBlocks(e, s, n) ==
    IF s.Ah = 0
      THEN IF IsDC(s) THEN encode_mcu_DC_first(e, s, n) ELSE encode_mcu_AC_first(e, s, n)
      ELSE IF IsDC(s) THEN encode_mcu_DC_refine(e, s, n) ELSE encode_mcu_AC_refine(e, s, n)

\* Whether a restart comes before the next MCU.
RestartDue == restart_interval > 0 /\ mcu > 0 /\ mcu % restart_interval = 0

-----------------------------------------------------------------------------
(* Writing.                                                                *)

\* The scan that is being written or read.
WriteScan == file[Len(file)].scan
ReadScan == file[in.scan].scan

\* A script is set, and validated.
SetScript(j) ==
    /\ phase = "script"
    /\ script' = j.scans
    /\ image' = j.image
    /\ restart_interval' = j.interval
    /\ phase' = IF ~validate_script(j.scans) THEN "refused"
                ELSE IF IsProgressive(j.scans) THEN "writing" ELSE "sequential"
    /\ UNCHANGED <<file, cut, mcu, enc, in, array, coef_bits, before, torn, warned>>

\* start_pass_phuff.
StartWrite ==
    /\ phase = "writing" /\ mcu = -1
    /\ Len(file) < Len(script)
    /\ file' = Append(file, [scan |-> script[Len(file) + 1], segs |-> <<>>])
    /\ enc' = [NewEncoder EXCEPT !.peak = enc.peak]
    /\ mcu' = 0
    /\ UNCHANGED <<phase, given, cut, in, array, coef_bits, before, torn, warned>>

\* The segment ends: emit_restart, finish_pass_phuff.
SegmentDone(e) ==
    file' = [file EXCEPT ![Len(file)].segs = Append(@, emit_eobrun(e).out)]

\* Predictions and runs start anew.
AfterRestart(e) ==
    [emit_eobrun(e) EXCEPT !.out = <<>>, !.last = [c \in Components |-> 0]]

EncodeMcu ==
    /\ phase = "writing" /\ mcu \in 0 .. NumBlocks - 1
    /\ IF RestartDue
         THEN /\ SegmentDone(enc)
              /\ enc' = EncodeBlocks(AfterRestart(enc), WriteScan, mcu + 1)
         ELSE /\ enc' = EncodeBlocks(enc, WriteScan, mcu + 1)
              /\ UNCHANGED file
    /\ mcu' = mcu + 1
    /\ phase' = IF enc'.failed THEN "refused" ELSE phase
    /\ UNCHANGED <<given, cut, in, array, coef_bits, before, torn, warned>>

FinishWrite ==
    /\ phase = "writing" /\ mcu = NumBlocks
    /\ SegmentDone(enc)
    /\ mcu' = -1
    /\ phase' = IF Len(file) = Len(script) THEN "written" ELSE phase
    /\ UNCHANGED <<given, cut, enc, in, array, coef_bits, before, torn, warned>>

\* What is left of the file when it ends in a scan, a segment and a place there.
Cut(n, m, left) ==
    /\ script \in CutScripts /\ phase = "written" /\ ~cut
    /\ file' = Append(SubSeq(file, 1, n - 1),
                      [file[n] EXCEPT !.segs =
                          Append(SubSeq(@, 1, m - 1), SubSeq(@[m], 1, left))])
    /\ cut' = TRUE
    /\ UNCHANGED <<phase, given, mcu, enc, in, array, coef_bits, before, torn, warned>>

-----------------------------------------------------------------------------
(* The decoder: the rest of the segment, and what was read last.  When the  *)
(* segment has ended, zeros are read, as bits or as the symbol they mean.   *)

Segment(segs, m) == IF m <= Len(segs) THEN segs[m] ELSE <<>>

GetBit(d) ==
    IF d.rest = <<>> THEN [d EXCEPT !.insufficient = TRUE, !.val = 0]
    ELSE [d EXCEPT !.rest = Tail(@), !.val = Head(d.rest)[2],
                   !.garbled = @ \/ Head(d.rest)[1] # "bit"]

GetBits(d, n) ==
    FoldLeft(LAMBDA x, i : LET g == GetBit(x) IN [g EXCEPT !.val = 2 * x.val + @],
             [d EXCEPT !.val = 0], [i \in 1 .. n |-> i])

HUFF_DECODE(d, zeros) ==
    IF d.rest = <<>> THEN [d EXCEPT !.insufficient = TRUE, !.sym = zeros]
    ELSE LET is == Head(d.rest)[1] = "sym"
         IN  [d EXCEPT !.rest = Tail(@), !.garbled = @ \/ ~is,
                       !.sym = IF is THEN <<Head(d.rest)[2], Head(d.rest)[3]>> ELSE zeros]

HUFF_EXTEND(v, n) == IF n > 0 /\ v < 2 ^ (n - 1) THEN v - 2 ^ n + 1 ELSE v

\* The entries of jpeg_natural_order: those past the block, for runs that are
\* too long, are all the last coefficient.
OrderEntries == DCTSIZE2 + RunMax

NaturalOrder(k) == IF k < DCTSIZE2 THEN k ELSE DCTSIZE2 - 1

Put(d, c, n, k, v) ==
    [d EXCEPT !.array[c][n][NaturalOrder(k)] = v, !.reach = Max({@, k})]

decode_mcu_DC_first(d, s, n, zeros) ==
    FoldLeft(LAMBDA x, c :
                 LET h == HUFF_DECODE(x, zeros)
                     g == GetBits(h, h.sym[2])
                     v == HUFF_EXTEND(g.val, h.sym[2]) + x.last[c]
                 IN  [Put(g, c, n, 0, v * 2 ^ s.Al) EXCEPT !.last[c] = v],
             d, s.comps)

\* The bit of the number at the place that is coded.
HasBit(v, al) == (v \div 2 ^ al) % 2 = 1

decode_mcu_DC_refine(d, s, n) ==
    FoldLeft(LAMBDA x, c :
                 LET g == GetBit(x)
                     v == g.array[c][n][0]
                 IN  IF g.val = 1 /\ ~HasBit(v, s.Al) THEN Put(g, c, n, 0, v + 2 ^ s.Al) ELSE g,
             d, s.comps)

\* EOBr: this many blocks end here.
ReadEobrun(d) ==
    LET g == GetBits(d, d.sym[1])
    IN  [g EXCEPT !.eobrun = 2 ^ d.sym[1] + g.val]

\* Coefficients from k on.
RECURSIVE ReadBand(_, _, _, _, _)
ReadBand(d, s, n, k, zeros) ==
    LET h == HUFF_DECODE(d, zeros)
        r == h.sym[1]
        g == GetBits(h, h.sym[2])
    IN  IF k > s.Se THEN d
        ELSE IF h.sym[2] > 0
          THEN ReadBand(Put(g, s.comps[1], n, k + r, HUFF_EXTEND(g.val, h.sym[2]) * 2 ^ s.Al),
                        s, n, k + r + 1, zeros)
        ELSE IF r = RunMax - 1 THEN ReadBand(h, s, n, k + RunMax, zeros)
        ELSE [ReadEobrun(h) EXCEPT !.eobrun = @ - 1]

decode_mcu_AC_first(d, s, n, zeros) ==
    IF d.eobrun > 0 THEN [d EXCEPT !.eobrun = @ - 1] ELSE ReadBand(d, s, n, s.Ss, zeros)

\* Mutant: a correction adds to any coefficient.
CorrectedUp(d, s, n, k) ==
    LET c == s.comps[1]
        g == GetBit(d)
        v == g.array[c][n][NaturalOrder(k)]
    IN  IF g.val = 1 /\ ~HasBit(v, s.Al) THEN Put(g, c, n, k, v + 2 ^ s.Al) ELSE g

\* A correction bit for a coefficient that is not 0.
Corrected(d, s, n, k) ==
    LET c == s.comps[1]
        g == GetBit(d)
        v == g.array[c][n][NaturalOrder(k)]
    IN  IF g.val = 1 /\ ~HasBit(v, s.Al)
          THEN Put(g, c, n, k, IF v >= 0 THEN v + 2 ^ s.Al ELSE v - 2 ^ s.Al)
          ELSE g

IsZero(d, s, n, k) == d.array[s.comps[1]][n][NaturalOrder(k)] = 0

\* Over r zeros to the next, correcting what is not 0 on the way.
RECURSIVE Advance(_, _, _, _, _)
Advance(d, s, n, k, r) ==
    IF k > s.Se THEN [d EXCEPT !.k = k]
    ELSE IF ~IsZero(d, s, n, k) THEN Advance(Corrected(d, s, n, k), s, n, k + 1, r)
    ELSE IF r = 0 THEN [d EXCEPT !.k = k]
    ELSE Advance(d, s, n, k + 1, r - 1)

\* New coefficients from d.k on; a run of blocks ends them.
RECURSIVE ReadNew(_, _, _, _)
ReadNew(d, s, n, zeros) ==
    LET h == HUFF_DECODE(d, zeros)
        r == h.sym[1]
        sign == GetBit(h)
        a == Advance(sign, s, n, d.k, r)
        skipped == Advance(h, s, n, d.k, r)
    IN  IF d.k > s.Se THEN d
        ELSE IF h.sym[2] > 0
          THEN ReadNew([Put(a, s.comps[1], n, a.k, IF sign.val = 1 THEN 2 ^ s.Al ELSE -(2 ^ s.Al))
                           EXCEPT !.k = @ + 1], s, n, zeros)
        ELSE IF r = RunMax - 1 THEN ReadNew([skipped EXCEPT !.k = @ + 1], s, n, zeros)
        ELSE ReadEobrun(h)

\* Correction bits up to the end of the band.
RECURSIVE CorrectedRest(_, _, _, _)
CorrectedRest(d, s, n, k) ==
    IF k > s.Se THEN d
    ELSE CorrectedRest(IF IsZero(d, s, n, k) THEN d ELSE Corrected(d, s, n, k), s, n, k + 1)

decode_mcu_AC_refine(d, s, n, zeros) ==
    LET start == [d EXCEPT !.k = s.Ss]
        new == IF d.eobrun = 0 THEN ReadNew(start, s, n, zeros) ELSE start
    IN  IF new.eobrun > 0
          THEN [CorrectedRest(new, s, n, new.k) EXCEPT !.eobrun = @ - 1]
          ELSE new

\* Once the data has ended, MCUs are left alone; refining DC by zeros does that.
DecodeBlocks(d, s, n, zeros) ==
    IF IsDC(s) /\ s.Ah > 0 THEN decode_mcu_DC_refine(d, s, n)
    ELSE IF d.insufficient THEN d
    ELSE IF IsDC(s) THEN decode_mcu_DC_first(d, s, n, zeros)
    ELSE IF s.Ah = 0 THEN decode_mcu_AC_first(d, s, n, zeros)
    ELSE decode_mcu_AC_refine(d, s, n, zeros)

\* History: a segment has more to say than its MCUs take.
LeftOver(d) == d.rest # <<>> \/ (d.eobrun > 0 /\ ~d.insufficient)

\* What process_restart makes of the end of a segment: bits that are left are
\* thrown away, and if no marker follows the data has still ended.
process_restart(d) ==
    LET segs == file[d.scan].segs
    IN  [d EXCEPT !.seg = @ + 1, !.rest = Segment(segs, d.seg + 1),
                  !.garbled = @ \/ LeftOver(d),
                  !.eobrun = 0, !.last = [c \in Components |-> 0],
                  !.insufficient = @ /\ d.seg + 1 > Len(segs)]

NewDecoder(n, segs, d) ==
    [d EXCEPT !.scan = n, !.seg = 1, !.rest = Segment(segs, 1), !.insufficient = FALSE,
              !.eobrun = 0, !.last = [c \in Components |-> 0]]

-----------------------------------------------------------------------------
(* Reading.                                                                *)

\* What the decoder does not accept, and what it warns of.
BadScan(s) ==
    \/ IF IsDC(s) THEN s.Se # 0
       ELSE s.Ss > s.Se \/ s.Se >= DCTSIZE2 \/ Len(s.comps) # 1
    \/ s.Ah # 0 /\ s.Al # s.Ah - 1
    \/ s.Al > MAX_AL

BogusScan(s, bits) ==
    \E c \in ToSet(s.comps) :
        \/ ~IsDC(s) /\ bits[c][0] < 0
        \/ \E k \in s.Ss .. s.Se : s.Ah # (IF bits[c][k] < 0 THEN 0 ELSE bits[c][k])

\* start_pass_phuff_decoder, for the next scan there is.
StartRead ==
    LET n == in.scan + 1
        s == file[n].scan
    IN  /\ phase \in {"written", "reading"} /\ mcu = -1
        /\ n <= Len(file)
        /\ IF BadScan(s)
             THEN /\ phase' = "bad"
                  /\ UNCHANGED <<mcu, in, coef_bits, before, torn, warned>>
             ELSE /\ phase' = "reading"
                  /\ mcu' = 0
                  /\ in' = NewDecoder(n, file[n].segs, in)
                  /\ warned' = warned + (IF BogusScan(s, coef_bits) THEN 1 ELSE 0)
                  /\ before' = coef_bits
                  /\ coef_bits' = [c \in Components |-> [k \in Coefs |->
                                     IF Covers(s, c, k) THEN s.Al ELSE coef_bits[c][k]]]
                  /\ torn' = 0
        /\ UNCHANGED <<given, file, cut, enc, array>>

DecodeMcu(zeros) ==
    LET d == IF RestartDue THEN process_restart(in) ELSE in
        done == DecodeBlocks([array |-> array] @@ d, ReadScan, mcu + 1, zeros)
    IN  /\ phase = "reading" /\ mcu \in 0 .. NumBlocks - 1
        /\ array' = done.array
        /\ in' = [f \in DOMAIN in |-> done[f]]
        /\ mcu' = mcu + 1
        /\ torn' = IF torn = 0 /\ done.insufficient THEN mcu + 1 ELSE torn
        /\ UNCHANGED <<phase, given, file, cut, enc, coef_bits, before, warned>>

\* The end of a scan, and of the file when no other follows.
FinishRead ==
    /\ phase = "reading" /\ mcu = NumBlocks
    /\ mcu' = -1
    /\ in' = [in EXCEPT !.garbled = @ \/ LeftOver(in)]
    /\ phase' = IF in.scan = Len(file) THEN "read" ELSE phase
    /\ UNCHANGED <<given, file, cut, enc, array, coef_bits, before, torn, warned>>

Init ==
    /\ phase = "script"
    /\ script = <<>> /\ image = <<>> /\ restart_interval = 0 /\ file = <<>> /\ cut = FALSE
    /\ mcu = -1
    /\ enc = NewEncoder
    /\ in = [scan |-> 0, seg |-> 0, rest |-> <<>>, insufficient |-> FALSE, garbled |-> FALSE,
             eobrun |-> 0, last |-> [c \in Components |-> 0], val |-> 0, sym |-> <<0, 0>>,
             k |-> 0, reach |-> 0]
    /\ array = [c \in Components |-> [n \in 1 .. NumBlocks |-> [k \in Coefs |-> 0]]]
    /\ coef_bits = NoBits /\ before = NoBits
    /\ torn = 0 /\ warned = 0

Next ==
    \/ \E j \in Jobs : SetScript(j)
    \/ StartWrite \/ EncodeMcu \/ FinishWrite
    \/ \E n \in DOMAIN file : \E m \in DOMAIN file[n].segs :
          \E left \in 0 .. Len(file[n].segs[m]) : Cut(n, m, left)
    \/ StartRead
    \/ \E zeros \in Fillers : DecodeMcu(zeros)
    \/ FinishRead

Spec == Init /\ [][Next]_vars

-----------------------------------------------------------------------------
(* What must hold.                                                         *)

\* A coefficient without its al lowest bits.
Approximation(v, k, al) == IF al < 0 THEN 0 ELSE Transformed(v, k, al) * 2 ^ al

\* At every MCU of every scan, the coefficients that are read are those that
\* were written, to the bit the scans so far have sent, whatever runs and
\* restarts there are; if the file ends early, so are they up to where it ends,
\* and but for the one MCU there the rest is as it was before the scan (a DC
\* coefficient that was to be refined is so even there).
Approximates ==
    phase \in {"reading", "read"} =>
        \A c \in Components, n \in 1 .. NumBlocks, k \in Coefs :
            LET now == Approximation(image[c][n][k], k, coef_bits[c][k])
                then == Approximation(image[c][n][k], k, before[c][k])
                is == array[c][n][k]
            IN  IF ~Contains(ReadScan.comps, c) THEN is = now
                ELSE IF (mcu # -1 /\ mcu < n) \/ (torn > 0 /\ torn < n) THEN is = then
                ELSE IF torn = n
                  THEN IsDC(ReadScan) /\ ReadScan.Ah > 0 => is \in {now, then}
                ELSE is = now

\* The decoder takes symbols for symbols and bits for bits, and has read all of
\* a segment, and no more, when its last MCU is done; and the encoder has no
\* run that it cannot write ("shouldn't happen").
InStep ==
    /\ ~in.garbled
    /\ ~cut => torn = 0
    /\ phase = "refused" /\ file # <<>> =>
          \E c \in Components, n \in 1 .. NumBlocks, k \in Coefs :
              Magnitude(image[c][n][k]) >= 2 ^ MAX_COEF_BITS

\* The correction bits that wait for a run and those of the next block fit in
\* the buffer, whatever the blocks; a run is written before it is longer than
\* can be written; and a run that zeros at the end of a file stand for goes past
\* the end of a block, but not past the table of places.
NothingOverruns ==
    /\ enc.peak <= MAX_CORR_BITS
    /\ enc.eobrun < EobMax
    /\ in.reach < OrderEntries

\* A script that the encoder accepts, the decoder reads without a complaint; and
\* the recommended scripts leave no bit out.
ScriptsAgree ==
    /\ phase # "bad" /\ warned = 0
    /\ (phase = "read" /\ ~cut /\ \E b \in BOOLEAN : script = jpeg_simple_progression(b)) =>
          array = image
=============================================================================
